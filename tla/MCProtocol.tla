----------------------------- MODULE MCProtocol -----------------------------
(* Every request, with empty strings and strings of two bytes. *)
EXTENDS Protocol

AllCodes == 1 .. 11
Strings == {<<>>, <<[char |-> "a"], [char |-> "b"]>>}

\* A length that cannot be, one that is too short or too long, and the type of
\* another request.
SomeInts == {-1, 1, 3}
=============================================================================
