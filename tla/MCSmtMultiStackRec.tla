------------------------- MODULE MCSmtMultiStackRec -------------------------
(* Instances of SmtMultiStackRec for TLC. *)
EXTENDS SmtMultiStackRec, TLC

CONSTANTS s1, s2, s3, i1, i2, i3, i4, i5

FiveIds == {i1, i2, i3, i4, i5}
IdSymmetry == Permutations(FiveIds)

Hyp(c, s, score) == [cls |-> c, state |-> s, score |-> score]

\* State s1 is reached with and without a jump, in classes 2 and 1; s2 is of
\* class 1 and s3 of class 2.
FewHyps ==
  {Hyp(c, s1, x) : c \in 1..2, x \in 1..2} \cup {Hyp(1, s2, x) : x \in 1..3}
    \cup {Hyp(2, s3, x) : x \in 1..2}
=============================================================================
