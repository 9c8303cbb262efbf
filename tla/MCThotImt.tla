------------------------------ MODULE MCThotImt -----------------------------
(* Two threads of a host program, with engines for one named user and for one *)
(* whose name is a number.                                                    *)
EXTENDS ThotImt

CONSTANTS h1, h2

TwoHosts == {h1, h2}
CallsOfHosts == [h \in TwoHosts |-> IF h = h1 THEN 4 ELSE 2]
Calls == UNION {{h} \X (1 .. CallsOfHosts[h]) : h \in TwoHosts}
Ids == 0 .. 6
PluginOps == {"initUserPars", "translateSentence", "startCat", "setPref", "release_user_data"}
Names == {"ann", "0"}
Digits == <<"0", "1", "2", "3", "4", "5">>
=============================================================================
