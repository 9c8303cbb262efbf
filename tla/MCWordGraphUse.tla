-------------------------- MODULE MCWordGraphUse ----------------------------
(* The word graphs of up to MaxArcs arcs over four states: two states      *)
(* between the first and the last, that an arc may join, parallel arcs,    *)
(* arcs added in any order.                                                *)
EXTENDS WordGraphUse

SmallScore == -1000
UnlimitedDensity == 1       \* no logarithm of a threshold is positive
JoinedStates == {<<0, 1>>, <<0, 2>>, <<2, 1>>, <<1, 3>>, <<2, 3>>}
ArcScores == {-2, -1}
StateScores == {-1, 0}
Logs == {-1000, -1, 0, 1}
=============================================================================
