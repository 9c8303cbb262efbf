--------------------------- MODULE MCStackDecoder ---------------------------
(* An instance of StackDecoder for TLC. *)
EXTENDS StackDecoder, TLC

CONSTANTS n, a, b, c, d, i1, i2, i3, i4, i5

FiveIds == {i1, i2, i3, i4, i5}
IdSymmetry == Permutations(FiveIds)

\* Sentences have two words, so that a and b cover one of them.
SmallCov == [s \in {n, a, b, c, d} |-> IF s = n THEN 0 ELSE IF s \in {a, b} THEN 1 ELSE 2]

\* Large enough to order hypotheses by the words they cover.
SmallG == -100

AllHyps == [cls : 0..5, state : {n, a, b, c, d}, score : -230..10]

Arc4(from, to, jump, score) == [from |-> from, to |-> to, jump |-> jump, score |-> score]

\* State c is reached by three ways, in both classes, and so is d, by ways of
\* the same score; b looks worse than a at first and is better in the end.
FullArcs ==
  {Arc4(n, a, 0, -1), Arc4(n, b, 1, -3), Arc4(n, c, 0, -7), Arc4(a, c, 0, -5),
   Arc4(b, c, 0, -2), Arc4(b, d, 0, -3), Arc4(a, d, 1, -5)}

\* The translation c is found before b is expanded, when the heuristic of b
\* is too low.
WithoutA == FullArcs \ {Arc4(n, a, 0, -1)}

\* Nothing can follow a, and what follows b has probability zero.
DeadEndArcs == {Arc4(n, a, 0, -1), Arc4(n, b, 0, -2), Arc4(b, d, 0, -5000)}

\* What the reference allows.
RefArcs == {Arc4(n, b, 1, -3), Arc4(n, a, 0, -1), Arc4(b, c, 0, -2)}

Heur(hn, ha, hb) ==
  [s \in {n, a, b, c, d} |-> CASE s = n -> hn [] s = a -> ha [] s = b -> hb [] OTHER -> 0]

Request(mode, words, arcs, heur) ==
  [mode |-> mode, words |-> words, root |-> n, arcs |-> arcs, heur |-> heur]

\* The second heuristic is not admissible.
SmallRequests ==
  {Request("TRANS", 2, FullArcs, Heur(-4, -3, -1)),
   Request("TRANS", 2, WithoutA, Heur(-4, -2, -6)),
   Request("TRANS", 2, DeadEndArcs, Heur(0, 0, 0)),
   Request("TRANSREF", 2, RefArcs, Heur(-4, -3, -1)),
   Request("TRANS", 3, {}, Heur(0, 0, 0))}
=============================================================================
