---------------------------- MODULE MCCatSession ----------------------------
(* Sentences of a few words over two letters; one sentence has its word     *)
(* graph in a file.                                                         *)
EXTENDS CatSession

SmallScore == -1000
UnlimitedDensity == 1
DisableWordgraph == 2
\* By -2, one of three translations of the first sentence is pruned.
Wgps == {UnlimitedDensity, DisableWordgraph, -2}

A == <<"a">>
B == <<"b">>
AB == <<"a", "b">>
BA == <<"b", "a">>

\* Two arcs into a state, one of two words, and a way around them.
Wide ==
  AddFinalState(AddArc(AddArc(AddArc(AddArc([EmptyWordGraph EXCEPT !.initialStateScore = -1],
    0, 1, <<A>>, -1, 1), 0, 1, <<AB>>, -2, 2), 1, 2, <<B, A>>, -1, 3), 0, 2, <<BA>>, -4, 4), 2)
Short == AddFinalState(AddArc(EmptyWordGraph, 0, 1, <<B, AB>>, -1, 1), 1)
Torn == AddArc(EmptyWordGraph, 0, 1, <<A>>, -1, 1)

Outputs == [s1 |-> {[graph |-> Wide, complete |-> TRUE], [graph |-> Torn, complete |-> FALSE]},
            s2 |-> {[graph |-> Short, complete |-> TRUE]}]
Coverage == [s1 |-> {EmptyWordGraph, Torn}, s2 |-> {EmptyWordGraph, Short}]
Files == [s2 |-> Short]
Typed == {A, <<" ">>, <<"b", " ", "a">>, <<"b", " ", "a", " ">>}
Rejected == {{}, {<<(<<>>), A>>}}
Predicted == {<<>>, B}

\* The distances are what they are defined to be, on the words of up to three
\* letters: the least cost of the operations, and for a prefix the least
\* distance of a part of the word.
Words(n) == UNION {[1 .. k -> {"a", "b"}] : k \in 0 .. n}
LeastCost(x, y) ==
  LET D[i \in 0 .. Len(x), j \in 0 .. Len(y)] ==
        IF i = 0 THEN j * InsCost
        ELSE IF j = 0 THEN i * DelCost
        ELSE Min({D[i - 1, j] + DelCost, D[i, j - 1] + InsCost,
                  D[i - 1, j - 1] + IF x[i] = y[j] THEN HitCost ELSE SubstCost})
  IN D[Len(x), Len(y)]

ASSUME DistancesAreLeast ==
  \A x \in Words(3), y \in Words(3) \ {<<>>} :
    /\ SubstitutionCost(x, y) = LeastCost(x, y)
    /\ PrefSubstitutionCost(x, y) = Min({LeastCost(SubSeq(x, 1, k), y) : k \in 0 .. Len(x)})
=============================================================================
