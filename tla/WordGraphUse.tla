---------------------------- MODULE WordGraphUse ----------------------------
(***************************************************************************)
(* What happens to a word graph: it is built, by the stack decoder or from *)
(* a file, and then pruned, ordered and reduced, as thot_wg_proc and the   *)
(* assisted translators do.  No caller adds arcs to a graph it has         *)
(* processed, until it clears it.                                          *)
(*                                                                         *)
(* The properties compare what WordGraph computes, in passes over the      *)
(* arcs, with the paths of the graph.  An arc is told from the others by   *)
(* its words, which are here its number when it was added; its components  *)
(* are the same number.                                                    *)
(***************************************************************************)
EXTENDS WordGraph

CONSTANTS
  Edges,            \* pairs of states that an arc may join
  MaxArcs,
  Scores,           \* of arcs
  InitialScores,    \* of the initial state
  LogThresholds,    \* of pruning: logarithms, and UNLIMITED_DENSITY
  Len4Nbest         \* lengths of n-best lists

\* No cycle: of any states, one is entered from none of them.
\* SMALL_SCORE is the least score of all: -999999999, when the scores of arcs and
\* the thresholds (but that of 0) are logarithms of probabilities.
ASSUME WordGraphConstants ==
  /\ Edges \subseteq Nat \X (Nat \ {INITIAL_STATE}) /\ MaxArcs \in Nat
  /\ \A S \in SUBSET {e[1] : e \in Edges} :
       S # {} => \E s \in S : \A e \in Edges : e[2] = s => e[1] \notin S
  /\ Scores \subseteq Int /\ InitialScores \subseteq Int /\ LogThresholds \subseteq Int
  /\ Len4Nbest \subseteq Nat
  /\ SMALL_SCORE \in Int /\ SMALL_SCORE < 0 /\ UNLIMITED_DENSITY \in Int
  /\ \A x \in Scores \cup InitialScores, t \in LogThresholds \cup {0} :
       t > SMALL_SCORE =>
         4 * (MaxArcs + 1) * (IF x < 0 THEN -x ELSE x) < t - SMALL_SCORE

VARIABLES
  graph,
  processed,    \* the graph is no longer built
  reordered     \* orderArcsTopol has moved arcs

vars == <<graph, processed, reordered>>

Init == graph = EmptyWordGraph /\ processed = FALSE /\ reordered = FALSE

\* No arc enters a state after one that leaves it: what the notes of
\* WordGraph.h ask for.
TopologicallyOrdered(g) == \A i, j \in Arcs(g) : g.arcs[i].succ = g.arcs[j].pred => i < j

\* The decoder extends a hypothesis that has a state.
Build ==
  /\ ~processed /\ Len(graph.arcs) < MaxArcs
  /\ \E e \in Edges, x \in Scores, n \in {Len(graph.arcs) + 1} :
       /\ e[1] \in {INITIAL_STATE} \cup {graph.arcs[i].succ : i \in Arcs(graph)}
       /\ graph' = AddArc(graph, e[1], e[2], n, x, n)
  /\ UNCHANGED <<processed, reordered>>

MakeFinal ==
  /\ ~processed
  /\ \E s \in States(graph) \ graph.finals :
       /\ ArcIdsToPredStates(graph, s) # {}
       /\ graph' = AddFinalState(graph, s)
  /\ UNCHANGED <<processed, reordered>>

\* setInitialStateScore
ScoreInitialState ==
  /\ ~processed
  /\ \E x \in InitialScores : graph' = [graph EXCEPT !.initialStateScore = x]
  /\ UNCHANGED <<processed, reordered>>

\* Every caller prunes a graph once.
PruneBy(threshold) ==
  /\ graph.arcs # <<>> /\ ~processed
  /\ graph' = Prune(graph, threshold)
  /\ processed' = TRUE /\ UNCHANGED reordered

\* Of a graph in another order the code registers arcs with states it has not
\* created, and writes outside wordGraphStates; the lists of a reordered graph
\* are those of other arcs, and thot_wg_proc only prints it.
TakeUseful ==
  /\ ~reordered /\ TopologicallyOrdered(graph)
  /\ graph' = WgComposedOfUsefulStates(graph)
  /\ processed' = TRUE /\ UNCHANGED reordered

Order ==
  /\ ~processed
  /\ graph' = OrderArcsTopol(graph)
  /\ processed' = TRUE /\ reordered' = (graph'.arcs # graph.arcs)

Clear == graph' = EmptyWordGraph /\ processed' = FALSE /\ reordered' = FALSE

Next ==
  \/ Build \/ MakeFinal \/ ScoreInitialState
  \/ \E t \in LogThresholds : PruneBy(t)
  \/ TakeUseful \/ Order \/ Clear

Spec == Init /\ [][Next]_vars

-----------------------------------------------------------------------------
(* Paths.                                                                  *)

\* Of the arcs in a set, the paths that start at INITIAL_STATE.
PathsOver(g, arcs) ==
  LET LongerBy[k \in 0 .. Len(g.arcs)] ==
        IF k = 0 THEN {<<>>}
        ELSE {Append(pi[1], pi[2]) : pi \in
                {qi \in LongerBy[k - 1] \X arcs :
                   g.arcs[qi[2]].pred = LastState(g, [arcs |-> qi[1]])}}
  IN UNION {LongerBy[k] : k \in 0 .. Len(g.arcs)}

PathScore(g, path) ==
  FoldLeft(LAMBDA sum, i : sum + g.arcs[i].score, g.initialStateScore, path)

\* The paths of non-pruned arcs that give a translation.
Translations(g) == {p \in PathsOver(g, NonPruned(g)) : HypIsComplete(g, [arcs |-> p])}

\* Their words and scores.
Said(g) == {[words |-> [k \in DOMAIN p |-> g.arcs[p[k]].words], score |-> PathScore(g, p)] :
              p \in Translations(g)}

-----------------------------------------------------------------------------
(* Properties.                                                             *)

\* The parallel vectors of a graph have one length, and until the arcs are
\* reordered the lists of the states, the flags and the components are those
\* of the arcs: addArc (WordGraph.cc:75) registers an arc in five places, and
\* the reduction to useful states rebuilds them all.
WgTypeOK ==
  /\ processed \in BOOLEAN /\ reordered \in BOOLEAN
  /\ Len(graph.arcsPruned) = Len(graph.arcs) /\ Len(graph.scrComps) = Len(graph.arcs)
  /\ \A i \in Arcs(graph) :
       /\ graph.arcs[i].pred \in States(graph) /\ graph.arcs[i].succ \in States(graph)
       /\ graph.arcs[i].score \in Int /\ graph.arcsPruned[i] \in BOOLEAN
  /\ graph.finals \subseteq States(graph)
  /\ ~reordered => \A i \in Arcs(graph) :
       /\ graph.scrComps[i] = graph.arcs[i].words
       /\ \A s \in States(graph) :
            /\ (i \in graph.states[s + 1].toPred) = (graph.arcs[i].succ = s)
            /\ (i \in graph.states[s + 1].toSucc) = (graph.arcs[i].pred = s)

\* Pruning retains exactly the arcs of the paths whose score is within the
\* threshold of the best one's (WordGraph.cc:1056), in a graph whose arcs are
\* in topological order and whose initial state has no score of its own: that
\* score is counted twice, by calcPrevScores and by calcRestScores.
PruneKeepsGoodPaths ==
  [][\A t \in LogThresholds \ {UNLIMITED_DENSITY} :
       PruneBy(t) /\ TopologicallyOrdered(graph) /\ graph.initialStateScore = 0
         /\ t > SMALL_SCORE
       => LET all  == {p \in PathsOver(graph, Arcs(graph)) : p # <<>>
                         /\ LastState(graph, [arcs |-> p]) \in graph.finals}
              good == {p \in all : \A q \in all : PathScore(graph, p) >= PathScore(graph, q) + t}
          IN all # {} => NonPruned(graph') = UNION {ToSet(p) : p \in good}]_vars

\* Reducing a graph to its useful states, or ordering its arcs, changes no
\* translation and no score; every state that is left lies on a translation,
\* and the order is topological (WordGraph.cc:648, 717).
ReshapingKeepsTranslations ==
  [][/\ TakeUseful =>
          /\ Said(graph') = Said(graph)
          /\ UNION {ToSet(p) : p \in Translations(graph')} = Arcs(graph')
     /\ Order => Said(graph') = Said(graph) /\ TopologicallyOrdered(graph')]_vars

\* The list of the n best holds the n best translations (all, if they are
\* fewer), best first and none twice, and the best path is the first of them
\* (WordGraph.cc:360, 436, 975), when the scores of the arcs are logarithms of
\* probabilities, for the search takes a final state for the end of a path, and
\* the paths have place in its stack.
NbestIsBest ==
  /\ TopologicallyOrdered(graph) /\ ~reordered /\ graph.arcs # <<>>
  /\ \A i \in Arcs(graph) : graph.arcs[i].score < 0
  /\ Cardinality(PathsOver(graph, NonPruned(graph))) <= NBEST_MAX_STACK_SIZE
  =>
    LET first == {p \in Translations(graph) :
                    \A k \in 1 .. Len(p) - 1 : graph.arcs[p[k]].succ \notin graph.finals}
        best == BestPathFromFinalStateToIdx(graph, INITIAL_STATE, {})
        pops == Cardinality(PathsOver(graph, NonPruned(graph)))
    IN /\ \A n \in Len4Nbest :
            LET list == NbestList(graph, n, pops)
                kept == {list[k].arcs : k \in DOMAIN list}
            IN /\ kept \subseteq first
               /\ Cardinality(kept) = Len(list)
               /\ Len(list) = IF Cardinality(first) < n THEN Cardinality(first) ELSE n
               /\ \A k \in DOMAIN list : list[k].score = PathScore(graph, list[k].arcs)
               /\ \A k \in 1 .. Len(list) - 1 : list[k].score >= list[k + 1].score
               /\ \A p \in kept, q \in first \ kept : PathScore(graph, p) >= PathScore(graph, q)
       /\ first # {} =>
            /\ PathScore(graph, best.path) = best.score /\ best.path \in first
            /\ \A p \in first : PathScore(graph, p) <= best.score
=============================================================================
