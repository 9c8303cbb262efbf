----------------------------- MODULE WordGraph ------------------------------
(***************************************************************************)
(* Word graphs (src/src/error_correction/WordGraph.cc): the translations   *)
(* that a search has seen, as paths from INITIAL_STATE to a final state.   *)
(* The stack decoder builds one; the engines of assisted translation, the  *)
(* weight updaters and thot_wg_proc read it.                               *)
(*                                                                         *)
(* A graph is a value, and its operations are operators on it.  The words  *)
(* and the score components of an arc are whatever the caller gives.       *)
(* Arcs are numbered from 1 (from 0 in the code), states from 0.           *)
(***************************************************************************)
EXTENDS Integers, FiniteSets, SequencesExt

CONSTANTS SMALL_SCORE, UNLIMITED_DENSITY

INITIAL_STATE == 0

EmptyWordGraph ==
  [arcs |-> <<>>, arcsPruned |-> <<>>, scrComps |-> <<>>,
   states |-> <<>>,            \* states[s+1] = [toPred, toSucc]: sets of arcs
   finals |-> {}, initialStateScore |-> 0]

NumStates(g) == Len(g.states)
States(g) == 0 .. NumStates(g) - 1
Arcs(g) == 1 .. Len(g.arcs)
NonPruned(g) == {i \in Arcs(g) : ~g.arcsPruned[i]}
ArcIdsToPredStates(g, s) ==
  IF s \in States(g) THEN g.states[s + 1].toPred \cap NonPruned(g) ELSE {}
ArcIdsToSuccStates(g, s) ==
  IF s \in States(g) THEN g.states[s + 1].toSucc \cap NonPruned(g) ELSE {}

\* mutant: a new state does not learn of the arc that creates it.
StatesWithArcOneSided(g, p, s, i) ==
  LET blank == [toPred |-> {}, toSucc |-> {}]
      room  == [k \in 1 .. (IF s < NumStates(g) THEN NumStates(g) ELSE s + 1) |->
                  IF k <= NumStates(g) THEN g.states[k] ELSE blank]
  IN [room EXCEPT ![p + 1].toSucc = @ \cup {i}]

\* The states, when arc i from p to s has been registered with both.
StatesWithArc(g, p, s, i) ==
  LET blank == [toPred |-> {}, toSucc |-> {}]
      room  == [k \in 1 .. (IF s < NumStates(g) THEN NumStates(g) ELSE s + 1) |->
                  IF k <= NumStates(g) THEN g.states[k] ELSE blank]
  IN [k \in DOMAIN room |->
        [toPred |-> room[k].toPred \cup {j \in {i} : k = s + 1},
         toSucc |-> room[k].toSucc \cup {j \in {i} : k = p + 1}]]

AddArc(g, p, s, words, score, comps) ==
  [g EXCEPT !.arcs = Append(@, [pred |-> p, succ |-> s, words |-> words, score |-> score]),
            !.arcsPruned = Append(@, FALSE),
            !.scrComps = Append(@, comps),
            !.states = StatesWithArc(g, p, s, Len(g.arcs) + 1)]

AddFinalState(g, s) == [g EXCEPT !.finals = @ \cup {s}]

-----------------------------------------------------------------------------
(* Scores of the best paths.  The passes over the arcs assume them in      *)
(* topological order.                                                      *)

AtLeastSmall(x) == IF x < SMALL_SCORE THEN SMALL_SCORE ELSE x

\* What one arc does to the scores of the states seen from a start.
PrevStep(g, from, excluded, acc, i) ==
  LET a == g.arcs[i]
      x == IF i \in excluded THEN SMALL_SCORE ELSE AtLeastSmall(a.score + acc.score[a.pred])
      seen == acc.accessible \cup {a.succ}
  IN CASE i \notin NonPruned(g) -> acc
       [] i \in NonPruned(g) /\ a.pred \notin acc.accessible ->
            IF a.succ \in acc.accessible THEN acc
            ELSE [acc EXCEPT !.score[a.succ] = SMALL_SCORE]
       [] OTHER ->
            IF x > acc.score[a.succ]
              THEN [score |-> [acc.score EXCEPT ![a.succ] = x],
                    arc |-> [acc.arc EXCEPT ![a.succ] = i], accessible |-> seen]
            ELSE [acc EXCEPT !.accessible = seen]

\* Before the first arc.
PrevStart(g, from) ==
  [score |-> [s \in States(g) |->
                IF s # from THEN SMALL_SCORE
                ELSE IF s = INITIAL_STATE THEN g.initialStateScore ELSE 0],
   arc |-> [s \in States(g) |-> 0], accessible |-> {from}]

\* [score, arc]: of each state, the score of the best path to it from a state
\* and the last arc of that path (0 for none).
PrevScores(g, from, excluded) ==
  FoldLeftDomain(LAMBDA acc, i : PrevStep(g, from, excluded, acc, i),
                 PrevStart(g, from), g.arcs)

\* One pass over the arcs from the last to the first.
BackwardPass(g, start, Clamp(_)) ==
  FoldLeftDomain(LAMBDA rest, k :
    LET i == Len(g.arcs) + 1 - k
        a == g.arcs[i]
        x == Clamp(a.score + rest[a.succ])
    IN IF i \in NonPruned(g) /\ x > rest[a.pred] THEN [rest EXCEPT ![a.pred] = x] ELSE rest,
    start, g.arcs)

RestScores(g) ==
  BackwardPass(g, [s \in States(g) |-> IF s \in g.finals THEN g.initialStateScore
                                       ELSE SMALL_SCORE], AtLeastSmall)

BestFinalScore(g, prev) ==
  FoldSet(LAMBDA s, best : IF prev[s] > best THEN prev[s] ELSE best, SMALL_SCORE, g.finals)

\* The arcs of the best path from s to a final state, first to last; <<>> also
\* when there is none.  Of ends with one score the code takes the first.
BestPathFromFinalStateToIdx(g, s, excluded) ==
  LET prev == PrevScores(g, s, excluded)
      best == BestFinalScore(g, prev.score)
      Back[t \in States(g)] ==
        IF t = s \/ prev.arc[t] = 0 THEN <<>> ELSE Append(Back[g.arcs[prev.arc[t]].pred], prev.arc[t])
      ends == {t \in g.finals : prev.score[t] = best /\ best > SMALL_SCORE}
  IN [score |-> best, path |-> IF ends = {} THEN <<>> ELSE Back[CHOOSE t \in ends : TRUE]]

-----------------------------------------------------------------------------
(* Pruning and useful states.                                              *)

\* mutant: what follows the arc does not count.
ThroughArcAlone(a, prev, rest) == prev[a.pred] + a.score

\* The score of the best path through an arc.
ThroughArc(a, prev, rest) == prev[a.pred] + a.score + rest[a.succ]

\* The logarithm of the threshold is given; its value is SMALL_SCORE for 0.
PruneArcsToPredStates(g, logThreshold) ==
  LET prev == PrevScores(g, INITIAL_STATE, {}).score
      rest == RestScores(g)
      worst == BestFinalScore(g, prev) + logThreshold
      registered == UNION {g.states[k].toPred : k \in DOMAIN g.states}
  IN [g EXCEPT !.arcsPruned =
        [i \in Arcs(g) |-> IF i \in registered THEN ThroughArc(g.arcs[i], prev, rest) < worst
                           ELSE @[i]]]

Prune(g, threshold) ==
  IF threshold = UNLIMITED_DENSITY THEN [g EXCEPT !.arcsPruned = [i \in Arcs(g) |-> FALSE]]
  ELSE PruneArcsToPredStates(g, threshold)

StatesReachableFromInit(g) ==
  FoldLeftDomain(LAMBDA reached, i :
    IF i \in NonPruned(g) /\ g.arcs[i].pred \in reached
      THEN reached \cup {g.arcs[i].succ} ELSE reached,
    {INITIAL_STATE}, g.arcs)

UsefulFinals(g) == {s \in g.finals : ArcIdsToPredStates(g, s) # {}}

UsefulStates(g) ==
  LET reached == StatesReachableFromInit(g) IN
  FoldLeftDomain(LAMBDA useful, k :
    LET i == Len(g.arcs) + 1 - k
        a == g.arcs[i]
    IN IF i \in NonPruned(g) /\ a.pred \in reached /\ a.succ \in useful
         THEN useful \cup {a.pred} ELSE useful,
    UsefulFinals(g), g.arcs)

\* Useful states are numbered anew, in their order.
Remapped(useful, s) == Cardinality({t \in useful : t < s})

WgComposedOfUsefulStates(g) ==
  LET useful == UsefulStates(g)
      start  == [EmptyWordGraph EXCEPT
                   !.finals = {Remapped(useful, s) : s \in g.finals \cap useful},
                   !.initialStateScore = g.initialStateScore]
  IN IF g.arcs = <<>> THEN g
     ELSE FoldLeftDomain(LAMBDA new, i :
            LET a == g.arcs[i] IN
            IF i \in NonPruned(g) /\ a.pred \in useful /\ a.succ \in useful
              THEN AddArc(new, Remapped(useful, a.pred), Remapped(useful, a.succ), a.words, a.score,
                          g.scrComps[i])
              ELSE new,
            start, g.arcs)

-----------------------------------------------------------------------------
(* Topological order.                                                      *)

\* mutant: one of the arcs to the predecessor is enough.
MayBeAddedEarly(g, added, i) ==
  LET into == ArcIdsToPredStates(g, g.arcs[i].pred)
  IN into = {} \/ into \cap ToSet(added) # {}

\* All the arcs to the predecessor of arc i have been added, which closes the
\* states they leave.
MayBeAdded(g, added, i) == ArcIdsToPredStates(g, g.arcs[i].pred) \subseteq ToSet(added)

\* A round over the arcs adds each that may be added when its turn comes.
Round(g, added) ==
  FoldLeftDomain(LAMBDA acc, i :
    IF i \notin ToSet(acc) /\ MayBeAdded(g, acc, i) THEN Append(acc, i) ELSE acc,
    added, g.arcs)

TopologicalOrder(g) == FoldLeftDomain(LAMBDA added, k : Round(g, added), <<>>, g.arcs)

\* Only the arcs move: their flags, their components and the lists of the
\* states stay as they are.
OrderArcsTopol(g) ==
  LET order == TopologicalOrder(g) IN
  IF Len(order) = Len(g.arcs) THEN [g EXCEPT !.arcs = [k \in Arcs(g) |-> @[order[k]]]]
  ELSE g

-----------------------------------------------------------------------------
(* The n best translations.  A hypothesis of the search is a sequence of   *)
(* arcs.  Those that an iteration may choose are at most                   *)
(* NBEST_MAX_STACK_SIZE; here none is dropped.                             *)

NBEST_MAX_STACK_SIZE == 10000

NbSearchHeurInfo(g) ==
  BackwardPass(g, [s \in States(g) |-> IF s \in g.finals THEN 0 ELSE SMALL_SCORE],
               LAMBDA x : x)

LastState(g, h) == IF h.arcs = <<>> THEN INITIAL_STATE ELSE g.arcs[Last(h.arcs)].succ

\* mutant: the score so far is forgotten.
NbEstimateOfRest(g, heur, h) == heur[LastState(g, h)]

NbEstimate(g, heur, h) == h.score + heur[LastState(g, h)]

HypIsComplete(g, h) == h.arcs # <<>> /\ LastState(g, h) \in g.finals

\* NbSearchStack: the best comes first, after those that are as good.
PushByScore(stack, h) ==
  InsertAt(stack, Cardinality({k \in DOMAIN stack : stack[k].score >= h.score}) + 1, h)

\* One iteration of the A* search: the best hypothesis is complete, or gives
\* way to its extensions.
NbIteration(g, len, heur, search) ==
  IF Len(search.complete) >= len \/ search.open = {} THEN search
  ELSE LET top == CHOOSE h \in search.open :
                    \A o \in search.open : NbEstimate(g, heur, o) <= NbEstimate(g, heur, h)
           extensions == {[score |-> top.score + g.arcs[i].score,
                           arcs |-> Append(top.arcs, i)] :
                             i \in ArcIdsToSuccStates(g, LastState(g, top))}
       IN IF HypIsComplete(g, top)
            THEN [open |-> search.open \ {top}, complete |-> PushByScore(search.complete, top)]
          ELSE [search EXCEPT !.open = (@ \ {top}) \cup extensions]

\* iterations: as many as hypotheses can be popped.
NbSearch(g, len, iterations) ==
  LET heur == NbSearchHeurInfo(g)
      start == [open |-> {[score |-> g.initialStateScore, arcs |-> <<>>]}, complete |-> <<>>]
      Found[k \in 0 .. iterations] ==
        IF k = 0 THEN start ELSE NbIteration(g, len, heur, Found[k - 1])
  IN Found[iterations].complete

NbestList(g, len, iterations) ==
  IF g.arcs = <<>> THEN <<>> ELSE NbSearch(g, len, iterations)
=============================================================================
