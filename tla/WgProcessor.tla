----------------------------- MODULE WgProcessor ----------------------------
(***************************************************************************)
(* The word-graph processor of assisted translation                        *)
(* (src/src/error_correction/WgProcessorForAnlp.h with PfsmEcmForWg.cc):   *)
(* given a prefix of a translation, it corrects the translation of the     *)
(* word graph that is best for it.  For each state and each length of the  *)
(* prefix it keeps the best score, and when the prefix changes it works    *)
(* out only what is new.                                                   *)
(*                                                                         *)
(* A processor is a value and its operations are operators on it.  In the  *)
(* rows, what belongs to the first j words of the prefix is at j + 1.      *)
(* An arc has at least one word.                                           *)
(***************************************************************************)
EXTENDS WordGraph, EditDist

CONSTANTS WgWeight, EcmWeight

INVALID_ARCID == 0

\* clear, which link_wg calls.  of is the graph that the rows were made for.
EmptyProcessor ==
  [inited |-> FALSE, previousPrefix |-> <<>>, of |-> EmptyWordGraph, rest |-> <<>>,
   stateRow |-> <<>>,         \* of a state, the costs of the best path's correction
   arcRows |-> <<>>,          \* of an arc, for each word [scr, op]
   wgScore |-> <<>>, bestScores |-> <<>>, bestPreds |-> <<>>]

\* mutant: the new graph is linked and the rows are left.
LinkWgOnly(p) == [p EXCEPT !.previousPrefix = <<>>]

LinkWg(p) == EmptyProcessor

StatesInvolvedInArcs(g) ==
  {g.arcs[i].pred : i \in NonPruned(g)} \cup {g.arcs[i].succ : i \in NonPruned(g)}

-----------------------------------------------------------------------------
(* The rows.                                                               *)

UpdateBestScoresForInitState(p, g) ==
  LET row == p.stateRow[INITIAL_STATE] IN
  [p EXCEPT
     !.wgScore[INITIAL_STATE] = g.initialStateScore,
     !.bestScores[INITIAL_STATE] =
        [j \in DOMAIN row |-> EcmWeight * (-row[j]) + WgWeight * g.initialStateScore],
     !.bestPreds[INITIAL_STATE] = [j \in DOMAIN row |-> INVALID_ARCID]]

\* Places that do not exist yet are made.
Grown(row, n, value) == row \o [j \in 1 .. (IF n > Len(row) THEN n - Len(row) ELSE 0) |-> value]

\* The scores of the state that arc i enters, in its last prefDiffSize places,
\* or in all of them.  Its word-graph score is the one by way of this arc.
UpdateBestScoresForState(p, g, i, prefDiffSize) ==
  LET a == g.arcs[i]
      row == Last(p.arcRows[i]).scr
      wgScr == p.wgScore[a.pred] + a.score
      best == Grown(p.bestScores[a.succ], Len(row), SMALL_SCORE)
      preds == Grown(p.bestPreds[a.succ], Len(row), INVALID_ARCID)
      costs == Grown(p.stateRow[a.succ], Len(row), 0)
      startPos == IF prefDiffSize = 0 THEN 0 ELSE Len(best) - prefDiffSize
      New(j) == EcmWeight * (-row[j]) + WgWeight * wgScr
      better == {j \in startPos + 1 .. Len(best) : best[j] < New(j)}
  IN [p EXCEPT
        !.bestScores[a.succ] = [j \in DOMAIN best |-> IF j \in better THEN New(j) ELSE best[j]],
        !.bestPreds[a.succ] = [j \in DOMAIN preds |-> IF j \in better THEN i ELSE preds[j]],
        !.stateRow[a.succ] = [j \in DOMAIN costs |-> IF j \in better THEN row[j] ELSE costs[j]],
        !.wgScore[a.succ] = wgScr]

\* The rows of an arc for the empty prefix: its words are deleted.
InitArcRows(p, g, i) ==
  Tail(FoldLeft(LAMBDA rows, w :
         Append(rows, [scr |-> <<Last(rows).scr[1] + DeletionCost(w)>>, op |-> <<"NONE">>]),
       <<[scr |-> p.stateRow[g.arcs[i].pred]]>>, g.arcs[i].words))

ForArcs(g, p, Step(_, _)) ==
  FoldLeftDomain(LAMBDA acc, i : IF i \in NonPruned(g) THEN Step(acc, i) ELSE acc, p, g.arcs)

\* Of the states' word-graph scores the code sets only the first; it reads none
\* before an arc has set it, the arcs being in topological order from the initial
\* state.
InitVars(g) ==
  LET empty == [s \in States(g) |-> <<>>]
      start == [EmptyProcessor EXCEPT
                  !.inited = TRUE, !.of = g, !.rest = RestScores(g),
                  !.stateRow = [empty EXCEPT ![INITIAL_STATE] = <<0>>],
                  !.arcRows = [i \in Arcs(g) |-> <<>>],
                  !.wgScore = [s \in States(g) |-> 0],
                  !.bestScores = empty, !.bestPreds = empty]
  IN ForArcs(g, UpdateBestScoresForInitState(start, g),
       LAMBDA p, i : UpdateBestScoresForState([p EXCEPT !.arcRows[i] = InitArcRows(p, g, i)],
                                              g, i, 0))

\* The rows of an arc when the prefix has grown by prefixDiff.
UpdatedArcRows(p, g, i, prefixDiff) ==
  Tail(FoldLeftDomain(LAMBDA rows, w :
         Append(rows, ExtendRow(g.arcs[i].words[w], prefixDiff, Last(rows).scr,
                                p.arcRows[i][w].scr, p.arcRows[i][w].op)),
       <<[scr |-> p.stateRow[g.arcs[i].pred], op |-> <<>>]>>, g.arcs[i].words))

ProcWgGivenPrefDiff(p, g, prefixDiff) ==
  IF prefixDiff = <<>> THEN p
  ELSE ForArcs(g,
         UpdateBestScoresForInitState(
           [p EXCEPT !.stateRow[INITIAL_STATE] = ExtendFirstRow(@, prefixDiff)], g),
         LAMBDA q, i : UpdateBestScoresForState(
                         [q EXCEPT !.arcRows[i] = UpdatedArcRows(q, g, i, prefixDiff)],
                         g, i, Len(prefixDiff)))

-----------------------------------------------------------------------------
(* A new prefix.                                                           *)

\* The words of the prefixes that agree, wherever they are: the loop does not
\* stop at the first that differ.
GetValidProcPrefixVec(p, prefix) ==
  FoldLeftDomain(LAMBDA valid, i :
    IF i <= Len(prefix) /\ p.previousPrefix[i] = prefix[i] THEN Append(valid, prefix[i])
    ELSE valid, <<>>, p.previousPrefix)

\* mutant: the rows stay as long as they are.
UpdateSizeOfVarsNot(p, valid) == p

\* Only as many places are left as there are valid words, and the place of the
\* empty prefix.
UpdateSizeOfVars(p, valid) ==
  LET diffSize == Len(p.previousPrefix) - Len(valid)
      Cut(row) == SubSeq(row, 1, Len(row) - diffSize)
      involved == StatesInvolvedInArcs(p.of)
      CutStates(f) == [s \in DOMAIN f |-> IF s \in involved THEN Cut(f[s]) ELSE f[s]]
  IN [p EXCEPT
        !.arcRows = [i \in DOMAIN @ |-> [w \in DOMAIN @[i] |->
                       [scr |-> Cut(@[i][w].scr), op |-> Cut(@[i][w].op)]]],
        !.stateRow = CutStates(@), !.bestScores = CutStates(@), !.bestPreds = CutStates(@)]

\* The rows for a prefix, from those for the one before.
Processed(p, g, prefix) ==
  LET Extended(ready, valid) ==
        [ProcWgGivenPrefDiff(UpdateSizeOfVars(ready, valid), g,
                             SubSeq(prefix, Len(valid) + 1, Len(prefix)))
           EXCEPT !.previousPrefix = prefix]
      From(ready) == Extended(ready, GetValidProcPrefixVec(ready, prefix))
  IN From(IF p.inited THEN p ELSE InitVars(g))

-----------------------------------------------------------------------------
(* The best correction.  A rejected word is what must not follow what has  *)
(* been accepted of the next word.                                         *)

WordSatisfiesRejWordConstraint(word, rejectedWords) ==
  \A r \in rejectedWords : IsPrefix(r[1], word) /\ SubSeq(word, Len(r[1]) + 1, Len(word)) # r[2]

ExcludedArcs(g, s, rejectedWords) ==
  {i \in ArcIdsToSuccStates(g, s) :
     ~WordSatisfiesRejWordConstraint(g.arcs[i].words[1], rejectedWords)}

\* The best score of what follows a state; SMALL_SCORE if all is rejected.
RestAfter(p, g, s, rejectedWords) ==
  IF rejectedWords = {} THEN p.rest[s]
  ELSE FoldSet(LAMBDA i, best :
         LET x == g.arcs[i].score + p.rest[g.arcs[i].succ] IN IF best < x THEN x ELSE best,
         SMALL_SCORE, ArcIdsToSuccStates(g, s) \ ExcludedArcs(g, s, rejectedWords))

\* A place where the prefix may end: a state (word 0), or a word of an arc that
\* is not its last.
HypStates(p, g, rejectedWords) ==
  {[score |-> Last(p.bestScores[s]) + WgWeight * RestAfter(p, g, s, rejectedWords),
    at |-> s, word |-> 0] :
     s \in {t \in StatesInvolvedInArcs(g) : rejectedWords # {} =>
                                         RestAfter(p, g, t, rejectedWords) # SMALL_SCORE}}

HypSubStates(p, g, rejectedWords) ==
  UNION {{[score |-> WgWeight * p.wgScore[g.arcs[i].pred]
                       + EcmWeight * (-Last(p.arcRows[i][w].scr)) + WgWeight * p.rest[g.arcs[i].pred],
           at |-> i, word |-> w] :
             w \in {v \in 1 .. Len(g.arcs[i].words) - 1 :
                      WordSatisfiesRejWordConstraint(g.arcs[i].words[v + 1], rejectedWords)}} :
           i \in NonPruned(g)}

\* Of places with one score the first is taken.
BestOf(places) ==
  CHOOSE h \in places : \A o \in places :
    \/ o.score < h.score
    \/ o.score = h.score /\ (h.at < o.at \/ (h.at = o.at /\ h.word <= o.word))

\* Where position pos of the prefix was before the word with these operations.
LastInsPrefWord(ops, pos) ==
  LET stop == CHOOSE j \in 0 .. pos : /\ ops[j + 1] # "INS"
                                      /\ \A k \in j + 1 .. pos : ops[k + 1] = "INS"
  IN CASE ops[pos + 1] \in {"HIT", "SUBST"} -> pos - 1
       [] ops[pos + 1] = "DEL"  -> pos
       [] ops[pos + 1] = "NONE" -> 0
       [] ops[pos + 1] = "INS"  -> IF ops[stop + 1] \in {"HIT", "SUBST"} THEN stop - 1 ELSE stop

\* Where position pos was before the first n words of an arc.
PositionBefore(p, i, n, pos) ==
  FoldLeftDomain(LAMBDA q, k : LastInsPrefWord(p.arcRows[i][n + 1 - k].op, q), pos,
                 [k \in 1 .. n |-> k])

\* The words of the path that the best predecessors make, from INITIAL_STATE to
\* the state; no path has more arcs than the graph.
BestUncorrPref(p, g, state, position) ==
  LET Back[n \in 0 .. Len(g.arcs), s \in States(g), pos \in 0 .. Len(p.previousPrefix)] ==
        IF s = INITIAL_STATE THEN <<>>
        ELSE LET i == p.bestPreds[s][pos + 1]
                 words == g.arcs[i].words
             IN Back[n - 1, g.arcs[i].pred, PositionBefore(p, i, Len(words), pos)] \o words
  IN Back[Len(g.arcs), state, position]

WordsOf(g, path) == FlattenSeq([k \in DOMAIN path |-> g.arcs[path[k]].words])

\* The words of the path from INITIAL_STATE to a place.
UncorrPref(p, g, h) ==
  IF h.word = 0 THEN BestUncorrPref(p, g, h.at, Len(p.previousPrefix))
  ELSE BestUncorrPref(p, g, g.arcs[h.at].pred,
                      PositionBefore(p, h.at, h.word, Len(p.previousPrefix)))
         \o SubSeq(g.arcs[h.at].words, 1, h.word)

\* What follows a place.
SuffixFrom(g, h, rejectedWords) ==
  IF h.word = 0
    THEN WordsOf(g, BestPathFromFinalStateToIdx(g, h.at, ExcludedArcs(g, h.at, rejectedWords)).path)
  ELSE SubSeq(g.arcs[h.at].words, h.word + 1, Len(g.arcs[h.at].words))
         \o WordsOf(g, BestPathFromFinalStateToIdx(g, g.arcs[h.at].succ, {}).path)

CorrectionFor(p, g, h, rejectedWords) ==
  LET Combined(uncorr) == IF uncorr = <<>> THEN WithoutLastBlank(p.previousPrefix)
                          ELSE CorrectStrGivenPref(uncorr, p.previousPrefix)
  IN WithoutLastBlank(Combined(UncorrPref(p, g, h)) \o SuffixFrom(g, h, rejectedWords))

\* The words of the best correction for the prefix that has been processed;
\* none if all is rejected.  A word within an arc must be better than a state.
BestCorrection(p, g, rejectedWords) ==
  LET Best(states, subs) ==
        IF subs = {} \/ (states # {} /\ BestOf(states).score >= BestOf(subs).score)
          THEN BestOf(states) ELSE BestOf(subs)
      Made(states, subs) == IF states = {} /\ subs = {} THEN <<>>
                            ELSE CorrectionFor(p, g, Best(states, subs), rejectedWords)
  IN Made(HypStates(p, g, rejectedWords), HypSubStates(p, g, rejectedWords))
=============================================================================
