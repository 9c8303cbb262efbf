---------------------------- MODULE StackDecoder ----------------------------
(***************************************************************************)
(* The search of a stack decoder with recombination: translate and its     *)
(* variants, getNextTrans, and the word graph they leave                   *)
(* (src/src/stack_dec/_stackDecoder.h, _stackDecoderRec.h).  The container *)
(* of hypotheses is SmtMultiStackRec, whose actions the steps use.         *)
(*                                                                         *)
(* The translation model is data: a request carries the lattice of its     *)
(* partial hypotheses and their heuristics.  A hypothesis of the decoder   *)
(* is [cls, state, score] like one of the container, without the heuristic *)
(* that push adds and pop takes away.  Class 2k+j holds the hypotheses     *)
(* that cover k words, with (j = 1) or without jumps.  The expansions of a *)
(* hypothesis are pushed in any order.                                     *)
(***************************************************************************)
EXTENDS Integers, FiniteSets, Sequences

CONSTANTS
  Requests,     \* [mode, words, root, arcs, heur]: see DecoderConstants
  Cov,          \* the number of words that a state covers
  Hyps, Ids,    \* of the container
  StackSizes,   \* values of the parameters S and I
  Expansions,
  G_EPSILON, FLT_MAX, MAX_SENTENCE_LENGTH_ALLOWED, MAX_NUM_OF_ITER

\* An arc covers words of the sentence that were not covered, and the
\* container has the classes of what it leads to.
ASSUME DecoderConstants ==
  /\ \A r \in Requests :
       /\ r.mode \in {"TRANS", "TRANSREF", "VER", "TRANSPREFIX"}
       /\ r.words \in Nat /\ IsFiniteSet(r.arcs) /\ Cov[r.root] = 0 /\ r.heur[r.root] \in Int
       /\ 0 \in {h.cls : h \in Hyps}
       /\ \A a \in r.arcs :
            /\ Cov[a.from] \in Nat /\ Cov[a.to] \in Cov[a.from] + 1 .. r.words
            /\ a.jump \in 0..1 /\ a.score \in Int /\ r.heur[a.to] \in Int
            /\ 2 * Cov[a.to] .. 2 * Cov[a.to] + 1 \subseteq {h.cls : h \in Hyps}
  /\ Expansions \subseteq Nat /\ StackSizes \subseteq Nat /\ IsFiniteSet(Ids)
  /\ G_EPSILON \in Int /\ G_EPSILON <= 0 /\ FLT_MAX \in Nat
  /\ MAX_NUM_OF_ITER \in Nat /\ MAX_NUM_OF_ITER > 1

VARIABLES
  breadthFirst, I, applyBestScorePruning, wordGraphEnabled,  \* parameters
  settled,            \* no parameter was set since the last clear
  state, request,     \* what is translated
  call, phase,        \* the call that runs or ran last, and its place
  hypsToExpand, pred, expandedHyps, result, end, iterNo,     \* locals of decode
  bestCompleteHyp,    \* with its score; {} is worstScoreAllowed
  wordGraph,          \* [arcs, finals, initialStateScore]
  maxStackSize, bf, multiContainer, sortedStacksMap, recInfoMap, hypStateDict, ready

Stack == INSTANCE SmtMultiStackRec WITH breadthFirst <- bf

stack == <<maxStackSize, bf, multiContainer, sortedStacksMap, recInfoMap, hypStateDict, ready>>
parameters == <<breadthFirst, I, applyBestScorePruning, wordGraphEnabled, settled>>
task == <<state, request, call>>
locals == <<hypsToExpand, pred, expandedHyps, result, end, iterNo>>
vars == <<parameters, task, phase, locals, bestCompleteHyp, wordGraph, stack>>

NullHyp(r) == [cls |-> 0, state |-> r.root, score |-> 0]
EmptyGraph == [arcs |-> {}, finals |-> {}, initialStateScore |-> 0]

Init ==
  /\ breadthFirst = FALSE /\ I = 1 /\ applyBestScorePruning = FALSE
  /\ wordGraphEnabled = FALSE /\ settled = TRUE
  /\ state = "IDLE" /\ request \in Requests /\ call = "none" /\ phase = "idle"
  /\ hypsToExpand = <<>> /\ pred = NullHyp(request) /\ expandedHyps = {}
  /\ result = NullHyp(request) /\ end = TRUE /\ iterNo = 1
  /\ bestCompleteHyp = {} /\ wordGraph = EmptyGraph
  /\ Stack!Init

-----------------------------------------------------------------------------
(* Hypotheses.                                                             *)

Complete(h) == Cov[h.state] = request.words

Successors(h) ==
  {[cls   |-> 2 * Cov[a.to] + (IF a.jump = 1 THEN 1 ELSE h.cls % 2),
    state |-> a.to,
    score |-> h.score + a.score] : a \in {b \in request.arcs : b.from = h.state}}

WithHeuristic(h) == [h EXCEPT !.score = @ + request.heur[h.state]]

\* g makes every hypothesis worse than those that cover less.
G(h) == IF breadthFirst THEN Cov[h.state] * G_EPSILON ELSE 0

\* What push stores for h.
Stored(h) == [h EXCEPT !.score = WithHeuristic(h).score + G(h)]

\* mutant: the heuristic stays in the score.
RestoredWithHeuristic(k) == [k EXCEPT !.score = @ - G(k)]

\* What pop makes of it.
Restored(k) == [k EXCEPT !.score = @ - G(k) - request.heur[k.state]]

\* mutant: the best hypothesis, however far.
Better(h) == state = "TRANS" /\ (result = NullHyp(request) \/ result.score < h.score)

\* decode keeps the hypothesis furthest from the null hypothesis, and of
\* those the best; the other searches keep complete hypotheses only.
Further(h) ==
  /\ state = "TRANS"
  /\ \/ Cov[result.state] < Cov[h.state]
     \/ Cov[result.state] = Cov[h.state] /\ result.score < h.score

-----------------------------------------------------------------------------
(* push and pop of the decoder.                                            *)

\* mutant: with best-score pruning, nothing is pushed after a complete
\* hypothesis.
PrunedByAny(h) == applyBestScorePruning /\ bestCompleteHyp # {}

PrunedByScore(h) ==
  applyBestScorePruning /\ \E b \in bestCompleteHyp : Stored(h).score < b.score

Inserted == Stack!Live' \ Stack!Live # {}

PushHyp(h) ==
  \/ /\ h.score < -FLT_MAX \/ PrunedByScore(h)
     /\ UNCHANGED <<stack, bestCompleteHyp>>
  \/ /\ h.score >= -FLT_MAX /\ ~PrunedByScore(h)
     /\ Stack!Push(Stored(h))
     /\ bestCompleteHyp' = IF Inserted /\ Complete(h) THEN {Stored(h)} ELSE bestCompleteHyp

\* mutant: the first sub-stack, also when its hypotheses are complete.
PopsFirstStackAlways == IF breadthFirst THEN TRUE ELSE bf

\* Pop takes from the first sub-stack when the search is breadth-first, except
\* that it takes the best complete hypothesis, and when the container was
\* left so by an earlier breadth-first search.
PopsFirstStack ==
  IF breadthFirst
  THEN \E c \in sortedStacksMap :
         /\ \A d \in sortedStacksMap : c <= d
         /\ \E n \in Stack!Tops(multiContainer[c]) : ~Complete(n.hyp)
  ELSE bf

PopHyp ==
  /\ bf' = (bf \/ breadthFirst)
  /\ \E c \in sortedStacksMap : \E n \in Stack!PopsFrom(multiContainer[c]) :
       /\ Stack!PopNode(PopsFirstStack, c, n)
       /\ hypsToExpand' = Append(hypsToExpand, Restored(n.hyp))

-----------------------------------------------------------------------------
(* The word graph.                                                         *)

\* mutant: the heuristic is added to the successor only.
ArcOfScores(p, h) ==
  [from |-> p.state, to |-> h.state, score |-> WithHeuristic(h).score - p.score]

Arc(p, h) ==
  [from |-> p.state, to |-> h.state,
   score |-> WithHeuristic(h).score - WithHeuristic(p).score]

\* addArcToWordGraph, after h was pushed: the states must be in the
\* dictionary.  The first state put there is the initial one.
AddArc(p, h) ==
  wordGraph' =
    IF wordGraphEnabled /\ {p.state, h.state} \subseteq DOMAIN hypStateDict'
    THEN [arcs   |-> wordGraph.arcs \cup {Arc(p, h)},
          finals |-> wordGraph.finals \cup (IF Complete(h) THEN {h.state} ELSE {}),
          initialStateScore |-> IF p.state = request.root THEN WithHeuristic(p).score
                                ELSE wordGraph.initialStateScore]
    ELSE wordGraph

\* After translate the state of an incomplete result is final; index 0
\* stands for a state that the dictionary does not have.
PostTransActions ==
  wordGraph' =
    IF call = "translate" /\ state = "TRANS" /\ ~Complete(result)
    THEN [wordGraph EXCEPT !.finals = @ \cup
            {IF result.state \in DOMAIN hypStateDict THEN result.state ELSE request.root}]
    ELSE wordGraph

-----------------------------------------------------------------------------
(* The calls.                                                              *)

SetParameter ==
  /\ phase = "idle" /\ settled' = FALSE
  /\ UNCHANGED <<task, phase, locals, bestCompleteHyp, wordGraph>>

SetS(n) ==
  /\ SetParameter /\ Stack!SetMaxStackSize(n)
  /\ UNCHANGED <<breadthFirst, I, applyBestScorePruning, wordGraphEnabled>>

SetI(n) ==
  /\ SetParameter /\ I' = n
  /\ UNCHANGED <<breadthFirst, applyBestScorePruning, wordGraphEnabled, stack>>

SetBreadthFirst(b) ==
  /\ SetParameter /\ breadthFirst' = b
  /\ UNCHANGED <<I, applyBestScorePruning, wordGraphEnabled, stack>>

UseBestScorePruning(b) ==
  /\ SetParameter /\ applyBestScorePruning' = b
  /\ UNCHANGED <<breadthFirst, I, wordGraphEnabled, stack>>

EnableWordGraph(b) ==
  /\ SetParameter /\ wordGraphEnabled' = b
  /\ UNCHANGED <<breadthFirst, I, applyBestScorePruning, stack>>

Clear ==
  /\ phase = "idle" /\ settled' = TRUE /\ call' = "none"
  /\ Stack!Clear /\ wordGraph' = EmptyGraph
  /\ UNCHANGED <<breadthFirst, I, applyBestScorePruning, wordGraphEnabled, state, request,
                 phase, locals, bestCompleteHyp>>

\* The locals of a search that begins.
StartDecode(r) ==
  /\ hypsToExpand' = <<>> /\ pred' = NullHyp(r) /\ expandedHyps' = {}
  /\ result' = NullHyp(r) /\ end' = FALSE /\ iterNo' = 1

\* translate, translateWithRef, verifyCoverageForRef or translateWithPrefix
\* up to the insertion of the null hypothesis; an empty or long sentence
\* ends it.
Translate(r) ==
  /\ phase = "idle"
  /\ Stack!Clear /\ wordGraph' = EmptyGraph /\ settled' = TRUE
  /\ request' = r /\ call' = "translate"
  /\ IF r.words \in 1 .. MAX_SENTENCE_LENGTH_ALLOWED - 1
     THEN state' = r.mode /\ phase' = "suggest" /\ bestCompleteHyp' = {}
     ELSE state' = "IDLE" /\ phase' = "idle" /\ UNCHANGED bestCompleteHyp
  /\ StartDecode(r)
  /\ UNCHANGED <<breadthFirst, I, applyBestScorePruning, wordGraphEnabled>>

\* The search of the last call goes on.  No program of the repository makes
\* this call; it is modelled for callers that set no parameter in between.
GetNextTrans ==
  /\ phase = "idle" /\ settled /\ state # "IDLE"
  /\ call' = "getNextTrans" /\ phase' = "select"
  /\ bestCompleteHyp' = {}
  /\ StartDecode(request)
  /\ UNCHANGED <<parameters, state, request, wordGraph, stack>>

-----------------------------------------------------------------------------
(* The steps of a search.                                                  *)

SuggestNullHyp ==
  /\ phase = "suggest" /\ phase' = "select"
  /\ PushHyp(NullHyp(request))
  /\ UNCHANGED <<parameters, task, locals, wordGraph>>

\* mutant: one hypothesis more than the parameter says.
MoreToSelectThanI == sortedStacksMap # {} /\ Len(hypsToExpand) <= I

MoreToSelect == sortedStacksMap # {} /\ Len(hypsToExpand) < I

Select ==
  /\ phase = "select" /\ MoreToSelect
  /\ PopHyp
  /\ UNCHANGED <<parameters, task, phase, pred, expandedHyps, result, end, iterNo,
                 bestCompleteHyp, wordGraph>>

\* mutant: a search whose stacks are empty goes on.
NothingToExpandIgnored == FALSE

NothingToExpand == hypsToExpand = <<>>

BeginIteration ==
  /\ phase = "select" /\ ~MoreToSelect
  /\ phase' = "expand"
  /\ end' = NothingToExpand
  /\ UNCHANGED <<parameters, task, hypsToExpand, pred, expandedHyps, result, iterNo,
                 bestCompleteHyp, wordGraph, stack>>

\* The next of hypsToExpand is dealt with when the last one is expanded.
Current == Head(hypsToExpand)

NextHyp ==
  /\ phase = "expand" /\ expandedHyps = {} /\ hypsToExpand # <<>>
  /\ hypsToExpand' = Tail(hypsToExpand)
  /\ UNCHANGED <<parameters, task, phase, iterNo, wordGraph>>

\* The first complete hypothesis is the result.
TakeComplete ==
  /\ NextHyp /\ Complete(Current) /\ ~end
  /\ result' = Current /\ end' = TRUE
  /\ UNCHANGED <<pred, expandedHyps, bestCompleteHyp, stack>>

\* The others go back, for getNextTrans.
ReturnComplete ==
  /\ NextHyp /\ Complete(Current) /\ end
  /\ PushHyp(Current)
  /\ UNCHANGED <<pred, expandedHyps, result, end>>

Expand ==
  /\ NextHyp /\ ~Complete(Current)
  /\ pred' = Current /\ expandedHyps' = Successors(Current)
  /\ result' = IF Further(Current) THEN Current ELSE result
  /\ UNCHANGED <<end, bestCompleteHyp, stack>>

\* pushGivenPredHyp
PushExpanded(h) ==
  /\ phase = "expand"
  /\ PushHyp(h) /\ AddArc(pred, h)
  /\ expandedHyps' = expandedHyps \ {h}
  /\ UNCHANGED <<parameters, task, phase, hypsToExpand, pred, result, end, iterNo>>

EndIteration ==
  /\ phase = "expand" /\ expandedHyps = {} /\ hypsToExpand = <<>>
  /\ iterNo' = iterNo + 1
  /\ IF end \/ iterNo' >= MAX_NUM_OF_ITER
     THEN phase' = "idle" /\ PostTransActions
     ELSE phase' = "select" /\ UNCHANGED wordGraph
  /\ UNCHANGED <<parameters, task, hypsToExpand, pred, expandedHyps, result, end,
                 bestCompleteHyp, stack>>

Step ==
  \/ SuggestNullHyp \/ Select \/ BeginIteration
  \/ TakeComplete \/ ReturnComplete \/ Expand
  \/ \E h \in expandedHyps : PushExpanded(h)
  \/ EndIteration

Next ==
  \/ \E r \in Requests : Translate(r)
  \/ GetNextTrans \/ Clear
  \/ \E n \in StackSizes : SetS(n)
  \/ \E n \in Expansions : SetI(n)
  \/ \E b \in BOOLEAN : SetBreadthFirst(b) \/ UseBestScorePruning(b) \/ EnableWordGraph(b)
  \/ Step

Spec == Init /\ [][Next]_vars

-----------------------------------------------------------------------------
(* The lattice of a request, and what a search of it must find.            *)

\* Every partial hypothesis of r, as the arcs that lead to it and its score.
\* What has probability zero is left out, with all that extends it.
Derivations(r) ==
  LET longer(D) ==
        {[arcs |-> Append(x[1].arcs, x[2]), score |-> x[1].score + x[2].score] :
           x \in {y \in D \X r.arcs : /\ y[1].score + y[2].score >= -FLT_MAX
                                      /\ y[2].from = IF y[1].arcs = <<>> THEN r.root
                                           ELSE y[1].arcs[Len(y[1].arcs)].to}}
      upTo[k \in 0..r.words] ==
        IF k = 0 THEN {[arcs |-> <<>>, score |-> 0]}
        ELSE upTo[k - 1] \cup longer(upTo[k - 1])
  IN upTo[r.words]

EndOf(d, r) == IF d.arcs = <<>> THEN r.root ELSE d.arcs[Len(d.arcs)].to

\* For every request, computed once.
Lattice == [r \in Requests |-> Derivations(r)]
Translations == [r \in Requests |-> {d \in Lattice[r] : Cov[EndOf(d, r)] = r.words}]

\* Whatever hypothesis is extended, the heuristic is not below the score of
\* the rest of a translation; nothing is expected of a translation.
Admissible ==
  {r \in Requests : \A d \in Translations[r] :
     /\ r.heur[EndOf(d, r)] = 0
     /\ \A k \in 0..Len(d.arcs) :
          LET part == CHOOSE e \in Lattice[r] : e.arcs = SubSeq(d.arcs, 1, k)
          IN d.score <= part.score + r.heur[EndOf(part, r)]}

\* Every partial hypothesis of r can be extended to a translation.
NoDeadEnds ==
  {r \in Requests : \A d \in Lattice[r] : \E t \in Translations[r] :
     Len(d.arcs) <= Len(t.arcs) /\ SubSeq(t.arcs, 1, Len(d.arcs)) = d.arcs}

\* The paths of the word graph, as their last states and scores.
GraphPaths ==
  LET arcs == wordGraph.arcs
      upTo[k \in 0..request.words] ==
        IF k = 0 THEN {[state |-> request.root, score |-> wordGraph.initialStateScore]}
        ELSE upTo[k - 1] \cup
               {[state |-> x[2].to, score |-> x[1].score + x[2].score] :
                  x \in {y \in upTo[k - 1] \X arcs : y[2].from = y[1].state}}
  IN upTo[request.words]

-----------------------------------------------------------------------------
(* Properties.                                                             *)

HypTypeOK(h) == DOMAIN h = {"cls", "state", "score"} /\ h.cls \in Nat /\ h.score \in Int

\* Types; the hypotheses selected for an iteration are never more than I.
TypeOK ==
  /\ {breadthFirst, applyBestScorePruning, wordGraphEnabled, settled, end, bf} \subseteq BOOLEAN
  /\ I \in Expansions \cup {1} /\ iterNo \in 1..MAX_NUM_OF_ITER
  /\ state \in {"IDLE", "TRANS", "TRANSREF", "VER", "TRANSPREFIX"}
  /\ request \in Requests /\ call \in {"none", "translate", "getNextTrans"}
  /\ phase \in {"idle", "suggest", "select", "expand"}
  /\ Len(hypsToExpand) <= I
  /\ \A i \in DOMAIN hypsToExpand : HypTypeOK(hypsToExpand[i])
  /\ \A h \in expandedHyps \cup {pred, result} \cup bestCompleteHyp : HypTypeOK(h)
  /\ Cardinality(bestCompleteHyp) <= 1

\* A translation has just been returned.
Translated == phase = "idle" /\ settled /\ call = "translate" /\ state # "IDLE"

\* With stacks that hold everything and one hypothesis expanded at a time, the
\* result is the best translation of the lattice when the heuristic is
\* admissible: recombination, best-score pruning and the order of the search
\* lose nothing.  This holds of both orders, provided that no earlier search
\* left the container in the other one.
ResultIsOptimal ==
  /\ Translated /\ I = 1 /\ maxStackSize > Cardinality(Ids) /\ (bf => breadthFirst)
  /\ request \in Admissible /\ Translations[request] # {}
  => /\ Complete(result)
     /\ \A t \in Translations[request] : t.score <= result.score

\* However small the stacks are and however many hypotheses are expanded at a
\* time, pruning does not lose all translations of a lattice without dead
\* ends, and what is found stays the result.
BeamFindsTranslation ==
  Translated /\ I > 0 /\ maxStackSize > 0 /\ request \in NoDeadEnds => Complete(result)

\* The word graph holds every hypothesis of the search, with its score, so
\* that whoever searches the graph finds what the decoder has found; and the
\* state of the result is one of its final states.
GraphHoldsSearch ==
  settled /\ wordGraphEnabled =>
    /\ \A n \in {m \in Stack!Live : m.hyp.state # request.root} :
         [state |-> n.hyp.state, score |-> n.hyp.score - G(n.hyp)] \in GraphPaths
    /\ Translated /\ Complete(result) =>
         /\ result.state \in wordGraph.finals
         /\ [state |-> result.state, score |-> WithHeuristic(result).score] \in GraphPaths
    /\ Translated /\ state = "TRANS" /\ ~Complete(result) => wordGraph.finals # {}

\* A search ends because of its result or its empty stacks and never because
\* of MAX_NUM_OF_ITER: no hypothesis is expanded twice, so the iterations are
\* not more than the hypotheses of the lattice and one that finds nothing.
IterationsBounded == iterNo <= Cardinality(Lattice[request]) + 2
=============================================================================
