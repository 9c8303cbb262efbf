----------------------------- MODULE CatSession -----------------------------
(***************************************************************************)
(* Assisted translation for one user: ThotDecoder's startCat,              *)
(* addStrToPref, setPref and resetPrefix over WgUncoupledAssistedTrans,    *)
(* with the other calls that use the same stack decoder,                   *)
(* translateSentence, sentPairVerCov and onlineTrainSentPair.  The user's  *)
(* mutex, or running alone, makes each call one step (module ThotDecoder). *)
(*                                                                         *)
(* The word-graph processor is linked to a word graph by its address: the  *)
(* one loaded from a file (own), or the one of the stack decoder (dec),    *)
(* which each translation makes anew.  The translator and the word         *)
(* predictor are data, and there is no pre/post-processing.                *)
(***************************************************************************)
EXTENDS WgProcessor

CONSTANTS
  TranslatorOutputs,   \* of each sentence, the [graph, complete] it may yield
  WgFiles,             \* of the sentences of the word-graph handler, the graph
  CoverageGraphs,      \* of each sentence, the graphs that verifying a reference may leave
  LogWgps,             \* logarithms of the pruning thresholds that wgp may be set to
  DISABLE_WORDGRAPH,   \* a wgp that leaves the decoder's graph off, and prunes every arc
  UserStrings, RejectedSets,
  PredictedSuffixes,   \* what the word predictor may add to a word
  MaxPrefix,           \* length of a prefix
  MaxCalls             \* of addStrToPref and setPref in a session

ASSUME CatConstants ==
  /\ SMALL_SCORE \in Int /\ UNLIMITED_DENSITY \in Int /\ LogWgps \subseteq Int
  /\ DISABLE_WORDGRAPH > 0 /\ DISABLE_WORDGRAPH # UNLIMITED_DENSITY
  /\ DOMAIN CoverageGraphs = DOMAIN TranslatorOutputs
  /\ {HitCost, InsCost, SubstCost, DelCost, WgWeight, EcmWeight, MaxPrefix, MaxCalls}
       \subseteq Nat
  /\ <<>> \in PredictedSuffixes

VARIABLES
  totalPrefix,    \* totalPrefixVec[idx]
  linked,         \* whose word graph the processor uses: "none", "own", "dec"
  graph,          \* that graph; the other is made anew before it is linked
  wordGraphOn,    \* the stack decoder builds its graph
  proc,           \* the word-graph processor
  trans,          \* words of the engine's last translation
  result,         \* catResult
  replaced,       \* the decoder has made another graph since it was linked
  calls           \* corrections asked for in this session

vars == <<totalPrefix, linked, graph, wordGraphOn, proc, trans, result, replaced, calls>>

\* Rows that were made for another graph are used outside their bounds.
Undefined == "undefined"

Sentences == DOMAIN TranslatorOutputs

-----------------------------------------------------------------------------
(* Strings (src/src/nlp_common/StrProcUtils.cc).                           *)

StringToStringVector(s) ==
  SelectSeq(FoldLeft(LAMBDA words, c : IF c = Blank THEN Append(words, <<>>)
                                       ELSE [words EXCEPT ![Len(words)] = Append(@, c)],
                     << <<>> >>, s),
            LAMBDA w : w # <<>>)

\* The words joined by single blanks.
VectorToString(words) ==
  FoldLeftDomain(LAMBDA s, k : (IF k = 1 THEN s ELSE Append(s, Blank)) \o words[k], <<>>, words)

IsPrefixStrVec(v1, v2) ==
  /\ Len(v1) <= Len(v2)
  /\ \A i \in DOMAIN v1 : v1[i] = v2[i] \/ (i = Len(v1) /\ IsPrefix(v1[i], v2[i]))

\* The words of a prefix; a blank after the last says that it is complete.  Of
\* an empty prefix, which has no words, the code looks at a last letter in vain.
PrefixVec(s) ==
  LET v == StringToStringVector(s)
  IN IF v # <<>> /\ LastCharIsBlank(s) THEN Front(v) \o <<Append(Last(v), Blank)>> ELSE v

\* What expandLastWord makes of a prefix when the predictor offers a suffix.
ExpandLastWord(s, suffix) ==
  LET v == StringToStringVector(s)
  IN IF s = <<>> \/ LastCharIsBlank(s) \/ suffix = <<>> \/ Len(Last(v)) <= 1 THEN s
     ELSE s \o suffix \o <<Blank>>

\* The translation with the blanks of the prefix, whatever their number.
RobustMergeTransWithUserPref(t, prefix) ==
  LET BlanksAt(i) == CHOOSE n \in 0 .. Len(prefix) :
                       /\ \A k \in i .. i + n - 1 : prefix[k] = Blank
                       /\ i + n > Len(prefix) \/ prefix[i + n] # Blank
      Merged == FoldLeft(LAMBDA acc, c :
                  IF acc.i > Len(prefix) THEN [acc EXCEPT !.out = Append(@, c)]
                  ELSE LET n == BlanksAt(acc.i)
                           out == acc.out \o [k \in 1 .. n |-> Blank]
                       IN IF c = Blank THEN [out |-> out, i |-> acc.i + n]
                          ELSE [out |-> Append(out, c), i |-> acc.i + n + 1],
                  [out |-> <<>>, i |-> 1], t)
  IN IF IsPrefixStrVec(StringToStringVector(prefix), StringToStringVector(t))
       THEN Merged.out \o SubSeq(prefix, Merged.i, Len(prefix))
     ELSE prefix

-----------------------------------------------------------------------------
(* The processor at work.                                                  *)

Stale(p, g) == p.inited /\ p.of # g

\* correct: [proc, words].  An empty graph has no corrections.
Correct(p, g, prefix, rejectedWords) ==
  IF g.arcs = <<>> THEN [proc |-> p, words |-> <<>>]
  ELSE IF Stale(p, g) THEN [proc |-> p, words |-> Undefined]
  ELSE LET Made(q) == [proc |-> q, words |-> BestCorrection(q, g, rejectedWords)]
       IN Made(Processed(p, g, prefix))

Init ==
  /\ totalPrefix = <<>> /\ linked = "none" /\ graph = EmptyWordGraph /\ wordGraphOn = FALSE
  /\ proc = EmptyProcessor /\ trans = <<>> /\ result = <<>> /\ replaced = FALSE /\ calls = 0

\* translateWithPrefix with the empty prefix: the graph is reduced and linked,
\* and corrected if it is known to hold a translation.
TranslateWithPrefix(g, completeHypReachable, wgp) ==
  \E reduced \in {WgComposedOfUsefulStates(Prune(g, wgp))} :
  \E made \in {IF completeHypReachable THEN Correct(LinkWg(proc), reduced, <<>>, {})
               ELSE [proc |-> LinkWg(proc), words |-> <<>>]} :
     /\ graph' = reduced
     /\ proc' = made.proc /\ trans' = made.words
     /\ result' = IF made.words = Undefined THEN Undefined ELSE VectorToString(made.words)

\* The graph the decoder is left with.
Kept(g, enabled) == IF enabled THEN g ELSE EmptyWordGraph

\* wgp may have been set anew since the last session (set_wgp).
StartCat(s, wgp) ==
  /\ \/ /\ s \in DOMAIN WgFiles
        /\ linked' = "own" /\ UNCHANGED wordGraphOn
        /\ TranslateWithPrefix(WgFiles[s],
             BestPathFromFinalStateToIdx(WgFiles[s], INITIAL_STATE, {}).score # SMALL_SCORE, wgp)
     \/ /\ s \notin DOMAIN WgFiles
        /\ linked' = "dec" /\ wordGraphOn' = (wordGraphOn \/ wgp # DISABLE_WORDGRAPH)
        /\ \E t \in TranslatorOutputs[s] :
             TranslateWithPrefix(Kept(t.graph, wordGraphOn'), t.complete, wgp)
  /\ totalPrefix' = <<>> /\ replaced' = FALSE /\ calls' = 0

\* addStrToPrefAux, when the prefix has become s.
CorrectGivenPrefix(s, rejectedWords) ==
  /\ calls < MaxCalls /\ Len(s) <= MaxPrefix
  /\ totalPrefix' = s /\ calls' = calls + 1
  /\ \E suffix \in PredictedSuffixes :
     \E expPref \in {ExpandLastWord(s, suffix)} :
     \E made \in {Correct(proc, graph, PrefixVec(expPref), rejectedWords)} :
          /\ proc' = made.proc /\ trans' = made.words
          /\ result' = IF made.words = Undefined THEN Undefined
                       ELSE RobustMergeTransWithUserPref(VectorToString(made.words), expPref)
  /\ UNCHANGED <<linked, graph, wordGraphOn, replaced>>

AddStrToPref(str, rejectedWords) == CorrectGivenPrefix(totalPrefix \o str, rejectedWords)

\* What is new is added to the old prefix, or to none if the old one does not
\* begin the new: the prefix is str in either case.
SetPref(str, rejectedWords) == CorrectGivenPrefix(str, rejectedWords)

ResetPrefix ==
  /\ totalPrefix # <<>> /\ totalPrefix' = <<>>
  /\ UNCHANGED <<linked, graph, wordGraphOn, proc, trans, result, replaced, calls>>

\* The decoder's graph while the processor uses it: a translation clears it, and
\* builds it if that is enabled.  A sentence whose graph is in a file is
\* translated without the decoder.
TranslateSentence(s) ==
  /\ linked = "dec" /\ s \notin DOMAIN WgFiles
  /\ \E t \in TranslatorOutputs[s] : graph' = Kept(t.graph, wordGraphOn)
  /\ replaced' = TRUE
  /\ UNCHANGED <<totalPrefix, linked, wordGraphOn, proc, trans, result, calls>>

\* So does the verification of a reference, whatever the sentence.
SentPairVerCov(s) ==
  /\ linked = "dec"
  /\ \E g \in CoverageGraphs[s] : graph' = Kept(g, wordGraphOn)
  /\ replaced' = TRUE
  /\ UNCHANGED <<totalPrefix, linked, wordGraphOn, proc, trans, result, calls>>

\* Training enables the graph, which stays so unless THOT_ENABLE_UPDATE_LLWEIGHTS.
OnlineTrainSentPair(s) ==
  /\ wordGraphOn' \in BOOLEAN
  /\ \/ /\ linked = "dec" /\ replaced' = TRUE
        /\ \E t \in TranslatorOutputs[s] : graph' = t.graph
     \/ linked # "dec" /\ UNCHANGED <<graph, replaced>>
  /\ UNCHANGED <<totalPrefix, linked, proc, trans, result, calls>>

Next ==
  \/ \E s \in Sentences :
       \/ \E wgp \in LogWgps : StartCat(s, wgp)
       \/ TranslateSentence(s) \/ SentPairVerCov(s) \/ OnlineTrainSentPair(s)
  \/ \E str \in UserStrings, r \in RejectedSets : AddStrToPref(str, r) \/ SetPref(str, r)
  \/ ResetPrefix

Spec == Init /\ [][Next]_vars

-----------------------------------------------------------------------------
(* Properties.                                                             *)

\* The rows of a processor have a place for each length of the prefix that was
\* processed, and what is kept in a place leads back to the initial state: the
\* best predecessor enters the state, and no position before a word lies
\* outside the prefix (WgProcessorForAnlp.h:940).
RowsFit(p) ==
  LET places == 1 .. Len(p.previousPrefix) + 1 IN
  /\ \A s \in StatesInvolvedInArcs(p.of) :
       /\ DOMAIN p.bestScores[s] = places /\ DOMAIN p.stateRow[s] = places
       /\ DOMAIN p.bestPreds[s] = places
       /\ s # INITIAL_STATE =>
            \A j \in places : p.bestPreds[s][j] \in ArcIdsToPredStates(p.of, s)
  /\ \A i \in NonPruned(p.of) : \A w \in DOMAIN p.of.arcs[i].words :
       LET row == p.arcRows[i][w] IN
       /\ DOMAIN row.scr = places /\ DOMAIN row.op = places
       /\ \A j \in places : LastInsPrefWord(row.op, j - 1) \in 0 .. j - 1

\* The rows fit the graph they were made for, and that graph is the linked one
\* as long as no call of the same user (TranslateSentence, SentPairVerCov or
\* OnlineTrainSentPair) has made the decoder build another
\* (WgProcessorForAnlp.h: initVarsExecuted, "true if wg processor variables
\* has been initialized for current word-graph"; ThotDecoder.cc:2444).
CachesFitGraph ==
  proc.inited => RowsFit(proc) /\ (Stale(proc, graph) => replaced)

\* What the rows say, hit and substitution being alike to all that read them.
Told(p) ==
  [p EXCEPT !.arcRows = [i \in DOMAIN @ |-> [w \in DOMAIN @[i] |->
     [scr |-> @[i][w].scr,
      op |-> [j \in DOMAIN @[i][w].op |-> LastInsPrefWord(@[i][w].op, j - 1)]]]]]

Exact(p) == Told(p) = Told(Processed(EmptyProcessor, p.of, p.previousPrefix))

\* The words that two prefixes have in common come first in both, and none of
\* them is the last word of one of them only.
Continues(old, new) ==
  LET alike == {i \in DOMAIN old \cap DOMAIN new : old[i] = new[i]}
      n == Cardinality(alike)
  IN alike = 1 .. n /\ (old = new \/ n = 0 \/ (n < Len(old) /\ n < Len(new)))

\* Working out only what is new of a prefix gives what working out all of it
\* gives (WgProcessorForAnlp.h:472), when one prefix continues the other.  When
\* it does not, getValidProcPrefixVec takes words for processed that are not,
\* or were processed as an incomplete word.
IncrementalIsExact ==
  [][proc' # proc /\ proc.inited /\ proc'.inited /\ proc'.of = proc.of
       /\ Continues(proc.previousPrefix, proc'.previousPrefix) /\ Exact(proc)
     => Exact(proc')]_vars

\* Whatever the graph, the costs and the order of the calls, the engine's
\* translation begins with the words of the prefix, and the answer with the
\* prefix as the user has typed it (_editDistBasedEcm.cc:28, ThotDecoder.cc:3044).
AnswerKeepsPrefix ==
  trans # Undefined =>
    /\ IsPrefix(totalPrefix, result)
    /\ trans # <<>> => IsPrefixStrVec(StringToStringVector(totalPrefix), trans)
=============================================================================
