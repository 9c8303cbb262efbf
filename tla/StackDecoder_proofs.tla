------------------------ MODULE StackDecoder_proofs ------------------------
(***************************************************************************)
(* Proofs about StackDecoder for any requests, container and parameters:   *)
(* its types, and that the word graph holds what the search has found;     *)
(* then, about the result of a search, that pruning does not lose all      *)
(* translations (BeamInvariance), that nothing is better than the result   *)
(* when nothing is pruned (OptimalInvariance), and that a search takes no  *)
(* more iterations than the lattice has hypotheses (IterationInvariance).  *)
(* For those come the lattice of a request and what the container holds;   *)
(* the invariant of each theorem says what the search can still expand.    *)
(***************************************************************************)
EXTENDS StackDecoder, FiniteSetTheorems, SequenceTheorems, Induction_proofs

-----------------------------------------------------------------------------
(* The inductive invariant.  A hypothesis is HypOK if the search of the    *)
(* request can have made it, and KeyOK is what push makes of it.           *)

Locals ==
  {hypsToExpand[i] : i \in DOMAIN hypsToExpand} \cup expandedHyps \cup {pred, result}

RequestStates == {request.root} \cup {a.to : a \in request.arcs}
HypSet == [cls : Nat, state : RequestStates, score : Int]

HypOK(h) ==
  /\ h \in HypSet /\ h.cls \in Stack!Classes
  /\ h.state = request.root => h = NullHyp(request)

KeyOK(k) ==
  /\ k \in HypSet /\ k.cls \in Stack!Classes
  /\ k.state = request.root => k.cls = 0 /\ k.score = request.heur[k.state]

\* TypeOK without the hypotheses of the search, which SearchInv types.
FlagTypes ==
  /\ breadthFirst \in BOOLEAN /\ applyBestScorePruning \in BOOLEAN
  /\ wordGraphEnabled \in BOOLEAN /\ settled \in BOOLEAN /\ end \in BOOLEAN /\ bf \in BOOLEAN

ScalarTypes ==
  /\ I \in Expansions \cup {1} /\ iterNo \in 1..MAX_NUM_OF_ITER
  /\ state \in {"IDLE", "TRANS", "TRANSREF", "VER", "TRANSPREFIX"}
  /\ request \in Requests /\ call \in {"none", "translate", "getNextTrans"}
  /\ phase \in {"idle", "suggest", "select", "expand"}
  /\ Len(hypsToExpand) <= I
  /\ \A b \in bestCompleteHyp : HypTypeOK(b)
  /\ Cardinality(bestCompleteHyp) <= 1

\* A call that runs has its parameters settled and the container ready; what
\* it keeps of one step for the next is empty where it is not used.
PhaseInv ==
  /\ phase # "idle" => /\ settled /\ call # "none" /\ state # "IDLE"
                       /\ iterNo < MAX_NUM_OF_ITER
  /\ settled => ready
  /\ phase \in {"idle", "suggest"} => hypsToExpand = <<>>
  /\ phase # "expand" => expandedHyps = {}
  /\ state # "IDLE" => request.words > 0

\* What is popped, expanded and pushed are hypotheses of the request, and the
\* dictionary has the state of every hypothesis that was popped.
SearchInv ==
  /\ hypsToExpand \in Seq(HypSet)
  /\ \A h \in Locals : HypOK(h)
  /\ \A h \in expandedHyps : Cov[pred.state] < Cov[h.state]
  /\ \A i \in DOMAIN hypsToExpand : hypsToExpand[i].state \in DOMAIN hypStateDict
  /\ expandedHyps # {} => pred.state \in DOMAIN hypStateDict
  /\ DOMAIN multiContainer = Stack!Classes /\ sortedStacksMap \subseteq Stack!Classes
  /\ \A n \in Stack!Live : KeyOK(n.hyp) /\ n.hyp.state \in DOMAIN hypStateDict
  /\ wordGraph = [arcs |-> wordGraph.arcs, finals |-> wordGraph.finals,
                  initialStateScore |-> wordGraph.initialStateScore]

-----------------------------------------------------------------------------
(* Paths of the word graph.                                                *)

\* The ends of the paths that are one arc longer.
Longer(ends, W) ==
  {[state |-> x[2].to, score |-> x[1].score + x[2].score] :
     x \in {y \in ends \X W.arcs : y[2].from = y[1].state}}

\* f has, for each number of arcs up to n, the ends and scores of the paths of W
\* from root that are no longer: the recursive function of GraphPaths.
IsPathTable(f, W, root, n) ==
  f = [k \in 0..n |-> IF k = 0 THEN {[state |-> root, score |-> W.initialStateScore]}
                      ELSE f[k - 1] \cup Longer(f[k - 1], W)]

PathTable(W, root, n) == CHOOSE f : IsPathTable(f, W, root, n)

\* The graph has a path to the state of h with its score, and knows it to be
\* final if h is complete.  The score of the initial state is set with the
\* first arc from it.
Charted(h) ==
  h.state # request.root =>
    /\ wordGraph.initialStateScore = request.heur[request.root]
    /\ [state |-> h.state, score |-> WithHeuristic(h).score]
         \in PathTable(wordGraph, request.root, request.words)[Cov[h.state]]
    /\ Complete(h) => h.state \in wordGraph.finals

GraphInv ==
  settled /\ wordGraphEnabled =>
    /\ \A n \in Stack!Live : Charted(Restored(n.hyp))
    /\ call # "none" => /\ Charted(pred) /\ Charted(result)
                        /\ \A i \in DOMAIN hypsToExpand : Charted(hypsToExpand[i])
    /\ Translated /\ state = "TRANS" /\ ~Complete(result) => wordGraph.finals # {}

DecoderInv == FlagTypes /\ ScalarTypes /\ PhaseInv /\ SearchInv

-----------------------------------------------------------------------------
(* GraphPaths is the last entry of the table of paths. *)
LEMMA GraphPathsTable == GraphPaths = PathTable(wordGraph, request.root, request.words)[request.words]
  BY DEF GraphPaths, PathTable, IsPathTable, Longer

(* The recursive definition of the table has a solution. *)
LEMMA PathTableExists ==
  ASSUME NEW W, NEW root, NEW n \in Nat
  PROVE  IsPathTable(PathTable(W, root, n), W, root, n)
  <1> DEFINE S == {m \in Nat : \E f : IsPathTable(f, W, root, m)}
  <1>1. 0 \in S
    <2> DEFINE f == [k \in 0..0 |-> {[state |-> root, score |-> W.initialStateScore]}]
    <2>1. IsPathTable(f, W, root, 0)
      BY DEF IsPathTable
    <2> QED BY <2>1
  <1>2. ASSUME NEW m \in Nat, m \in S
        PROVE  m + 1 \in S
    <2>1. PICK f : IsPathTable(f, W, root, m)
      BY <1>2
    <2>2. PICK base : base = {[state |-> root, score |-> W.initialStateScore]}
      OBVIOUS
    <2>3. PICK g : g = [k \in 0 .. m + 1 |-> IF k = 0 THEN base
                                             ELSE f[k - 1] \cup Longer(f[k - 1], W)]
      OBVIOUS
    <2>4. \A k \in 0 .. m : f[k] = IF k = 0 THEN base ELSE f[k - 1] \cup Longer(f[k - 1], W)
      BY <2>1, <2>2 DEF IsPathTable
    <2>5. ASSUME NEW k \in 0 .. m
          PROVE  g[k] = f[k]
      <3>1. k \in 0 .. m + 1
        OBVIOUS
      <3>2. g[k] = IF k = 0 THEN base ELSE f[k - 1] \cup Longer(f[k - 1], W)
        BY <2>3, <3>1
      <3> QED BY <3>2, <2>4
    <2>6. g = [k \in 0 .. m + 1 |-> IF k = 0 THEN base
                                    ELSE g[k - 1] \cup Longer(g[k - 1], W)]
      <3>1. \A k \in 0 .. m + 1 : k # 0 => k - 1 \in 0 .. m
        OBVIOUS
      <3>2. \A k \in 0 .. m + 1 : k # 0 => g[k - 1] = f[k - 1]
        BY <3>1, <2>5
      <3> QED BY <2>3, <3>2
    <2>7. IsPathTable(g, W, root, m + 1)
      BY <2>6, <2>2 DEF IsPathTable
    <2> QED BY <2>7
  <1> HIDE DEF S
  <1>3. n \in S
    BY <1>1, <1>2, InductionOnSet
  <1> QED BY <1>3 DEF S, PathTable

(* What the table of paths holds for each length. *)
LEMMA TableEntries ==
  ASSUME NEW W, NEW root, NEW n \in Nat
  PROVE  /\ PathTable(W, root, n)[0] = {[state |-> root, score |-> W.initialStateScore]}
         /\ \A k \in 0 .. n - 1 : PathTable(W, root, n)[k + 1] =
              PathTable(W, root, n)[k] \cup Longer(PathTable(W, root, n)[k], W)
  <1>1. PICK f : f = PathTable(W, root, n)
    OBVIOUS
  <1>2. f = [k \in 0..n |-> IF k = 0 THEN {[state |-> root, score |-> W.initialStateScore]}
                            ELSE f[k - 1] \cup Longer(f[k - 1], W)]
    BY <1>1, PathTableExists DEF IsPathTable
  <1>3. f[0] = {[state |-> root, score |-> W.initialStateScore]}
    BY <1>2
  <1>4. ASSUME NEW k \in 0 .. n - 1
        PROVE  f[k + 1] = f[k] \cup Longer(f[k], W)
    <2>1. k + 1 \in 0 .. n /\ k + 1 # 0 /\ (k + 1) - 1 = k
      OBVIOUS
    <2>2. f[k + 1] = f[(k + 1) - 1] \cup Longer(f[(k + 1) - 1], W)
      BY <1>2, <2>1
    <2> QED BY <2>1, <2>2
  <1> QED BY <1>1, <1>3, <1>4

(* The paths of more arcs include those of less. *)
LEMMA TableGrows ==
  ASSUME NEW W, NEW root, NEW n \in Nat, NEW j \in 0 .. n, NEW k \in j .. n
  PROVE  PathTable(W, root, n)[j] \subseteq PathTable(W, root, n)[k]
  <1>1. PICK f : f = PathTable(W, root, n)
    OBVIOUS
  <1> DEFINE S == {m \in 0 .. n : j <= m => f[j] \subseteq f[m]}
  <1>2. 0 \in S
    OBVIOUS
  <1>3. ASSUME NEW m \in 0 .. n - 1, m \in S
        PROVE  m + 1 \in S
    <2>1. f[m + 1] = f[m] \cup Longer(f[m], W)
      BY <1>1, TableEntries
    <2>2. j <= m + 1 => j <= m \/ j = m + 1
      OBVIOUS
    <2> QED BY <1>3, <2>1, <2>2
  <1> HIDE DEF S
  <1>4. 0 .. n \subseteq S
    BY <1>2, <1>3, InductionUpTo
  <1>5. k \in S /\ j <= k
    BY <1>4
  <1> QED BY <1>1, <1>5 DEF S

(* A graph with more arcs has the paths it had. *)
LEMMA TableOfLargerGraph ==
  ASSUME NEW W, NEW V, NEW root, NEW n \in Nat, NEW k \in 0 .. n,
         W.arcs \subseteq V.arcs, W.initialStateScore = V.initialStateScore
  PROVE  PathTable(W, root, n)[k] \subseteq PathTable(V, root, n)[k]
  <1>1. PICK f : f = PathTable(W, root, n)
    OBVIOUS
  <1>2. PICK g : g = PathTable(V, root, n)
    OBVIOUS
  <1> DEFINE S == {m \in 0 .. n : f[m] \subseteq g[m]}
  <1>3. 0 \in S
    BY <1>1, <1>2, TableEntries
  <1>4. ASSUME NEW m \in 0 .. n - 1, m \in S
        PROVE  m + 1 \in S
    <2>1. f[m + 1] = f[m] \cup Longer(f[m], W)
      BY <1>1, TableEntries
    <2>2. g[m + 1] = g[m] \cup Longer(g[m], V)
      BY <1>2, TableEntries
    <2>3. f[m] \subseteq g[m]
      BY <1>4
    <2>4. Longer(f[m], W) \subseteq Longer(g[m], V)
      BY <2>3 DEF Longer
    <2> QED BY <2>1, <2>2, <2>3, <2>4
  <1> HIDE DEF S
  <1>5. 0 .. n \subseteq S
    BY <1>3, <1>4, InductionUpTo
  <1> QED BY <1>1, <1>2, <1>5 DEF S

(* An arc makes a path longer. *)
LEMMA PathExtended ==
  ASSUME NEW W, NEW root, NEW n \in Nat, NEW j \in 0 .. n, NEW k \in j + 1 .. n,
         NEW x, NEW a \in W.arcs,
         [state |-> a.from, score |-> x] \in PathTable(W, root, n)[j]
  PROVE  [state |-> a.to, score |-> x + a.score] \in PathTable(W, root, n)[k]
  <1>1. PICK f : f = PathTable(W, root, n)
    OBVIOUS
  <1>2. j \in 0 .. n - 1 /\ j + 1 \in 0 .. n
    OBVIOUS
  <1>3. f[j + 1] = f[j] \cup Longer(f[j], W)
    BY <1>1, <1>2, TableEntries
  <1>4. [state |-> a.to, score |-> x + a.score] \in Longer(f[j], W)
    <2>1. PICK y : y = <<[state |-> a.from, score |-> x], a>>
      OBVIOUS
    <2>2. y \in f[j] \X W.arcs /\ y[2].from = y[1].state
      BY <2>1, <1>1
    <2>3. y[2].to = a.to /\ y[1].score + y[2].score = x + a.score
      BY <2>1
    <2> QED BY <2>2, <2>3 DEF Longer
  <1>5. f[j + 1] \subseteq f[k]
    BY <1>1, <1>2, TableGrows
  <1> QED BY <1>1, <1>3, <1>4, <1>5

-----------------------------------------------------------------------------
(* Hypotheses.                                                             *)

(* A state of the request covers some of its words, and the root none. *)
LEMMA StateFacts ==
  ASSUME request \in Requests
  PROVE  /\ request.words \in Nat /\ Cov[request.root] = 0
         /\ \A s \in RequestStates :
              Cov[s] \in 0 .. request.words /\ request.heur[s] \in Int
  <1>1. /\ request.words \in Nat /\ Cov[request.root] = 0
        /\ request.heur[request.root] \in Int
        /\ \A a \in request.arcs :
             /\ Cov[a.from] \in Nat /\ Cov[a.to] \in Cov[a.from] + 1 .. request.words
             /\ request.heur[a.to] \in Int
    BY DecoderConstants
  <1>2. ASSUME NEW a \in request.arcs
        PROVE  Cov[a.to] \in 0 .. request.words /\ request.heur[a.to] \in Int
    BY <1>1
  <1> QED BY <1>1, <1>2 DEF RequestStates

(* The parts of a hypothesis, and what g adds to its score. *)
LEMMA HypParts ==
  ASSUME request \in Requests, NEW h \in HypSet
  PROVE  /\ h = [cls |-> h.cls, state |-> h.state, score |-> h.score]
         /\ h.cls \in Nat /\ h.state \in RequestStates /\ h.score \in Int /\ HypTypeOK(h)
         /\ Cov[h.state] \in 0 .. request.words /\ request.heur[h.state] \in Int
         /\ G(h) \in Int /\ (h.state = request.root => G(h) = 0)
  <1>1. h.cls \in Nat /\ h.state \in RequestStates /\ h.score \in Int /\ HypTypeOK(h)
    BY DEF HypSet, HypTypeOK
  <1>2. h = [cls |-> h.cls, state |-> h.state, score |-> h.score]
    BY DEF HypSet
  <1>3. /\ Cov[h.state] \in 0 .. request.words /\ request.heur[h.state] \in Int
        /\ request.words \in Nat /\ (h.state = request.root => Cov[h.state] = 0)
    BY <1>1, StateFacts
  <1>4. G_EPSILON \in Int
    BY DecoderConstants
  <1>5. G(h) \in Int /\ (h.state = request.root => G(h) = 0)
    <2>1. Cov[h.state] \in Int
      BY <1>3
    <2>2. Cov[h.state] * G_EPSILON \in Int
      BY <2>1, <1>4
    <2>3. Cov[h.state] = 0 => Cov[h.state] * G_EPSILON = 0
      BY <2>1, <1>4
    <2> QED BY <2>2, <2>3, <1>3 DEF G
  <1> QED BY <1>1, <1>2, <1>3, <1>5

(* The null hypothesis is one of the request. *)
LEMMA NullHypOK ==
  ASSUME request \in Requests
  PROVE  HypOK(NullHyp(request))
  BY DecoderConstants DEF HypOK, NullHyp, HypSet, RequestStates, Stack!Classes

(* push stores what pop restores. *)
LEMMA StoredRestored ==
  ASSUME request \in Requests, NEW h, HypOK(h)
  PROVE  KeyOK(Stored(h)) /\ Stored(h).state = h.state /\ Restored(Stored(h)) = h
         /\ Stored(h).score = h.score + request.heur[h.state] + G(h)
  <1>1. h \in HypSet /\ h.cls \in Stack!Classes
    BY DEF HypOK
  <1>2. /\ h = [cls |-> h.cls, state |-> h.state, score |-> h.score]
        /\ h.cls \in Nat /\ h.state \in RequestStates /\ h.score \in Int
        /\ request.heur[h.state] \in Int
        /\ G(h) \in Int /\ (h.state = request.root => G(h) = 0)
    BY <1>1, HypParts
  <1>3. WithHeuristic(h).score = h.score + request.heur[h.state]
    BY <1>2 DEF WithHeuristic
  <1>4. PICK k : k = Stored(h)
    OBVIOUS
  <1>5. k = [cls |-> h.cls, state |-> h.state, score |-> h.score + request.heur[h.state] + G(h)]
    BY <1>2, <1>3, <1>4 DEF Stored
  <1>6. k \in HypSet /\ k.state = h.state
    BY <1>2, <1>5 DEF HypSet
  <1>7. KeyOK(k)
    BY <1>1, <1>2, <1>5, <1>6 DEF KeyOK, HypOK, NullHyp
  <1>8. G(k) = G(h)
    BY <1>6 DEF G
  <1>9. Restored(k) = h
    <2>1. Restored(k) = [cls |-> h.cls, state |-> h.state,
                         score |-> k.score - G(k) - request.heur[k.state]]
      BY <1>5 DEF Restored
    <2>2. k.score - G(k) - request.heur[k.state] = h.score
      BY <1>2, <1>5, <1>6, <1>8
    <2> QED BY <2>1, <2>2, <1>2
  <1> QED BY <1>4, <1>5, <1>6, <1>7, <1>9

(* What pop makes of a stored hypothesis. *)
LEMMA RestoredOK ==
  ASSUME request \in Requests, NEW k, KeyOK(k)
  PROVE  /\ HypOK(Restored(k)) /\ Restored(k).state = k.state
         /\ Restored(k).score = k.score - G(k) - request.heur[k.state]
  <1>1. k \in HypSet /\ k.cls \in Stack!Classes
    BY DEF KeyOK
  <1>2. /\ k = [cls |-> k.cls, state |-> k.state, score |-> k.score]
        /\ k.cls \in Nat /\ k.state \in RequestStates /\ k.score \in Int
        /\ request.heur[k.state] \in Int
        /\ G(k) \in Int /\ (k.state = request.root => G(k) = 0)
    BY <1>1, HypParts
  <1>3. PICK h : h = Restored(k)
    OBVIOUS
  <1>4. h = [cls |-> k.cls, state |-> k.state, score |-> k.score - G(k) - request.heur[k.state]]
    BY <1>2, <1>3 DEF Restored
  <1>5. h \in HypSet
    BY <1>2, <1>4 DEF HypSet
  <1>6. k.state = request.root => h = NullHyp(request)
    <2>1. k.state = request.root => k.score - G(k) - request.heur[k.state] = 0 /\ k.cls = 0
      BY <1>2 DEF KeyOK
    <2> QED BY <2>1, <1>4 DEF NullHyp
  <1> QED BY <1>1, <1>3, <1>4, <1>5, <1>6 DEF HypOK

(* What extends a hypothesis covers more words. *)
LEMMA SuccessorsOK ==
  ASSUME request \in Requests, NEW p, HypOK(p), NEW h \in Successors(p)
  PROVE  HypOK(h) /\ Cov[p.state] < Cov[h.state]
  <1>1. PICK a \in request.arcs :
          /\ a.from = p.state
          /\ h = [cls |-> 2 * Cov[a.to] + (IF a.jump = 1 THEN 1 ELSE p.cls % 2),
                  state |-> a.to, score |-> p.score + a.score]
    BY DEF Successors
  <1>2. /\ Cov[a.from] \in Nat /\ Cov[a.to] \in Cov[a.from] + 1 .. request.words
        /\ a.jump \in 0..1 /\ a.score \in Int /\ Cov[request.root] = 0
        /\ request.words \in Nat
        /\ 2 * Cov[a.to] .. 2 * Cov[a.to] + 1 \subseteq Stack!Classes
    BY DecoderConstants DEF Stack!Classes
  <1>3. p.cls \in Nat /\ p.score \in Int
    BY HypParts DEF HypOK
  <1>4. Cov[a.to] \in Nat /\ Cov[a.from] < Cov[a.to] /\ Cov[a.to] # 0
    BY <1>2
  <1>5. p.cls % 2 \in 0 .. 1
    BY <1>3
  <1>6. (IF a.jump = 1 THEN 1 ELSE p.cls % 2) \in 0 .. 1
    BY <1>5
  <1>7. h.cls \in 2 * Cov[a.to] .. 2 * Cov[a.to] + 1 /\ h.cls \in Nat
    BY <1>1, <1>4, <1>6
  <1>8. h \in HypSet /\ h.cls \in Stack!Classes
    BY <1>1, <1>2, <1>3, <1>7 DEF HypSet, RequestStates
  <1>9. h.state = a.to /\ a.to # request.root
    BY <1>1, <1>2, <1>4
  <1> QED BY <1>1, <1>4, <1>8, <1>9 DEF HypOK

-----------------------------------------------------------------------------
(* What the operations of the container do to its nodes and dictionary.    *)

(* A node that is live after one sub-stack was given nodes S is one of those
   or was live before. *)
LEMMA LiveAfter ==
  ASSUME NEW c, NEW S, DOMAIN multiContainer = Stack!Classes,
         multiContainer' = [multiContainer EXCEPT ![c] = S]
  PROVE  /\ DOMAIN multiContainer' = Stack!Classes
         /\ \A n \in Stack!Live' : n \in Stack!Live \/ (n \in S /\ c \in Stack!Classes)
  <1>1. \A d \in Stack!Classes :
          multiContainer'[d] = multiContainer[d] \/ (multiContainer'[d] = S /\ d = c)
    OBVIOUS
  <1> QED BY <1>1 DEF Stack!Live

(* A push adds a node of its hypothesis, at most, and its state is then in
   the dictionary. *)
LEMMA PushEffect ==
  ASSUME NEW k, DOMAIN multiContainer = Stack!Classes, Stack!Push(k)
  PROVE  /\ DOMAIN multiContainer' = Stack!Classes
         /\ \A n \in Stack!Live' : n \in Stack!Live \/ n.hyp = k
         /\ DOMAIN hypStateDict' = DOMAIN hypStateDict \cup {k.state}
         /\ ready /\ UNCHANGED <<maxStackSize, bf, ready>>
  <1> DEFINE rest == multiContainer[k.cls] \ Stack!Recombined(k)
  <1>0. ready /\ UNCHANGED <<maxStackSize, bf, ready>>
    BY DEF Stack!Push
  <1>1. \A n : n \in multiContainer[k.cls] /\ k.cls \in Stack!Classes => n \in Stack!Live
    BY DEF Stack!Live
  <1>2. CASE Stack!WorseThanKnown(k) /\ UNCHANGED <<multiContainer, hypStateDict>>
    <2>1. Stack!Live' = Stack!Live
      BY <1>2 DEF Stack!Live
    <2> QED BY <1>0, <1>2, <2>1 DEF Stack!WorseThanKnown
  <1>3. CASE /\ hypStateDict' = Stack!With(hypStateDict, k.state, k.score)
             /\ multiContainer' = [multiContainer EXCEPT ![k.cls] = rest]
    <2>1. /\ DOMAIN multiContainer' = Stack!Classes
          /\ \A n \in Stack!Live' : n \in Stack!Live \/ (n \in rest /\ k.cls \in Stack!Classes)
      BY <1>3, LiveAfter
    <2>3. \A n \in Stack!Live' : n \in Stack!Live
      BY <1>1, <2>1
    <2> QED BY <1>0, <1>3, <2>1, <2>3 DEF Stack!With
  <1>4. CASE /\ hypStateDict' = Stack!With(hypStateDict, k.state, k.score)
             /\ Stack!Insert(rest, k)
    <2>1. PICK i, S : /\ multiContainer' = [multiContainer EXCEPT ![k.cls] = S]
                      /\ S \subseteq rest \cup {[id |-> i, hyp |-> k]}
      BY <1>4 DEF Stack!Insert
    <2>2. /\ DOMAIN multiContainer' = Stack!Classes
          /\ \A n \in Stack!Live' : n \in Stack!Live \/ (n \in S /\ k.cls \in Stack!Classes)
      BY <2>1, LiveAfter
    <2>4. \A n \in Stack!Live' : n \in Stack!Live \/ n.hyp = k
      BY <1>1, <2>1, <2>2
    <2> QED BY <1>0, <1>4, <2>2, <2>4 DEF Stack!With
  <1> QED BY <1>2, <1>3, <1>4 DEF Stack!Push

(* The decoder's push, of a hypothesis of the request. *)
LEMMA PushHypEffect ==
  ASSUME ScalarTypes, SearchInv, NEW h, HypOK(h), PushHyp(h)
  PROVE  /\ DOMAIN multiContainer' = Stack!Classes /\ sortedStacksMap' \subseteq Stack!Classes
         /\ \A n \in Stack!Live' :
              n \in Stack!Live \/ (n.hyp = Stored(h) /\ h.state \in DOMAIN hypStateDict')
         /\ DOMAIN hypStateDict \subseteq DOMAIN hypStateDict'
         /\ \A n \in Stack!Live' : KeyOK(n.hyp) /\ n.hyp.state \in DOMAIN hypStateDict'
         /\ UNCHANGED <<maxStackSize, bf, ready>>
         /\ \A b \in bestCompleteHyp' : HypTypeOK(b)
         /\ Cardinality(bestCompleteHyp') <= 1
  <1>1. /\ request \in Requests /\ DOMAIN multiContainer = Stack!Classes
        /\ sortedStacksMap \subseteq Stack!Classes
        /\ \A n \in Stack!Live : KeyOK(n.hyp) /\ n.hyp.state \in DOMAIN hypStateDict
        /\ \A b \in bestCompleteHyp : HypTypeOK(b)
        /\ Cardinality(bestCompleteHyp) <= 1
    BY DEF ScalarTypes, SearchInv
  <1>2. KeyOK(Stored(h)) /\ Stored(h).state = h.state /\ HypTypeOK(Stored(h))
    BY <1>1, StoredRestored, HypParts DEF KeyOK
  <1>3. CASE UNCHANGED <<stack, bestCompleteHyp>>
    <2>1. UNCHANGED <<multiContainer, sortedStacksMap, hypStateDict, maxStackSize, bf, ready,
                      bestCompleteHyp>>
      BY <1>3 DEF stack
    <2>2. Stack!Live' = Stack!Live
      BY <2>1 DEF Stack!Live
    <2> QED BY <1>1, <2>1, <2>2
  <1>4. CASE /\ Stack!Push(Stored(h))
             /\ bestCompleteHyp' = IF Inserted /\ Complete(h) THEN {Stored(h)} ELSE bestCompleteHyp
    <2>1. /\ DOMAIN multiContainer' = Stack!Classes
          /\ \A n \in Stack!Live' : n \in Stack!Live \/ n.hyp = Stored(h)
          /\ DOMAIN hypStateDict' = DOMAIN hypStateDict \cup {h.state}
          /\ UNCHANGED <<maxStackSize, bf, ready>>
      BY <1>1, <1>2, <1>4, PushEffect
    <2>2. \A b \in bestCompleteHyp' : HypTypeOK(b)
      BY <1>1, <1>2, <1>4
    <2>3. Cardinality(bestCompleteHyp') <= 1
      <3>1. Cardinality({Stored(h)}) <= 1
        BY FS_Singleton
      <3>2. bestCompleteHyp' = {Stored(h)} \/ bestCompleteHyp' = bestCompleteHyp
        BY <1>4
      <3> QED BY <1>1, <3>1, <3>2
    <2>4. /\ Stored(h).cls \in Stack!Classes
          /\ sortedStacksMap' \subseteq sortedStacksMap \cup {Stored(h).cls}
      BY <1>2, <1>4 DEF Stack!Push, Stack!NonEmptyWith, Stack!NonEmptyAfterPush, KeyOK
    <2> QED BY <1>1, <1>2, <2>1, <2>2, <2>3, <2>4
  <1> QED BY <1>3, <1>4 DEF PushHyp

(* A pop removes a node and keeps the dictionary. *)
LEMMA PopEffect ==
  ASSUME DOMAIN multiContainer = Stack!Classes, NEW c \in sortedStacksMap,
         sortedStacksMap \subseteq Stack!Classes, NEW n \in Stack!PopsFrom(multiContainer[c]),
         NEW first, Stack!PopNode(first, c, n)
  PROVE  /\ DOMAIN multiContainer' = Stack!Classes /\ sortedStacksMap' \subseteq Stack!Classes
         /\ n \in Stack!Live /\ \A m \in Stack!Live' : m \in Stack!Live
         /\ UNCHANGED <<maxStackSize, hypStateDict, ready>>
  <1>1. n \in multiContainer[c] /\ c \in Stack!Classes
    BY DEF Stack!PopsFrom, Stack!Tops
  <1>2. /\ multiContainer' = [multiContainer EXCEPT ![c] = multiContainer[c] \ {n}]
        /\ sortedStacksMap' \subseteq sortedStacksMap
        /\ UNCHANGED <<maxStackSize, hypStateDict, ready>>
    BY DEF Stack!PopNode, Stack!NonEmptyWith
  <1>3. /\ DOMAIN multiContainer' = Stack!Classes
        /\ \A m \in Stack!Live' : m \in Stack!Live \/ m \in multiContainer[c] \ {n}
    BY <1>2, LiveAfter
  <1> QED BY <1>1, <1>2, <1>3 DEF Stack!Live

-----------------------------------------------------------------------------
(* Types and phases.                                                       *)

(* The invariant gives the types. *)
LEMMA TypesFollow ==
  ASSUME DecoderInv
  PROVE  TypeOK
  <1>1. request \in Requests /\ \A h \in Locals : h \in HypSet
    BY DEF DecoderInv, ScalarTypes, SearchInv, HypOK
  <1>2. \A h \in Locals : HypTypeOK(h)
    BY <1>1, HypParts
  <1>3. {breadthFirst, applyBestScorePruning, wordGraphEnabled, settled, end, bf} \subseteq BOOLEAN
    BY DEF DecoderInv, FlagTypes
  <1> QED BY <1>2, <1>3 DEF DecoderInv, ScalarTypes, TypeOK, Locals

(* The bounds of the parameters and of the iterations. *)
LEMMA Bounds ==
  /\ Expansions \subseteq Nat /\ MAX_NUM_OF_ITER \in Nat /\ 1 < MAX_NUM_OF_ITER
  /\ ScalarTypes => I \in Nat /\ iterNo \in Nat
  /\ Len(<<>>) = 0 /\ Cardinality({}) = 0
  <1>1. Expansions \subseteq Nat /\ MAX_NUM_OF_ITER \in Nat /\ 1 < MAX_NUM_OF_ITER
    BY DecoderConstants
  <1>2. Cardinality({}) = 0
    BY FS_EmptySet
  <1>3. ASSUME ScalarTypes
        PROVE  I \in Nat /\ iterNo \in Nat
    <2>1. I \in Expansions \cup {1} /\ iterNo \in 1 .. MAX_NUM_OF_ITER
      BY <1>3 DEF ScalarTypes
    <2> QED BY <1>1, <2>1
  <1>4. Len(<<>>) = 0
    OBVIOUS
  <1> QED BY <1>1, <1>2, <1>3, <1>4

(* The invariant holds initially. *)
LEMMA DecoderInit ==
  ASSUME Init
  PROVE  DecoderInv
  <1>1. request \in Requests /\ Stack!Live = {} /\ DOMAIN multiContainer = Stack!Classes
        /\ sortedStacksMap = {} /\ ready
    BY DEF Init, Stack!Init, Stack!NoNodes, Stack!Live
  <1>2. HypOK(NullHyp(request))
    BY <1>1, NullHypOK
  <1>3. ScalarTypes
    BY <1>1, Bounds DEF Init, ScalarTypes
  <1>6. FlagTypes
    BY DEF Init, Stack!Init, FlagTypes
  <1>4. PhaseInv
    BY <1>1 DEF Init, PhaseInv
  <1>5. SearchInv
    BY <1>1, <1>2 DEF Init, SearchInv, Locals, EmptyGraph
  <1> QED BY <1>3, <1>4, <1>5, <1>6 DEF DecoderInv

(* What a step does not touch stays a hypothesis of the request. *)
LEMMA HypsKept ==
  ASSUME request' = request
  PROVE  /\ HypSet' = HypSet /\ Stack!Classes' = Stack!Classes
         /\ \A h : HypOK(h)' <=> HypOK(h)
         /\ \A k : KeyOK(k)' <=> KeyOK(k)
  BY DEF HypSet, RequestStates, Stack!Classes, HypOK, KeyOK, NullHyp

(* A parameter is set between two calls. *)
LEMMA ParameterStep ==
  ASSUME DecoderInv, SetParameter,
         breadthFirst' \in BOOLEAN, applyBestScorePruning' \in BOOLEAN,
         wordGraphEnabled' \in BOOLEAN, I' \in Expansions \cup {1},
         UNCHANGED <<bf, multiContainer, sortedStacksMap, hypStateDict>>
  PROVE  DecoderInv'
  <1>1. /\ phase = "idle" /\ settled' = FALSE
        /\ UNCHANGED <<state, request, call, phase, hypsToExpand, pred, expandedHyps, result,
                       end, iterNo, bestCompleteHyp, wordGraph>>
    BY DEF SetParameter, task, locals
  <1>2. I' \in Nat /\ Len(hypsToExpand') = 0
    BY <1>1, Bounds DEF DecoderInv, PhaseInv
  <1>3. ScalarTypes'
    BY <1>1, <1>2 DEF DecoderInv, ScalarTypes
  <1>6. FlagTypes'
    BY <1>1 DEF DecoderInv, FlagTypes
  <1>4. PhaseInv'
    BY <1>1 DEF DecoderInv, PhaseInv
  <1>5. SearchInv'
    BY <1>1, HypsKept DEF DecoderInv, SearchInv, Locals, Stack!Live
  <1> QED BY <1>3, <1>4, <1>5, <1>6 DEF DecoderInv

(* The container is cleared. *)
LEMMA ClearEffect ==
  ASSUME Stack!Clear
  PROVE  /\ DOMAIN multiContainer' = Stack!Classes /\ sortedStacksMap' = {}
         /\ Stack!Live' = {} /\ ready' = TRUE /\ UNCHANGED <<maxStackSize, bf>>
  BY DEF Stack!Clear, Stack!NoNodes, Stack!Live

LEMMA ClearStep ==
  ASSUME DecoderInv, Clear
  PROVE  DecoderInv'
  <1>1. /\ phase = "idle" /\ settled' = TRUE /\ call' = "none" /\ wordGraph' = EmptyGraph
        /\ UNCHANGED <<breadthFirst, I, applyBestScorePruning, wordGraphEnabled, state, request,
                       phase, hypsToExpand, pred, expandedHyps, result, end, iterNo,
                       bestCompleteHyp>>
    BY DEF Clear, locals
  <1>2. /\ DOMAIN multiContainer' = Stack!Classes /\ sortedStacksMap' = {}
        /\ Stack!Live' = {} /\ ready' = TRUE /\ UNCHANGED bf
    BY ClearEffect DEF Clear
  <1>3. ScalarTypes' /\ FlagTypes'
    BY <1>1, <1>2 DEF DecoderInv, ScalarTypes, FlagTypes
  <1>4. PhaseInv'
    BY <1>1, <1>2 DEF DecoderInv, PhaseInv
  <1>5. hypsToExpand = <<>> /\ expandedHyps = {}
    BY <1>1 DEF DecoderInv, PhaseInv
  <1>6. SearchInv'
    BY <1>1, <1>2, <1>5, HypsKept DEF DecoderInv, SearchInv, Locals, EmptyGraph
  <1> QED BY <1>3, <1>4, <1>6 DEF DecoderInv

(* A search begins, with an empty container ... *)
LEMMA TranslateStep ==
  ASSUME DecoderInv, NEW r \in Requests, Translate(r)
  PROVE  DecoderInv'
  <1>1. /\ phase = "idle" /\ settled' = TRUE /\ call' = "translate" /\ wordGraph' = EmptyGraph
        /\ request' = r
        /\ hypsToExpand' = <<>> /\ pred' = NullHyp(r) /\ expandedHyps' = {}
        /\ result' = NullHyp(r) /\ end' = FALSE /\ iterNo' = 1
        /\ UNCHANGED <<breadthFirst, I, applyBestScorePruning, wordGraphEnabled>>
    BY DEF Translate, StartDecode
  <1>2. \/ /\ r.words \in 1 .. MAX_SENTENCE_LENGTH_ALLOWED - 1
           /\ state' = r.mode /\ phase' = "suggest" /\ bestCompleteHyp' = {}
        \/ state' = "IDLE" /\ phase' = "idle" /\ UNCHANGED bestCompleteHyp
    BY DEF Translate
  <1>3. /\ DOMAIN multiContainer' = Stack!Classes /\ sortedStacksMap' = {}
        /\ Stack!Live' = {} /\ ready' = TRUE /\ UNCHANGED bf
    BY ClearEffect DEF Translate
  <1>4. r.mode \in {"TRANS", "TRANSREF", "VER", "TRANSPREFIX"} /\ r.words \in Nat
        /\ MAX_NUM_OF_ITER \in Nat /\ MAX_NUM_OF_ITER > 1
    BY DecoderConstants
  <1>5. FlagTypes'
    BY <1>1, <1>3 DEF DecoderInv, FlagTypes
  <1>6. ScalarTypes'
    <2>1. /\ ScalarTypes /\ I \in Nat /\ 1 \in 1 .. MAX_NUM_OF_ITER
          /\ Len(hypsToExpand') = 0 /\ Cardinality({}) = 0
      BY <1>1, Bounds DEF DecoderInv
    <2>2. (\A b \in bestCompleteHyp' : HypTypeOK(b)) /\ Cardinality(bestCompleteHyp') <= 1
      <3>1. (\A b \in bestCompleteHyp : HypTypeOK(b)) /\ Cardinality(bestCompleteHyp) <= 1
        BY <2>1 DEF ScalarTypes
      <3>2. bestCompleteHyp' = {} \/ bestCompleteHyp' = bestCompleteHyp
        BY <1>2
      <3>3. PICK B : B = bestCompleteHyp'
        OBVIOUS
      <3>4. (\A b \in B : HypTypeOK(b)) /\ Cardinality(B) <= 1
        BY <2>1, <3>1, <3>2, <3>3
      <3> QED BY <3>3, <3>4
    <2> QED BY <1>1, <1>2, <1>4, <2>1, <2>2 DEF ScalarTypes
  <1>7. PhaseInv'
    <2>1. state' # "IDLE" => r.words > 0
      BY <1>2, <1>4
    <2> QED BY <1>1, <1>2, <1>3, <1>4, <2>1 DEF PhaseInv
  <1>8. HypOK(NullHyp(r))'
    BY <1>1, DecoderConstants DEF HypOK, NullHyp, HypSet, RequestStates, Stack!Classes
  <1>9. SearchInv'
    BY <1>1, <1>3, <1>8 DEF SearchInv, Locals, EmptyGraph
  <1> QED BY <1>5, <1>6, <1>7, <1>9 DEF DecoderInv

(* ... or goes on. *)
LEMMA GetNextTransStep ==
  ASSUME DecoderInv, GetNextTrans
  PROVE  DecoderInv'
  <1>1. /\ phase = "idle" /\ settled /\ state # "IDLE"
        /\ call' = "getNextTrans" /\ phase' = "select" /\ bestCompleteHyp' = {}
        /\ hypsToExpand' = <<>> /\ pred' = NullHyp(request) /\ expandedHyps' = {}
        /\ result' = NullHyp(request) /\ end' = FALSE /\ iterNo' = 1
        /\ UNCHANGED <<breadthFirst, I, applyBestScorePruning, wordGraphEnabled, settled, state,
                       request, wordGraph, bf, multiContainer, sortedStacksMap, hypStateDict,
                       ready>>
    BY DEF GetNextTrans, StartDecode, parameters, stack
  <1>3. FlagTypes'
    BY <1>1 DEF DecoderInv, FlagTypes
  <1>4. ScalarTypes'
    BY <1>1, Bounds DEF DecoderInv, ScalarTypes
  <1>5. PhaseInv'
    BY <1>1, Bounds DEF DecoderInv, PhaseInv
  <1>6. HypOK(NullHyp(request))
    BY NullHypOK DEF DecoderInv, ScalarTypes
  <1>7. SearchInv'
    BY <1>1, <1>6, HypsKept DEF DecoderInv, SearchInv, Locals, Stack!Live
  <1> QED BY <1>3, <1>4, <1>5, <1>7 DEF DecoderInv

(* The hypotheses to expand, when one is taken or added. *)
LEMMA QueueFacts ==
  ASSUME DecoderInv
  PROVE  /\ \A i \in DOMAIN hypsToExpand :
              HypOK(hypsToExpand[i]) /\ hypsToExpand[i].state \in DOMAIN hypStateDict
         /\ hypsToExpand # <<>> =>
              /\ HypOK(Current) /\ Current.state \in DOMAIN hypStateDict
              /\ Tail(hypsToExpand) \in Seq(HypSet) /\ Len(Tail(hypsToExpand)) <= I
              /\ \A i \in DOMAIN Tail(hypsToExpand) : \E j \in DOMAIN hypsToExpand :
                   Tail(hypsToExpand)[i] = hypsToExpand[j]
              /\ \E j \in DOMAIN hypsToExpand : Current = hypsToExpand[j]
         /\ \A h \in HypSet :
              /\ Append(hypsToExpand, h) \in Seq(HypSet)
              /\ Len(Append(hypsToExpand, h)) = Len(hypsToExpand) + 1
              /\ \A i \in DOMAIN Append(hypsToExpand, h) :
                   \/ i \in DOMAIN hypsToExpand /\ Append(hypsToExpand, h)[i] = hypsToExpand[i]
                   \/ Append(hypsToExpand, h)[i] = h
  <1>1. PICK q : q = hypsToExpand
    OBVIOUS
  <1>2. q \in Seq(HypSet)
    BY <1>1 DEF DecoderInv, SearchInv
  <1>3. \A i \in DOMAIN q : HypOK(q[i]) /\ q[i].state \in DOMAIN hypStateDict
    BY <1>1 DEF DecoderInv, SearchInv, Locals
  <1>4. Len(q) <= I /\ I \in Nat
    BY <1>1, Bounds DEF DecoderInv, ScalarTypes
  <1>5. ASSUME q # <<>>
        PROVE  /\ 1 \in DOMAIN q /\ Head(q) = q[1] /\ Tail(q) \in Seq(HypSet)
               /\ Len(Tail(q)) <= I
               /\ \A i \in DOMAIN Tail(q) : i + 1 \in DOMAIN q /\ Tail(q)[i] = q[i + 1]
    BY <1>2, <1>4, <1>5
  <1>6. ASSUME NEW h \in HypSet
        PROVE  /\ Append(q, h) \in Seq(HypSet) /\ Len(Append(q, h)) = Len(q) + 1
               /\ \A i \in DOMAIN Append(q, h) :
                    (i \in DOMAIN q /\ Append(q, h)[i] = q[i]) \/ Append(q, h)[i] = h
    BY <1>2
  <1>7. q # <<>> => /\ \A i \in DOMAIN Tail(q) : \E j \in DOMAIN q : Tail(q)[i] = q[j]
                    /\ \E j \in DOMAIN q : Head(q) = q[j]
    BY <1>5
  <1> QED BY <1>1, <1>3, <1>5, <1>6, <1>7 DEF Current

(* What the steps of a search leave alone, and what all know. *)
LEMMA StepFacts ==
  ASSUME DecoderInv, phase # "idle"
  PROVE  /\ request \in Requests /\ I \in Nat /\ iterNo \in Nat
         /\ MAX_NUM_OF_ITER \in Nat /\ iterNo < MAX_NUM_OF_ITER
         /\ settled /\ ready /\ call # "none" /\ state # "IDLE" /\ request.words > 0
         /\ HypOK(pred) /\ HypOK(result) /\ (\A h \in expandedHyps : HypOK(h))
         /\ hypsToExpand \in Seq(HypSet)
  BY Bounds DEF DecoderInv, ScalarTypes, PhaseInv, SearchInv, Locals

(* The null hypothesis is pushed ... *)
LEMMA SuggestStep ==
  ASSUME DecoderInv, SuggestNullHyp
  PROVE  DecoderInv'
  <1>1. /\ phase = "suggest" /\ phase' = "select" /\ PushHyp(NullHyp(request))
        /\ UNCHANGED <<breadthFirst, I, applyBestScorePruning, wordGraphEnabled, settled, state,
                       request, call, hypsToExpand, pred, expandedHyps, result, end, iterNo,
                       wordGraph>>
    BY DEF SuggestNullHyp, parameters, task, locals
  <1>2. /\ DOMAIN multiContainer' = Stack!Classes /\ sortedStacksMap' \subseteq Stack!Classes
        /\ DOMAIN hypStateDict \subseteq DOMAIN hypStateDict'
        /\ \A n \in Stack!Live' : KeyOK(n.hyp) /\ n.hyp.state \in DOMAIN hypStateDict'
        /\ UNCHANGED <<bf, ready>>
        /\ \A b \in bestCompleteHyp' : HypTypeOK(b)
        /\ Cardinality(bestCompleteHyp') <= 1
    BY <1>1, NullHypOK, PushHypEffect DEF DecoderInv, ScalarTypes
  <1>3. FlagTypes'
    BY <1>1, <1>2 DEF DecoderInv, FlagTypes
  <1>4. ScalarTypes'
    BY <1>1, <1>2 DEF DecoderInv, ScalarTypes
  <1>5. PhaseInv'
    BY <1>1, <1>2, StepFacts DEF DecoderInv, PhaseInv
  <1>6. SearchInv'
    BY <1>1, <1>2, HypsKept DEF DecoderInv, SearchInv, Locals
  <1> QED BY <1>3, <1>4, <1>5, <1>6 DEF DecoderInv

(* What Select pops. *)
LEMMA SelectEffect ==
  ASSUME DecoderInv, Select
  PROVE  /\ phase = "select" /\ Len(hypsToExpand) < I
         /\ UNCHANGED <<breadthFirst, I, applyBestScorePruning, wordGraphEnabled, settled, state,
                        request, call, phase, pred, expandedHyps, result, end, iterNo,
                        bestCompleteHyp, wordGraph>>
         /\ DOMAIN multiContainer' = Stack!Classes /\ sortedStacksMap' \subseteq Stack!Classes
         /\ \A m \in Stack!Live' : m \in Stack!Live
         /\ UNCHANGED <<hypStateDict, ready>> /\ bf' = (bf \/ breadthFirst)
         /\ \E n \in Stack!Live : hypsToExpand' = Append(hypsToExpand, Restored(n.hyp))
  <1>1. /\ phase = "select" /\ Len(hypsToExpand) < I /\ PopHyp
        /\ UNCHANGED <<breadthFirst, I, applyBestScorePruning, wordGraphEnabled, settled, state,
                       request, call, phase, pred, expandedHyps, result, end, iterNo,
                       bestCompleteHyp, wordGraph>>
    BY DEF Select, MoreToSelect, parameters, task
  <1>2. PICK c \in sortedStacksMap : \E n \in Stack!PopsFrom(multiContainer[c]) :
          /\ Stack!PopNode(PopsFirstStack, c, n)
          /\ hypsToExpand' = Append(hypsToExpand, Restored(n.hyp))
    BY <1>1 DEF PopHyp
  <1>3. PICK n \in Stack!PopsFrom(multiContainer[c]) :
          /\ Stack!PopNode(PopsFirstStack, c, n)
          /\ hypsToExpand' = Append(hypsToExpand, Restored(n.hyp))
    BY <1>2
  <1>4. DOMAIN multiContainer = Stack!Classes /\ sortedStacksMap \subseteq Stack!Classes
    BY DEF DecoderInv, SearchInv
  <1>5. PICK first : first = PopsFirstStack
    OBVIOUS
  <1>6. /\ DOMAIN multiContainer' = Stack!Classes /\ sortedStacksMap' \subseteq Stack!Classes
        /\ n \in Stack!Live /\ \A m \in Stack!Live' : m \in Stack!Live
        /\ UNCHANGED <<hypStateDict, ready>>
    BY <1>3, <1>4, <1>5, PopEffect
  <1> QED BY <1>1, <1>3, <1>6 DEF PopHyp

(* ... hypotheses are popped ... *)
LEMMA SelectStep ==
  ASSUME DecoderInv, Select
  PROVE  DecoderInv'
  <1>1. /\ phase = "select" /\ Len(hypsToExpand) < I
        /\ UNCHANGED <<breadthFirst, I, applyBestScorePruning, wordGraphEnabled, settled, state,
                       request, call, phase, pred, expandedHyps, result, end, iterNo,
                       bestCompleteHyp, wordGraph>>
        /\ DOMAIN multiContainer' = Stack!Classes /\ sortedStacksMap' \subseteq Stack!Classes
        /\ \A m \in Stack!Live' : m \in Stack!Live
        /\ UNCHANGED <<hypStateDict, ready>> /\ bf' = (bf \/ breadthFirst)
    BY SelectEffect
  <1>2. PICK n \in Stack!Live : hypsToExpand' = Append(hypsToExpand, Restored(n.hyp))
    BY SelectEffect
  <1>3. request \in Requests /\ KeyOK(n.hyp) /\ n.hyp.state \in DOMAIN hypStateDict
    BY DEF DecoderInv, ScalarTypes, SearchInv
  <1>4. PICK h : h = Restored(n.hyp)
    OBVIOUS
  <1>5. HypOK(h) /\ h \in HypSet /\ h.state \in DOMAIN hypStateDict
    BY <1>3, <1>4, RestoredOK DEF HypOK
  <1>6. /\ hypsToExpand' \in Seq(HypSet) /\ Len(hypsToExpand') = Len(hypsToExpand) + 1
        /\ \A i \in DOMAIN hypsToExpand' :
             HypOK(hypsToExpand'[i]) /\ hypsToExpand'[i].state \in DOMAIN hypStateDict
    BY <1>2, <1>4, <1>5, QueueFacts
  <1>7. FlagTypes'
    BY <1>1 DEF DecoderInv, FlagTypes
  <1>8. Len(hypsToExpand') <= I
    <2>1. hypsToExpand \in Seq(HypSet) /\ I \in Nat
      BY <1>1, StepFacts
    <2>2. Len(hypsToExpand) \in Nat
      BY <2>1
    <2> QED BY <1>1, <1>6, <2>1, <2>2
  <1>9. ScalarTypes'
    BY <1>1, <1>8 DEF DecoderInv, ScalarTypes
  <1>10. PhaseInv'
    BY <1>1 DEF DecoderInv, PhaseInv
  <1>11. SearchInv'
    BY <1>1, <1>6, HypsKept DEF DecoderInv, SearchInv, Locals
  <1> QED BY <1>7, <1>9, <1>10, <1>11 DEF DecoderInv

(* ... until there are I or no more, ... *)
LEMMA BeginIterationStep ==
  ASSUME DecoderInv, BeginIteration
  PROVE  DecoderInv'
  <1>1. /\ phase = "select" /\ phase' = "expand" /\ end' = NothingToExpand
        /\ UNCHANGED <<breadthFirst, I, applyBestScorePruning, wordGraphEnabled, settled, state,
                       request, call, hypsToExpand, pred, expandedHyps, result, iterNo,
                       bestCompleteHyp, wordGraph, bf, multiContainer, sortedStacksMap,
                       hypStateDict, ready>>
    BY DEF BeginIteration, parameters, task, stack
  <1>2. FlagTypes'
    BY <1>1 DEF DecoderInv, FlagTypes, NothingToExpand
  <1>3. ScalarTypes'
    BY <1>1 DEF DecoderInv, ScalarTypes
  <1>4. PhaseInv'
    BY <1>1 DEF DecoderInv, PhaseInv
  <1>5. SearchInv'
    BY <1>1, HypsKept DEF DecoderInv, SearchInv, Locals, Stack!Live
  <1> QED BY <1>2, <1>3, <1>4, <1>5 DEF DecoderInv

(* A hypothesis is taken from those to expand. *)
LEMMA NextHypEffect ==
  ASSUME DecoderInv, NextHyp
  PROVE  /\ phase = "expand" /\ expandedHyps = {} /\ hypsToExpand # <<>>
         /\ HypOK(Current) /\ Current.state \in DOMAIN hypStateDict
         /\ hypsToExpand' \in Seq(HypSet) /\ Len(hypsToExpand') <= I
         /\ \A i \in DOMAIN hypsToExpand' :
              HypOK(hypsToExpand'[i]) /\ hypsToExpand'[i].state \in DOMAIN hypStateDict
         /\ UNCHANGED <<breadthFirst, I, applyBestScorePruning, wordGraphEnabled, settled, state,
                        request, call, phase, iterNo, wordGraph>>
  <1>1. /\ phase = "expand" /\ expandedHyps = {} /\ hypsToExpand # <<>>
        /\ hypsToExpand' = Tail(hypsToExpand)
        /\ UNCHANGED <<breadthFirst, I, applyBestScorePruning, wordGraphEnabled, settled, state,
                       request, call, phase, iterNo, wordGraph>>
    BY DEF NextHyp, parameters, task
  <1>2. /\ HypOK(Current) /\ Current.state \in DOMAIN hypStateDict
        /\ Tail(hypsToExpand) \in Seq(HypSet) /\ Len(Tail(hypsToExpand)) <= I
        /\ \A i \in DOMAIN Tail(hypsToExpand) : \E j \in DOMAIN hypsToExpand :
             Tail(hypsToExpand)[i] = hypsToExpand[j]
        /\ \A i \in DOMAIN hypsToExpand :
             HypOK(hypsToExpand[i]) /\ hypsToExpand[i].state \in DOMAIN hypStateDict
    BY <1>1, QueueFacts
  <1>3. \A i \in DOMAIN Tail(hypsToExpand) :
          /\ HypOK(Tail(hypsToExpand)[i])
          /\ Tail(hypsToExpand)[i].state \in DOMAIN hypStateDict
    BY <1>2
  <1>4. PICK q : q = Tail(hypsToExpand)
    OBVIOUS
  <1>5. hypsToExpand' = q /\ \A i \in DOMAIN q : HypOK(q[i]) /\ q[i].state \in DOMAIN hypStateDict
    BY <1>1, <1>3, <1>4
  <1>6. \A i \in DOMAIN hypsToExpand' :
          HypOK(hypsToExpand'[i]) /\ hypsToExpand'[i].state \in DOMAIN hypStateDict
    BY <1>5
  <1> QED BY <1>1, <1>2, <1>6

(* ... a complete one is the result, ... *)
LEMMA TakeCompleteStep ==
  ASSUME DecoderInv, TakeComplete
  PROVE  DecoderInv'
  <1>1. NextHyp /\ result' = Current /\ end' = TRUE
        /\ UNCHANGED <<pred, expandedHyps, bestCompleteHyp, bf, multiContainer, sortedStacksMap,
                       hypStateDict, ready>>
    BY DEF TakeComplete, stack
  <1>2. /\ phase = "expand" /\ expandedHyps = {} /\ hypsToExpand # <<>>
        /\ HypOK(Current) /\ Current.state \in DOMAIN hypStateDict
        /\ hypsToExpand' \in Seq(HypSet) /\ Len(hypsToExpand') <= I
        /\ \A i \in DOMAIN hypsToExpand' :
             HypOK(hypsToExpand'[i]) /\ hypsToExpand'[i].state \in DOMAIN hypStateDict
        /\ UNCHANGED <<breadthFirst, I, applyBestScorePruning, wordGraphEnabled, settled, state,
                       request, call, phase, iterNo, wordGraph>>
    BY <1>1, NextHypEffect
  <1>3. FlagTypes'
    BY <1>1, <1>2 DEF DecoderInv, FlagTypes
  <1>4. ScalarTypes'
    BY <1>1, <1>2 DEF DecoderInv, ScalarTypes
  <1>5. PhaseInv'
    BY <1>1, <1>2 DEF DecoderInv, PhaseInv
  <1>6. SearchInv'
    BY <1>1, <1>2, HypsKept DEF DecoderInv, SearchInv, Locals, Stack!Live
  <1> QED BY <1>3, <1>4, <1>5, <1>6 DEF DecoderInv

(* ... or is pushed again, ... *)
LEMMA ReturnCompleteStep ==
  ASSUME DecoderInv, ReturnComplete
  PROVE  DecoderInv'
  <1>1. NextHyp /\ PushHyp(Current) /\ UNCHANGED <<pred, expandedHyps, result, end>>
    BY DEF ReturnComplete
  <1>2. /\ phase = "expand" /\ expandedHyps = {} /\ hypsToExpand # <<>>
        /\ HypOK(Current) /\ Current.state \in DOMAIN hypStateDict
        /\ hypsToExpand' \in Seq(HypSet) /\ Len(hypsToExpand') <= I
        /\ \A i \in DOMAIN hypsToExpand' :
             HypOK(hypsToExpand'[i]) /\ hypsToExpand'[i].state \in DOMAIN hypStateDict
        /\ UNCHANGED <<breadthFirst, I, applyBestScorePruning, wordGraphEnabled, settled, state,
                       request, call, phase, iterNo, wordGraph>>
    BY <1>1, NextHypEffect
  <1>3. PICK h : h = Current
    OBVIOUS
  <1>4. /\ DOMAIN multiContainer' = Stack!Classes /\ sortedStacksMap' \subseteq Stack!Classes
        /\ DOMAIN hypStateDict \subseteq DOMAIN hypStateDict'
        /\ \A n \in Stack!Live' : KeyOK(n.hyp) /\ n.hyp.state \in DOMAIN hypStateDict'
        /\ UNCHANGED <<bf, ready>>
        /\ \A b \in bestCompleteHyp' : HypTypeOK(b)
        /\ Cardinality(bestCompleteHyp') <= 1
    BY <1>1, <1>2, <1>3, PushHypEffect DEF DecoderInv
  <1>5. FlagTypes'
    BY <1>1, <1>2, <1>4 DEF DecoderInv, FlagTypes
  <1>6. ScalarTypes'
    BY <1>2, <1>4 DEF DecoderInv, ScalarTypes
  <1>7. PhaseInv'
    BY <1>1, <1>2, <1>4 DEF DecoderInv, PhaseInv
  <1>8. SearchInv'
    BY <1>1, <1>2, <1>4, HypsKept DEF DecoderInv, SearchInv, Locals
  <1> QED BY <1>5, <1>6, <1>7, <1>8 DEF DecoderInv

(* ... another is expanded ... *)
LEMMA ExpandStep ==
  ASSUME DecoderInv, Expand
  PROVE  DecoderInv'
  <1>1. /\ NextHyp /\ pred' = Current /\ expandedHyps' = Successors(Current)
        /\ result' = Current \/ result' = result
        /\ UNCHANGED <<end, bestCompleteHyp, bf, multiContainer, sortedStacksMap, hypStateDict,
                       ready>>
    BY DEF Expand, stack
  <1>2. /\ phase = "expand" /\ expandedHyps = {} /\ hypsToExpand # <<>>
        /\ HypOK(Current) /\ Current.state \in DOMAIN hypStateDict
        /\ hypsToExpand' \in Seq(HypSet) /\ Len(hypsToExpand') <= I
        /\ \A i \in DOMAIN hypsToExpand' :
             HypOK(hypsToExpand'[i]) /\ hypsToExpand'[i].state \in DOMAIN hypStateDict
        /\ UNCHANGED <<breadthFirst, I, applyBestScorePruning, wordGraphEnabled, settled, state,
                       request, call, phase, iterNo, wordGraph>>
    BY <1>1, NextHypEffect
  <1>3. \A h \in expandedHyps' : HypOK(h) /\ Cov[pred'.state] < Cov[h.state]
    <2>1. PICK p : p = Current
      OBVIOUS
    <2>2. \A h \in Successors(p) : HypOK(h) /\ Cov[p.state] < Cov[h.state]
      BY <1>2, <2>1, SuccessorsOK DEF DecoderInv, ScalarTypes
    <2> QED BY <1>1, <2>1, <2>2
  <1>4. FlagTypes'
    BY <1>1, <1>2 DEF DecoderInv, FlagTypes
  <1>5. ScalarTypes'
    BY <1>1, <1>2 DEF DecoderInv, ScalarTypes
  <1>6. PhaseInv'
    BY <1>1, <1>2 DEF DecoderInv, PhaseInv
  <1>7. SearchInv'
    BY <1>1, <1>2, <1>3, HypsKept DEF DecoderInv, SearchInv, Locals, Stack!Live
  <1> QED BY <1>4, <1>5, <1>6, <1>7 DEF DecoderInv

(* The graph stays a record of its three parts. *)
LEMMA GraphRecord ==
  ASSUME NEW W, W = [arcs |-> W.arcs, finals |-> W.finals,
                     initialStateScore |-> W.initialStateScore], NEW F
  PROVE  [W EXCEPT !.finals = F] =
           [arcs |-> W.arcs, finals |-> F, initialStateScore |-> W.initialStateScore]
  OBVIOUS

(* ... and what extends it pushed, with an arc of the graph ... *)
LEMMA PushExpandedStep ==
  ASSUME DecoderInv, NEW h \in expandedHyps, PushExpanded(h)
  PROVE  DecoderInv'
  <1>1. /\ phase = "expand" /\ PushHyp(h) /\ AddArc(pred, h)
        /\ expandedHyps' = expandedHyps \ {h}
        /\ UNCHANGED <<breadthFirst, I, applyBestScorePruning, wordGraphEnabled, settled, state,
                       request, call, phase, hypsToExpand, pred, result, end, iterNo>>
    BY DEF PushExpanded, parameters, task
  <1>2. HypOK(h)
    BY <1>1, StepFacts
  <1>3. /\ DOMAIN multiContainer' = Stack!Classes /\ sortedStacksMap' \subseteq Stack!Classes
        /\ DOMAIN hypStateDict \subseteq DOMAIN hypStateDict'
        /\ \A n \in Stack!Live' : KeyOK(n.hyp) /\ n.hyp.state \in DOMAIN hypStateDict'
        /\ UNCHANGED <<bf, ready>>
        /\ \A b \in bestCompleteHyp' : HypTypeOK(b)
        /\ Cardinality(bestCompleteHyp') <= 1
    BY <1>1, <1>2, PushHypEffect DEF DecoderInv
  <1>4. wordGraph' = [arcs |-> wordGraph'.arcs, finals |-> wordGraph'.finals,
                      initialStateScore |-> wordGraph'.initialStateScore]
    <2>1. wordGraph = [arcs |-> wordGraph.arcs, finals |-> wordGraph.finals,
                       initialStateScore |-> wordGraph.initialStateScore]
      BY DEF DecoderInv, SearchInv
    <2>2. \/ wordGraph' = wordGraph
          \/ \E A, F, x : wordGraph' = [arcs |-> A, finals |-> F, initialStateScore |-> x]
      BY <1>1 DEF AddArc
    <2> QED BY <2>1, <2>2
  <1>5. FlagTypes'
    BY <1>1, <1>3 DEF DecoderInv, FlagTypes
  <1>6. ScalarTypes'
    BY <1>1, <1>3 DEF DecoderInv, ScalarTypes
  <1>7. PhaseInv'
    BY <1>1, <1>3 DEF DecoderInv, PhaseInv
  <1>8. SearchInv'
    BY <1>1, <1>3, <1>4, HypsKept DEF DecoderInv, SearchInv, Locals
  <1> QED BY <1>5, <1>6, <1>7, <1>8 DEF DecoderInv

(* The end of an iteration adds a final state, at most, to the graph. *)
LEMMA EndIterationEffect ==
  ASSUME DecoderInv, EndIteration
  PROVE  /\ phase = "expand" /\ expandedHyps = {} /\ hypsToExpand = <<>>
         /\ iterNo' = iterNo + 1
         /\ \/ iterNo' < MAX_NUM_OF_ITER /\ phase' = "select" /\ UNCHANGED wordGraph
            \/ phase' = "idle" /\ PostTransActions
         /\ UNCHANGED <<breadthFirst, I, applyBestScorePruning, wordGraphEnabled, settled, state,
                        request, call, hypsToExpand, pred, expandedHyps, result, end,
                        bestCompleteHyp, bf, multiContainer, sortedStacksMap, hypStateDict,
                        ready>>
         /\ wordGraph' = [arcs |-> wordGraph.arcs, finals |-> wordGraph'.finals,
                          initialStateScore |-> wordGraph.initialStateScore]
         /\ wordGraph.finals \subseteq wordGraph'.finals
  <1>1. /\ phase = "expand" /\ expandedHyps = {} /\ hypsToExpand = <<>>
        /\ iterNo' = iterNo + 1
        /\ IF end \/ iterNo' >= MAX_NUM_OF_ITER
           THEN phase' = "idle" /\ PostTransActions
           ELSE phase' = "select" /\ UNCHANGED wordGraph
        /\ UNCHANGED <<breadthFirst, I, applyBestScorePruning, wordGraphEnabled, settled, state,
                       request, call, hypsToExpand, pred, expandedHyps, result, end,
                       bestCompleteHyp, bf, multiContainer, sortedStacksMap, hypStateDict, ready>>
    BY DEF EndIteration, parameters, task, stack
  <1>2. iterNo \in Nat /\ MAX_NUM_OF_ITER \in Nat
    BY <1>1, StepFacts
  <1>3. ~(iterNo' >= MAX_NUM_OF_ITER) => iterNo' < MAX_NUM_OF_ITER
    BY <1>1, <1>2
  <1>4. wordGraph = [arcs |-> wordGraph.arcs, finals |-> wordGraph.finals,
                     initialStateScore |-> wordGraph.initialStateScore]
    BY DEF DecoderInv, SearchInv
  <1>5. \/ UNCHANGED wordGraph
        \/ \E F : /\ wordGraph' = [wordGraph EXCEPT !.finals = F]
                  /\ wordGraph.finals \subseteq F
    BY <1>1, <1>4 DEF PostTransActions
  <1>6. /\ wordGraph' = [arcs |-> wordGraph.arcs, finals |-> wordGraph'.finals,
                         initialStateScore |-> wordGraph.initialStateScore]
        /\ wordGraph.finals \subseteq wordGraph'.finals
    BY <1>4, <1>5, GraphRecord
  <1> QED BY <1>1, <1>3, <1>6

(* ... until all are dealt with. *)
LEMMA EndIterationStep ==
  ASSUME DecoderInv, EndIteration
  PROVE  DecoderInv'
  <1>1. /\ phase = "expand" /\ expandedHyps = {} /\ hypsToExpand = <<>>
        /\ iterNo' = iterNo + 1
        /\ (iterNo' < MAX_NUM_OF_ITER /\ phase' = "select") \/ phase' = "idle"
        /\ UNCHANGED <<breadthFirst, I, applyBestScorePruning, wordGraphEnabled, settled, state,
                       request, call, hypsToExpand, pred, expandedHyps, result, end,
                       bestCompleteHyp, bf, multiContainer, sortedStacksMap, hypStateDict, ready>>
        /\ wordGraph' = [arcs |-> wordGraph.arcs, finals |-> wordGraph'.finals,
                         initialStateScore |-> wordGraph.initialStateScore]
    BY EndIterationEffect
  <1>2. /\ iterNo \in Nat /\ MAX_NUM_OF_ITER \in Nat /\ iterNo < MAX_NUM_OF_ITER
        /\ settled /\ call # "none" /\ state # "IDLE"
    BY <1>1, StepFacts
  <1>3. iterNo' \in 1 .. MAX_NUM_OF_ITER
    BY <1>1, <1>2
  <1>4. FlagTypes'
    BY <1>1 DEF DecoderInv, FlagTypes
  <1>5. ScalarTypes'
    BY <1>1, <1>3 DEF DecoderInv, ScalarTypes
  <1>6. PhaseInv'
    BY <1>1, <1>2 DEF DecoderInv, PhaseInv
  <1>7. SearchInv'
    <2>1. wordGraph' = [arcs |-> wordGraph'.arcs, finals |-> wordGraph'.finals,
                        initialStateScore |-> wordGraph'.initialStateScore]
      BY <1>1
    <2> QED BY <1>1, <2>1, HypsKept DEF DecoderInv, SearchInv, Locals, Stack!Live
  <1> QED BY <1>4, <1>5, <1>6, <1>7 DEF DecoderInv

(* Every step keeps the invariant. *)
LEMMA DecoderStep ==
  ASSUME DecoderInv, [Next]_vars
  PROVE  DecoderInv'
  <1>1. ASSUME NEW r \in Requests, Translate(r)
        PROVE  DecoderInv'
    BY <1>1, TranslateStep
  <1>2. CASE GetNextTrans
    BY <1>2, GetNextTransStep
  <1>3. CASE Clear
    BY <1>3, ClearStep
  <1>4. ASSUME NEW n \in StackSizes, SetS(n)
        PROVE  DecoderInv'
    <2>1. /\ SetParameter
          /\ UNCHANGED <<breadthFirst, I, applyBestScorePruning, wordGraphEnabled, bf,
                         multiContainer, sortedStacksMap, hypStateDict>>
      BY <1>4 DEF SetS, Stack!SetMaxStackSize, Stack!stacks
    <2> QED BY <2>1, ParameterStep DEF DecoderInv, FlagTypes, ScalarTypes
  <1>5. ASSUME NEW n \in Expansions, SetI(n)
        PROVE  DecoderInv'
    BY <1>5, ParameterStep DEF SetI, stack, DecoderInv, FlagTypes, ScalarTypes
  <1>6. ASSUME NEW b \in BOOLEAN, SetBreadthFirst(b)
        PROVE  DecoderInv'
    BY <1>6, ParameterStep DEF SetBreadthFirst, stack, DecoderInv, FlagTypes, ScalarTypes
  <1>7. ASSUME NEW b \in BOOLEAN, UseBestScorePruning(b)
        PROVE  DecoderInv'
    BY <1>7, ParameterStep DEF UseBestScorePruning, stack, DecoderInv, FlagTypes, ScalarTypes
  <1>8. ASSUME NEW b \in BOOLEAN, EnableWordGraph(b)
        PROVE  DecoderInv'
    BY <1>8, ParameterStep DEF EnableWordGraph, stack, DecoderInv, FlagTypes, ScalarTypes
  <1>9. CASE Step
    BY <1>9, SuggestStep, SelectStep, BeginIterationStep, TakeCompleteStep, ReturnCompleteStep,
       ExpandStep, PushExpandedStep, EndIterationStep DEF Step
  <1>10. CASE UNCHANGED vars
    <2>1. UNCHANGED <<breadthFirst, I, applyBestScorePruning, wordGraphEnabled, settled, state,
                      request, call, phase, hypsToExpand, pred, expandedHyps, result, end,
                      iterNo, bestCompleteHyp, wordGraph, bf, multiContainer, sortedStacksMap,
                      hypStateDict, ready>>
      BY <1>10 DEF vars, parameters, task, locals, stack
    <2>2. FlagTypes' /\ PhaseInv'
      BY <2>1 DEF DecoderInv, FlagTypes, PhaseInv
    <2>3. ScalarTypes'
      BY <2>1 DEF DecoderInv, ScalarTypes
    <2>4. SearchInv'
      BY <2>1, HypsKept DEF DecoderInv, SearchInv, Locals, Stack!Live
    <2> QED BY <2>2, <2>3, <2>4 DEF DecoderInv
  <1> QED BY <1>1, <1>2, <1>3, <1>4, <1>5, <1>6, <1>7, <1>8, <1>9, <1>10 DEF Next

(* What a search pops, expands and pushes are hypotheses of its request, whose
   states the dictionary has; a call runs with its parameters settled. *)
THEOREM DecoderInvariance == Spec => []DecoderInv
  <1>1. Init => DecoderInv
    BY DecoderInit
  <1>2. DecoderInv /\ [Next]_vars => DecoderInv'
    BY DecoderStep
  <1> QED BY <1>1, <1>2, PTL DEF Spec

(* The types of the decoder; an iteration never expands more than I
   hypotheses. *)
THEOREM DecoderTypes == Spec => []TypeOK
  BY DecoderInvariance, TypesFollow, PTL

-----------------------------------------------------------------------------
(* The word graph.                                                         *)

(* A path stays in a graph that grows, and the score of the initial state
   changes only before there is one. *)
LEMMA ChartedStays ==
  ASSUME request \in Requests, UNCHANGED <<request, breadthFirst>>,
         wordGraph.arcs \subseteq wordGraph'.arcs, wordGraph.finals \subseteq wordGraph'.finals,
         \/ wordGraph'.initialStateScore = wordGraph.initialStateScore
         \/ wordGraph'.initialStateScore = request.heur[request.root]
  PROVE  /\ \A h \in HypSet : Charted(h) => Charted(h)'
         /\ \A k : Restored(k)' = Restored(k)
  <1>1. ASSUME NEW h \in HypSet, Charted(h)
        PROVE  Charted(h)'
    <2> SUFFICES ASSUME h.state # request.root
                 PROVE  Charted(h)'
      BY DEF Charted
    <2>1. /\ wordGraph.initialStateScore = request.heur[request.root]
          /\ [state |-> h.state, score |-> WithHeuristic(h).score]
               \in PathTable(wordGraph, request.root, request.words)[Cov[h.state]]
          /\ Complete(h) => h.state \in wordGraph.finals
      BY <1>1 DEF Charted
    <2>2. wordGraph'.initialStateScore = wordGraph.initialStateScore
      BY <2>1
    <2>3. Cov[h.state] \in 0 .. request.words /\ request.words \in Nat
      BY HypParts, StateFacts
    <2>4. PICK W : W = wordGraph
      OBVIOUS
    <2>5. PICK V : V = wordGraph'
      OBVIOUS
    <2>6. PICK k : k = Cov[h.state]
      OBVIOUS
    <2>7. PathTable(W, request.root, request.words)[k]
            \subseteq PathTable(V, request.root, request.words)[k]
      BY <2>2, <2>3, <2>4, <2>5, <2>6, TableOfLargerGraph
    <2>8. WithHeuristic(h)' = WithHeuristic(h) /\ (Complete(h)' <=> Complete(h))
      BY DEF WithHeuristic, Complete
    <2> QED BY <2>1, <2>2, <2>4, <2>5, <2>6, <2>7, <2>8 DEF Charted
  <1>2. \A k : Restored(k)' = Restored(k)
    BY DEF Restored, G
  <1> QED BY <1>1, <1>2

(* The hypothesis at the root needs no path. *)
LEMMA RootCharted ==
  /\ \A h : h.state = request.root => Charted(h)
  /\ Charted(NullHyp(request))
  BY DEF Charted, NullHyp

(* The arc from a hypothesis that the graph holds to one that extends it. *)
LEMMA ArcCharts ==
  ASSUME request \in Requests, NEW p, HypOK(p), NEW h, HypOK(h), Charted(p),
         Cov[p.state] < Cov[h.state], UNCHANGED request, wordGraphEnabled,
         {p.state, h.state} \subseteq DOMAIN hypStateDict', AddArc(p, h)
  PROVE  /\ Charted(h)'
         /\ wordGraph.arcs \subseteq wordGraph'.arcs /\ wordGraph.finals \subseteq wordGraph'.finals
         /\ \/ wordGraph'.initialStateScore = wordGraph.initialStateScore
            \/ wordGraph'.initialStateScore = request.heur[request.root]
  <1>1. /\ p \in HypSet /\ p.state \in RequestStates /\ p.score \in Int
        /\ Cov[p.state] \in 0 .. request.words /\ request.heur[p.state] \in Int
        /\ h \in HypSet /\ h.state \in RequestStates /\ h.score \in Int
        /\ Cov[h.state] \in 0 .. request.words /\ request.heur[h.state] \in Int
        /\ request.words \in Nat /\ Cov[request.root] = 0
    BY HypParts, StateFacts DEF HypOK
  <1>2. /\ WithHeuristic(p).score = p.score + request.heur[p.state]
        /\ WithHeuristic(h).score = h.score + request.heur[h.state]
    BY <1>1 DEF WithHeuristic, HypSet
  <1>3. PICK V : V = wordGraph'
    OBVIOUS
  <1>4. /\ V.arcs = wordGraph.arcs \cup {Arc(p, h)}
        /\ V.finals = wordGraph.finals \cup (IF Complete(h) THEN {h.state} ELSE {})
        /\ V.initialStateScore = IF p.state = request.root THEN WithHeuristic(p).score
                                 ELSE wordGraph.initialStateScore
    BY <1>3 DEF AddArc
  <1>5. p.state = request.root => WithHeuristic(p).score = request.heur[request.root]
    <2>1. p.state = request.root => p.score = 0
      BY DEF HypOK, NullHyp
    <2> QED BY <1>1, <1>2, <2>1
  <1>6. V.initialStateScore = request.heur[request.root]
    BY <1>4, <1>5 DEF Charted
  <1>7. PICK j, k, root, n : j = Cov[p.state] /\ k = Cov[h.state] /\ root = request.root /\ n = request.words
    OBVIOUS
  <1>8. n \in Nat /\ j \in 0 .. n /\ k \in j + 1 .. n
    BY <1>1, <1>7
  <1>9. [state |-> p.state, score |-> WithHeuristic(p).score] \in PathTable(V, root, n)[j]
    <2>1. CASE p.state = root
      <3>1. j = 0 /\ WithHeuristic(p).score = V.initialStateScore
        BY <1>1, <1>5, <1>6, <1>7, <2>1
      <3>2. PathTable(V, root, n)[0] = {[state |-> root, score |-> V.initialStateScore]}
        BY <1>8, TableEntries
      <3> QED BY <2>1, <3>1, <3>2
    <2>2. CASE p.state # root
      <3>1. /\ wordGraph.initialStateScore = V.initialStateScore
            /\ [state |-> p.state, score |-> WithHeuristic(p).score]
                 \in PathTable(wordGraph, root, n)[j]
        BY <1>6, <1>7, <2>2 DEF Charted
      <3>2. PICK W : W = wordGraph
        OBVIOUS
      <3>3. PathTable(W, root, n)[j] \subseteq PathTable(V, root, n)[j]
        BY <1>4, <1>8, <3>1, <3>2, TableOfLargerGraph
      <3> QED BY <3>1, <3>2, <3>3
    <2> QED BY <2>1, <2>2
  <1>10. PICK a, x : a = Arc(p, h) /\ x = WithHeuristic(p).score
    OBVIOUS
  <1>11. a \in V.arcs /\ a.from = p.state /\ a.to = h.state
         /\ x + a.score = WithHeuristic(h).score
    BY <1>1, <1>2, <1>4, <1>10 DEF Arc
  <1>12. [state |-> h.state, score |-> WithHeuristic(h).score] \in PathTable(V, root, n)[k]
    <2>1. [state |-> a.from, score |-> x] \in PathTable(V, root, n)[j]
      BY <1>9, <1>10, <1>11
    <2>2. [state |-> a.to, score |-> x + a.score] \in PathTable(V, root, n)[k]
      BY <1>8, <1>11, <2>1, PathExtended
    <2> QED BY <1>11, <2>2
  <1>13. WithHeuristic(h)' = WithHeuristic(h) /\ (Complete(h)' <=> Complete(h))
    BY DEF WithHeuristic, Complete
  <1>14. Charted(h)'
    BY <1>3, <1>4, <1>6, <1>7, <1>12, <1>13 DEF Charted
  <1> QED BY <1>3, <1>4, <1>6, <1>14

(* The graph is what the search of a request begins with. *)
LEMMA GraphInit ==
  ASSUME Init
  PROVE  GraphInv
  BY DEF Init, GraphInv

(* The parts of the invariant while the call goes on. *)
LEMMA GraphPartsKept ==
  ASSUME DecoderInv, GraphInv,
         UNCHANGED <<request, breadthFirst, wordGraphEnabled, settled, call, wordGraph>>
  PROVE  /\ \A h : Charted(h)' <=> Charted(h)
         /\ \A k : Restored(k)' = Restored(k)
         /\ settled' /\ wordGraphEnabled' =>
              /\ \A n \in Stack!Live : Charted(Restored(n.hyp))
              /\ call' # "none" => /\ Charted(pred) /\ Charted(result)
                                   /\ \A i \in DOMAIN hypsToExpand : Charted(hypsToExpand[i])
  <1>1. \A h : Charted(h)' <=> Charted(h)
    BY DEF Charted, WithHeuristic, Complete
  <1>2. \A k : Restored(k)' = Restored(k)
    BY DEF Restored, G
  <1> QED BY <1>1, <1>2 DEF GraphInv

(* A new search has an empty graph; a search that goes on keeps its own. *)
LEMMA GraphCallStep ==
  ASSUME DecoderInv, GraphInv,
         (\E r \in Requests : Translate(r)) \/ GetNextTrans \/ Clear
  PROVE  GraphInv'
  <1>1. ASSUME NEW r \in Requests, Translate(r)
        PROVE  GraphInv'
    <2>1. /\ Stack!Live' = {} /\ hypsToExpand' = <<>> /\ request' = r
          /\ pred' = NullHyp(r) /\ result' = NullHyp(r)
          /\ phase' = "suggest" \/ state' = "IDLE"
      BY <1>1, ClearEffect DEF Translate, StartDecode
    <2>2. Charted(pred)' /\ Charted(result)'
      BY <2>1 DEF Charted, NullHyp
    <2> QED BY <2>1, <2>2 DEF GraphInv, Translated
  <1>2. CASE GetNextTrans
    <2>1. /\ UNCHANGED <<request, breadthFirst, wordGraphEnabled, settled, wordGraph,
                         multiContainer>>
          /\ hypsToExpand' = <<>> /\ pred' = NullHyp(request) /\ result' = NullHyp(request)
          /\ call' = "getNextTrans"
      BY <1>2 DEF GetNextTrans, StartDecode, parameters, stack
    <2>2. Charted(pred)' /\ Charted(result)'
      BY <2>1 DEF Charted, NullHyp
    <2>3. /\ \A h : Charted(h)' <=> Charted(h)
          /\ \A k : Restored(k)' = Restored(k)
      BY <2>1 DEF Charted, WithHeuristic, Complete, Restored, G
    <2>4. Stack!Live' = Stack!Live
      BY <2>1 DEF Stack!Live
    <2> QED BY <2>1, <2>2, <2>3, <2>4 DEF GraphInv, Translated
  <1>3. CASE Clear
    <2>1. Stack!Live' = {} /\ call' = "none"
      BY <1>3, ClearEffect DEF Clear
    <2> QED BY <2>1 DEF GraphInv, Translated
  <1> QED BY <1>1, <1>2, <1>3

(* A hypothesis that the graph holds is pushed. *)
LEMMA ChartedPush ==
  ASSUME DecoderInv, GraphInv, settled, wordGraphEnabled, NEW h, HypOK(h), Charted(h), PushHyp(h)
  PROVE  \A n \in Stack!Live' : Charted(Restored(n.hyp))
  <1>1. request \in Requests
    BY DEF DecoderInv, ScalarTypes
  <1>2. \A n \in Stack!Live' : n \in Stack!Live \/ n.hyp = Stored(h)
    BY PushHypEffect DEF DecoderInv
  <1>3. Restored(Stored(h)) = h
    BY <1>1, StoredRestored
  <1>4. \A n \in Stack!Live : Charted(Restored(n.hyp))
    BY DEF GraphInv
  <1> QED BY <1>2, <1>3, <1>4

(* Whatever is selected, expanded, found or pushed again is in the graph. *)
LEMMA GraphSearchStep ==
  ASSUME DecoderInv, GraphInv,
         SuggestNullHyp \/ Select \/ BeginIteration \/ TakeComplete \/ ReturnComplete \/ Expand
  PROVE  GraphInv'
  <1>1. CASE SuggestNullHyp
    <2>1. /\ phase = "suggest" /\ phase' = "select" /\ PushHyp(NullHyp(request))
          /\ UNCHANGED <<request, breadthFirst, wordGraphEnabled, settled, call, wordGraph,
                         hypsToExpand, pred, result>>
      BY <1>1 DEF SuggestNullHyp, parameters, task, locals
    <2>2. HypOK(NullHyp(request)) /\ Charted(NullHyp(request))
      BY NullHypOK, RootCharted DEF DecoderInv, ScalarTypes
    <2>3. settled /\ wordGraphEnabled => \A n \in Stack!Live' : Charted(Restored(n.hyp))
      BY <2>1, <2>2, ChartedPush
    <2> QED BY <2>1, <2>3, GraphPartsKept DEF GraphInv, Translated
  <1>2. CASE Select
    <2>1. /\ phase = "select"
          /\ UNCHANGED <<request, breadthFirst, wordGraphEnabled, settled, call, wordGraph,
                         phase, pred, result>>
          /\ \A m \in Stack!Live' : m \in Stack!Live
      BY <1>2, SelectEffect
    <2>2. PICK n \in Stack!Live : hypsToExpand' = Append(hypsToExpand, Restored(n.hyp))
      BY <1>2, SelectEffect
    <2>3. PICK h : h = Restored(n.hyp)
      OBVIOUS
    <2>4. h \in HypSet
      BY <2>2, <2>3, RestoredOK DEF DecoderInv, ScalarTypes, SearchInv, HypOK
    <2>5. \A i \in DOMAIN hypsToExpand' : \/ /\ i \in DOMAIN hypsToExpand
                                            /\ hypsToExpand'[i] = hypsToExpand[i]
                                         \/ hypsToExpand'[i] = h
      BY <2>2, <2>3, <2>4, QueueFacts
    <2>6. settled /\ wordGraphEnabled /\ call # "none" =>
            \A i \in DOMAIN hypsToExpand' : Charted(hypsToExpand'[i])
      BY <2>2, <2>3, <2>5 DEF GraphInv
    <2> QED BY <2>1, <2>6, GraphPartsKept DEF GraphInv, Translated
  <1>3. CASE BeginIteration
    <2>1. /\ phase' = "expand"
          /\ UNCHANGED <<request, breadthFirst, wordGraphEnabled, settled, call, wordGraph,
                         hypsToExpand, pred, result, multiContainer>>
      BY <1>3 DEF BeginIteration, parameters, task, stack
    <2>2. Stack!Live' = Stack!Live
      BY <2>1 DEF Stack!Live
    <2> QED BY <2>1, <2>2, GraphPartsKept DEF GraphInv, Translated
  <1>4. ASSUME NextHyp
        PROVE  /\ phase' = "expand" /\ HypOK(Current)
               /\ UNCHANGED <<request, breadthFirst, wordGraphEnabled, settled, call, wordGraph>>
               /\ settled /\ wordGraphEnabled =>
                    /\ Charted(Current) /\ Charted(pred) /\ Charted(result)
                    /\ \A i \in DOMAIN hypsToExpand' : Charted(hypsToExpand'[i])
    <2>1. /\ phase = "expand" /\ hypsToExpand # <<>> /\ HypOK(Current)
          /\ UNCHANGED <<request, breadthFirst, wordGraphEnabled, settled, call, phase, wordGraph>>
      BY <1>4, NextHypEffect
    <2>2. hypsToExpand' = Tail(hypsToExpand) /\ call # "none"
      BY <1>4, <2>1, StepFacts DEF NextHyp
    <2>3. /\ \A i \in DOMAIN Tail(hypsToExpand) : \E j \in DOMAIN hypsToExpand :
               Tail(hypsToExpand)[i] = hypsToExpand[j]
          /\ \E j \in DOMAIN hypsToExpand : Current = hypsToExpand[j]
      BY <2>1, QueueFacts
    <2>4. settled /\ wordGraphEnabled =>
            /\ Charted(pred) /\ Charted(result)
            /\ \A j \in DOMAIN hypsToExpand : Charted(hypsToExpand[j])
      BY <2>2 DEF GraphInv
    <2> QED BY <2>1, <2>2, <2>3, <2>4
  <1>5. CASE TakeComplete
    <2>1. NextHyp /\ result' = Current /\ UNCHANGED <<pred, multiContainer>>
      BY <1>5 DEF TakeComplete, stack
    <2>2. Stack!Live' = Stack!Live
      BY <2>1 DEF Stack!Live
    <2> QED BY <1>4, <2>1, <2>2, GraphPartsKept DEF GraphInv, Translated
  <1>6. CASE ReturnComplete
    <2>1. NextHyp /\ PushHyp(Current) /\ UNCHANGED <<pred, result>>
      BY <1>6 DEF ReturnComplete
    <2>2. PICK h : h = Current
      OBVIOUS
    <2>3. settled /\ wordGraphEnabled => \A n \in Stack!Live' : Charted(Restored(n.hyp))
      BY <1>4, <2>1, <2>2, ChartedPush
    <2> QED BY <1>4, <2>1, <2>3, GraphPartsKept DEF GraphInv, Translated
  <1>7. CASE Expand
    <2>1. /\ NextHyp /\ pred' = Current /\ (result' = Current \/ result' = result)
          /\ UNCHANGED multiContainer
      BY <1>7 DEF Expand, stack
    <2>2. Stack!Live' = Stack!Live
      BY <2>1 DEF Stack!Live
    <2> QED BY <1>4, <2>1, <2>2, GraphPartsKept DEF GraphInv, Translated
  <1> QED BY <1>1, <1>2, <1>3, <1>5, <1>6, <1>7

(* What is stored gets its arc in the same step. *)
LEMMA GraphPushStep ==
  ASSUME DecoderInv, GraphInv, NEW h \in expandedHyps, PushExpanded(h)
  PROVE  GraphInv'
  <1>1. /\ phase = "expand" /\ phase' = "expand" /\ PushHyp(h) /\ AddArc(pred, h)
        /\ UNCHANGED <<request, breadthFirst, wordGraphEnabled, settled, call, hypsToExpand,
                       pred, result>>
    BY DEF PushExpanded, parameters, task
  <1>2. /\ request \in Requests /\ HypOK(pred) /\ HypOK(result) /\ HypOK(h)
        /\ hypsToExpand \in Seq(HypSet) /\ call # "none"
    BY <1>1, StepFacts
  <1>3. /\ Cov[pred.state] < Cov[h.state] /\ pred.state \in DOMAIN hypStateDict
        /\ \A n \in Stack!Live : KeyOK(n.hyp)
    BY DEF DecoderInv, SearchInv
  <1>4. /\ \A n \in Stack!Live' :
             n \in Stack!Live \/ (n.hyp = Stored(h) /\ h.state \in DOMAIN hypStateDict')
        /\ DOMAIN hypStateDict \subseteq DOMAIN hypStateDict'
    BY <1>1, <1>2, PushHypEffect DEF DecoderInv
  <1> SUFFICES ASSUME settled', wordGraphEnabled'
               PROVE  /\ \A n \in Stack!Live' : Charted(Restored(n.hyp))'
                      /\ Charted(pred)' /\ Charted(result)'
                      /\ \A i \in DOMAIN hypsToExpand' : Charted(hypsToExpand[i])'
    BY <1>1 DEF GraphInv, Translated
  <1>5. /\ \A n \in Stack!Live : Charted(Restored(n.hyp))
        /\ Charted(pred) /\ Charted(result)
        /\ \A i \in DOMAIN hypsToExpand : Charted(hypsToExpand[i])
    BY <1>1, <1>2 DEF GraphInv
  <1>6. PICK p : p = pred
    OBVIOUS
  <1>7. PICK q : q = result
    OBVIOUS
  <1>8. /\ h.state \in DOMAIN hypStateDict' => Charted(h)'
        /\ wordGraph.arcs \subseteq wordGraph'.arcs /\ wordGraph.finals \subseteq wordGraph'.finals
        /\ \/ wordGraph'.initialStateScore = wordGraph.initialStateScore
           \/ wordGraph'.initialStateScore = request.heur[request.root]
    <2>1. CASE h.state \in DOMAIN hypStateDict'
      <3>1. {p.state, h.state} \subseteq DOMAIN hypStateDict'
        BY <1>3, <1>4, <1>6, <2>1
      <3> QED BY <1>1, <1>2, <1>3, <1>5, <1>6, <3>1, ArcCharts
    <2>2. CASE h.state \notin DOMAIN hypStateDict'
      <3>1. wordGraph' = wordGraph
        BY <1>1, <2>2 DEF AddArc
      <3> QED BY <2>2, <3>1
    <2> QED BY <2>1, <2>2
  <1>9. /\ \A g \in HypSet : Charted(g) => Charted(g)'
        /\ \A k : Restored(k)' = Restored(k)
    BY <1>1, <1>2, <1>8, ChartedStays
  <1>10. Charted(p)' /\ Charted(q)'
    BY <1>2, <1>5, <1>6, <1>7, <1>9 DEF HypOK
  <1>11. \A i \in DOMAIN hypsToExpand' : Charted(hypsToExpand[i])'
    <2>1. PICK s : s = hypsToExpand
      OBVIOUS
    <2>2. \A i \in DOMAIN s : s[i] \in HypSet
      BY <1>2, <2>1
    <2>3. \A i \in DOMAIN s : Charted(s[i])'
      BY <1>5, <1>9, <2>1, <2>2
    <2> QED BY <1>1, <2>1, <2>3
  <1>12. ASSUME NEW n \in Stack!Live'
         PROVE  Charted(Restored(n.hyp))'
    <2>1. CASE n \in Stack!Live
      <3>1. Restored(n.hyp) \in HypSet
        BY <1>2, <1>3, <2>1, RestoredOK DEF HypOK
      <3>2. PICK g : g = Restored(n.hyp)
        OBVIOUS
      <3>3. Charted(g)'
        BY <1>5, <1>9, <2>1, <3>1, <3>2
      <3> QED BY <1>9, <3>2, <3>3
    <2>2. CASE n \notin Stack!Live
      <3>1. n.hyp = Stored(h) /\ Charted(h)'
        BY <1>4, <1>8, <2>2
      <3>2. Restored(n.hyp) = h
        BY <1>2, <3>1, StoredRestored
      <3> QED BY <1>9, <3>1, <3>2
    <2> QED BY <2>1, <2>2
  <1> QED BY <1>1, <1>6, <1>7, <1>10, <1>11, <1>12

(* A translation that is returned incomplete has made a state final. *)
LEMMA GraphEndStep ==
  ASSUME DecoderInv, GraphInv, EndIteration
  PROVE  GraphInv'
  <1>1. /\ phase = "expand"
        /\ \/ iterNo' < MAX_NUM_OF_ITER /\ phase' = "select" /\ UNCHANGED wordGraph
           \/ phase' = "idle" /\ PostTransActions
        /\ UNCHANGED <<request, breadthFirst, wordGraphEnabled, settled, state, call,
                       hypsToExpand, pred, result, multiContainer>>
        /\ wordGraph' = [arcs |-> wordGraph.arcs, finals |-> wordGraph'.finals,
                         initialStateScore |-> wordGraph.initialStateScore]
        /\ wordGraph.finals \subseteq wordGraph'.finals
    BY EndIterationEffect
  <1>2. /\ request \in Requests /\ HypOK(pred) /\ HypOK(result)
        /\ hypsToExpand \in Seq(HypSet)
    BY <1>1, StepFacts
  <1>3. /\ wordGraph.arcs \subseteq wordGraph'.arcs
        /\ wordGraph'.initialStateScore = wordGraph.initialStateScore
    BY <1>1
  <1>4. /\ \A g \in HypSet : Charted(g) => Charted(g)'
        /\ \A k : Restored(k)' = Restored(k)
    BY <1>1, <1>2, <1>3, ChartedStays
  <1>5. \A n \in Stack!Live : KeyOK(n.hyp) /\ Restored(n.hyp) \in HypSet
    BY <1>2, RestoredOK DEF DecoderInv, SearchInv, HypOK
  <1>6. Stack!Live' = Stack!Live
    BY <1>1 DEF Stack!Live
  <1> SUFFICES ASSUME settled', wordGraphEnabled'
               PROVE  /\ \A n \in Stack!Live' : Charted(Restored(n.hyp))'
                      /\ call # "none" =>
                           /\ Charted(pred)' /\ Charted(result)'
                           /\ \A i \in DOMAIN hypsToExpand' : Charted(hypsToExpand[i])'
                      /\ (Translated /\ state = "TRANS" /\ ~Complete(result))'
                           => wordGraph'.finals # {}
    BY <1>1 DEF GraphInv
  <1>7. \A n \in Stack!Live' : Charted(Restored(n.hyp))'
    <2>1. ASSUME NEW n \in Stack!Live
          PROVE  Charted(Restored(n.hyp))'
      <3>1. PICK g : g = Restored(n.hyp)
        OBVIOUS
      <3>2. Charted(g)
        BY <1>1, <3>1 DEF GraphInv
      <3>3. Charted(g)'
        BY <1>4, <1>5, <3>1, <3>2
      <3> QED BY <1>4, <3>1, <3>3
    <2> QED BY <1>6, <2>1
  <1>8. ASSUME call # "none"
        PROVE  /\ Charted(pred)' /\ Charted(result)'
               /\ \A i \in DOMAIN hypsToExpand' : Charted(hypsToExpand[i])'
    <2>1. PICK p : p = pred
      OBVIOUS
    <2>2. PICK q : q = result
      OBVIOUS
    <2>3. PICK s : s = hypsToExpand
      OBVIOUS
    <2>4. Charted(p) /\ Charted(q) /\ \A i \in DOMAIN s : Charted(s[i])
      BY <1>1, <1>8, <2>1, <2>2, <2>3 DEF GraphInv
    <2>5. p \in HypSet /\ q \in HypSet /\ \A i \in DOMAIN s : s[i] \in HypSet
      BY <1>2, <2>1, <2>2, <2>3 DEF HypOK
    <2>6. Charted(p)' /\ Charted(q)' /\ \A i \in DOMAIN s : Charted(s[i])'
      BY <1>4, <2>4, <2>5
    <2> QED BY <1>1, <2>1, <2>2, <2>3, <2>6
  <1>9. ASSUME (Translated /\ state = "TRANS" /\ ~Complete(result))'
        PROVE  wordGraph'.finals # {}
    <2>1. PostTransActions /\ call = "translate" /\ state = "TRANS" /\ ~Complete(result)
      BY <1>1, <1>9 DEF Translated, Complete
    <2>2. PICK x : wordGraph' = [wordGraph EXCEPT !.finals = @ \cup {x}]
      BY <2>1 DEF PostTransActions
    <2>3. wordGraph'.finals = wordGraph.finals \cup {x}
      BY <2>2 DEF DecoderInv, SearchInv
    <2> QED BY <2>3
  <1> QED BY <1>7, <1>8, <1>9

(* Every step keeps the graph complete.  A parameter that is set releases it:
   the graph is again what the parameters say after the next clear. *)
LEMMA GraphStep ==
  ASSUME DecoderInv, GraphInv, [Next]_vars
  PROVE  GraphInv'
  <1>1. CASE (\E r \in Requests : Translate(r)) \/ GetNextTrans \/ Clear
    BY <1>1, GraphCallStep
  <1>2. CASE \/ \E n \in StackSizes : SetS(n)
             \/ \E n \in Expansions : SetI(n)
             \/ \E b \in BOOLEAN : SetBreadthFirst(b) \/ UseBestScorePruning(b) \/ EnableWordGraph(b)
    <2>1. settled' = FALSE
      BY <1>2 DEF SetS, SetI, SetBreadthFirst, UseBestScorePruning, EnableWordGraph, SetParameter
    <2> QED BY <2>1 DEF GraphInv
  <1>3. CASE Step
    BY <1>3, GraphSearchStep, GraphPushStep, GraphEndStep DEF Step
  <1>4. CASE UNCHANGED vars
    <2>1. UNCHANGED <<request, breadthFirst, wordGraphEnabled, settled, state, call, phase,
                      wordGraph, pred, result, hypsToExpand, multiContainer>>
      BY <1>4 DEF vars, parameters, task, locals, stack
    <2>2. Stack!Live' = Stack!Live
      BY <2>1 DEF Stack!Live
    <2>3. /\ \A h : Charted(h)' <=> Charted(h)
          /\ \A k : Restored(k)' = Restored(k)
      BY <2>1 DEF Charted, WithHeuristic, Complete, Restored, G
    <2> QED BY <2>1, <2>2, <2>3 DEF GraphInv, Translated, Complete
  <1> QED BY <1>1, <1>2, <1>3, <1>4 DEF Next

(* A path that is as long as its state covers words is one of the graph. *)
LEMMA ChartedIsPath ==
  ASSUME DecoderInv, NEW h, HypOK(h), Charted(h), h.state # request.root
  PROVE  [state |-> h.state, score |-> WithHeuristic(h).score] \in GraphPaths
  <1>1. h \in HypSet /\ request \in Requests
    BY DEF HypOK, DecoderInv, ScalarTypes
  <1>2. request.words \in Nat /\ Cov[h.state] \in 0 .. request.words
    BY <1>1, HypParts, StateFacts
  <1>3. PICK W, root, n, k : /\ W = wordGraph /\ root = request.root
                             /\ n = request.words /\ k = Cov[h.state]
    OBVIOUS
  <1>4. PathTable(W, root, n)[k] \subseteq PathTable(W, root, n)[n]
    BY <1>2, <1>3, TableGrows
  <1>5. [state |-> h.state, score |-> WithHeuristic(h).score] \in PathTable(W, root, n)[k]
    BY <1>3 DEF Charted
  <1> QED BY <1>3, <1>4, <1>5, GraphPathsTable

(* What the invariant says of the graph is what its users need. *)
LEMMA GraphFollows ==
  ASSUME DecoderInv, GraphInv
  PROVE  GraphHoldsSearch
  <1> SUFFICES ASSUME settled, wordGraphEnabled
               PROVE  GraphHoldsSearch
    BY DEF GraphHoldsSearch
  <1>1. request \in Requests
    BY DEF DecoderInv, ScalarTypes
  <1>2. ASSUME NEW n \in Stack!Live, n.hyp.state # request.root
        PROVE  [state |-> n.hyp.state, score |-> n.hyp.score - G(n.hyp)] \in GraphPaths
    <2>1. KeyOK(n.hyp) /\ n.hyp \in HypSet
      BY DEF DecoderInv, SearchInv, KeyOK
    <2>2. PICK h : h = Restored(n.hyp)
      OBVIOUS
    <2>3. /\ HypOK(h) /\ h \in HypSet /\ h.state = n.hyp.state
          /\ h.score = n.hyp.score - G(n.hyp) - request.heur[n.hyp.state]
      BY <1>1, <2>1, <2>2, RestoredOK DEF HypOK
    <2>4. Charted(h)
      BY <2>2 DEF GraphInv
    <2>5. [state |-> h.state, score |-> WithHeuristic(h).score] \in GraphPaths
      BY <1>2, <2>3, <2>4, ChartedIsPath
    <2>6. WithHeuristic(h).score = h.score + request.heur[h.state]
      BY <2>3 DEF WithHeuristic, HypSet
    <2>7. n.hyp.score \in Int /\ G(n.hyp) \in Int /\ request.heur[n.hyp.state] \in Int
      BY <1>1, <2>1, HypParts
    <2>8. WithHeuristic(h).score = n.hyp.score - G(n.hyp)
      BY <2>3, <2>6, <2>7
    <2> QED BY <2>3, <2>5, <2>8
  <1>3. ASSUME Translated, Complete(result)
        PROVE  /\ result.state \in wordGraph.finals
               /\ [state |-> result.state, score |-> WithHeuristic(result).score] \in GraphPaths
    <2>1. HypOK(result) /\ request.words > 0
      BY <1>3 DEF DecoderInv, SearchInv, Locals, PhaseInv, Translated
    <2>2. Charted(result)
      BY <1>3 DEF GraphInv, Translated
    <2>3. result.state # request.root
      BY <1>1, <1>3, <2>1, StateFacts DEF Complete
    <2>4. PICK h : h = result
      OBVIOUS
    <2>5. [state |-> h.state, score |-> WithHeuristic(h).score] \in GraphPaths
      BY <2>1, <2>2, <2>3, <2>4, ChartedIsPath
    <2> QED BY <1>3, <2>2, <2>3, <2>4, <2>5 DEF Charted
  <1>4. Translated /\ state = "TRANS" /\ ~Complete(result) => wordGraph.finals # {}
    BY DEF GraphInv
  <1> QED BY <1>2, <1>3, <1>4 DEF GraphHoldsSearch

(* The word graph holds every hypothesis of the search, with its score, and
   the state of the result is one of its final states; whatever the pruning
   discards, the order of the search, and the calls before. *)
THEOREM GraphInvariance == Spec => []GraphHoldsSearch
  <1>1. Init => DecoderInv /\ GraphInv
    BY DecoderInit, GraphInit
  <1>2. (DecoderInv /\ GraphInv) /\ [Next]_vars => (DecoderInv /\ GraphInv)'
    BY DecoderStep, GraphStep
  <1>3. DecoderInv /\ GraphInv => GraphHoldsSearch
    BY GraphFollows
  <1> QED BY <1>1, <1>2, <1>3, PTL DEF Spec

-----------------------------------------------------------------------------
(* The lattice of a request.                                               *)

\* The derivation of nothing.
NullDerivation == [arcs |-> <<>>, score |-> 0]

\* d with one arc more.
Then(d, a) == [arcs |-> Append(d.arcs, a), score |-> d.score + a.score]

\* The derivations that are one arc longer.
Extended(D, r) ==
  {[arcs |-> Append(x[1].arcs, x[2]), score |-> x[1].score + x[2].score] :
     x \in {y \in D \X r.arcs : /\ y[1].score + y[2].score >= -FLT_MAX
                                /\ y[2].from = EndOf(y[1], r)}}

\* f has, for each number of arcs up to n, the derivations that are no longer:
\* the recursive function of Derivations.
IsDerivationTable(f, r, n) ==
  f = [k \in 0..n |-> IF k = 0 THEN {[arcs |-> <<>>, score |-> 0]}
                      ELSE f[k - 1] \cup Extended(f[k - 1], r)]

\* The table that Derivations chooses.
DerivationTable(r) == CHOOSE f : IsDerivationTable(f, r, r.words)

(* The lattice is the last entry of the table. *)
LEMMA LatticeTable ==
  ASSUME NEW r \in Requests
  PROVE  Lattice[r] = DerivationTable(r)[r.words]
  <1>1. Derivations(r) = DerivationTable(r)[r.words]
    BY DEF Derivations, DerivationTable, IsDerivationTable, Extended, EndOf
  <1> QED BY <1>1 DEF Lattice

(* The recursive definition of the table has a solution. *)
LEMMA DerivationTableExists ==
  ASSUME NEW r, NEW n \in Nat
  PROVE  \E f : IsDerivationTable(f, r, n)
  <1> DEFINE S == {m \in Nat : \E f : IsDerivationTable(f, r, m)}
  <1>1. 0 \in S
    <2> DEFINE f == [k \in 0..0 |-> {[arcs |-> <<>>, score |-> 0]}]
    <2>1. IsDerivationTable(f, r, 0)
      BY DEF IsDerivationTable
    <2> QED BY <2>1
  <1>2. ASSUME NEW m \in Nat, m \in S
        PROVE  m + 1 \in S
    <2>1. PICK f : IsDerivationTable(f, r, m)
      BY <1>2
    <2>2. PICK base : base = {[arcs |-> <<>>, score |-> 0]}
      OBVIOUS
    <2>3. PICK g : g = [k \in 0 .. m + 1 |-> IF k = 0 THEN base
                                             ELSE f[k - 1] \cup Extended(f[k - 1], r)]
      OBVIOUS
    <2>4. \A k \in 0 .. m : f[k] = IF k = 0 THEN base ELSE f[k - 1] \cup Extended(f[k - 1], r)
      BY <2>1, <2>2 DEF IsDerivationTable
    <2>5. ASSUME NEW k \in 0 .. m
          PROVE  g[k] = f[k]
      <3>1. k \in 0 .. m + 1
        OBVIOUS
      <3>2. g[k] = IF k = 0 THEN base ELSE f[k - 1] \cup Extended(f[k - 1], r)
        BY <2>3, <3>1
      <3> QED BY <3>2, <2>4
    <2>6. g = [k \in 0 .. m + 1 |-> IF k = 0 THEN base
                                    ELSE g[k - 1] \cup Extended(g[k - 1], r)]
      <3>1. \A k \in 0 .. m + 1 : k # 0 => k - 1 \in 0 .. m
        OBVIOUS
      <3>2. \A k \in 0 .. m + 1 : k # 0 => g[k - 1] = f[k - 1]
        BY <3>1, <2>5
      <3> QED BY <2>3, <3>2
    <2>7. IsDerivationTable(g, r, m + 1)
      BY <2>2, <2>6 DEF IsDerivationTable
    <2> QED BY <2>7
  <1> HIDE DEF S
  <1>3. n \in S
    BY <1>1, <1>2, InductionOnSet
  <1> QED BY <1>3 DEF S

(* The entries of the table. *)
LEMMA DerivationEntries ==
  ASSUME NEW r, r.words \in Nat
  PROVE  /\ DerivationTable(r)[0] = {NullDerivation}
         /\ \A k \in 0 .. r.words - 1 :
              DerivationTable(r)[k + 1]
                = DerivationTable(r)[k] \cup Extended(DerivationTable(r)[k], r)
  <1>1. PICK f : f = DerivationTable(r)
    OBVIOUS
  <1>2. IsDerivationTable(f, r, r.words)
    BY <1>1, DerivationTableExists DEF DerivationTable
  <1>3. \A k \in 0 .. r.words : f[k] = IF k = 0 THEN {[arcs |-> <<>>, score |-> 0]}
                                       ELSE f[k - 1] \cup Extended(f[k - 1], r)
    BY <1>2 DEF IsDerivationTable
  <1>4. f[0] = {NullDerivation}
    <2>1. 0 \in 0 .. r.words
      OBVIOUS
    <2> QED BY <1>3, <2>1 DEF NullDerivation
  <1>5. ASSUME NEW k \in 0 .. r.words - 1
        PROVE  f[k + 1] = f[k] \cup Extended(f[k], r)
    <2>1. k + 1 \in 0 .. r.words /\ k + 1 # 0 /\ (k + 1) - 1 = k
      OBVIOUS
    <2>2. f[k + 1] = f[(k + 1) - 1] \cup Extended(f[(k + 1) - 1], r)
      BY <2>1, <1>3
    <2> QED BY <2>1, <2>2
  <1> QED BY <1>1, <1>4, <1>5

(* What an extended derivation is. *)
LEMMA ExtendedMembers ==
  ASSUME NEW D, NEW r
  PROVE  /\ \A x \in Extended(D, r) : \E d \in D : \E a \in r.arcs :
              a.from = EndOf(d, r) /\ d.score + a.score >= -FLT_MAX /\ x = Then(d, a)
         /\ \A d \in D : \A a \in r.arcs :
              a.from = EndOf(d, r) /\ d.score + a.score >= -FLT_MAX =>
                Then(d, a) \in Extended(D, r)
  <1>1. ASSUME NEW x \in Extended(D, r)
        PROVE  \E d \in D : \E a \in r.arcs :
                 a.from = EndOf(d, r) /\ d.score + a.score >= -FLT_MAX /\ x = Then(d, a)
    <2>1. PICK y \in D \X r.arcs :
            /\ y[1].score + y[2].score >= -FLT_MAX /\ y[2].from = EndOf(y[1], r)
            /\ x = [arcs |-> Append(y[1].arcs, y[2]), score |-> y[1].score + y[2].score]
      BY DEF Extended
    <2> QED BY <2>1 DEF Then
  <1>2. ASSUME NEW d \in D, NEW a \in r.arcs,
               a.from = EndOf(d, r), d.score + a.score >= -FLT_MAX
        PROVE  Then(d, a) \in Extended(D, r)
    <2>1. PICK y : y = <<d, a>>
      OBVIOUS
    <2>2. y \in D \X r.arcs /\ y[1] = d /\ y[2] = a
      BY <2>1
    <2>3. /\ y[1].score + y[2].score >= -FLT_MAX /\ y[2].from = EndOf(y[1], r)
          /\ Then(d, a) = [arcs |-> Append(y[1].arcs, y[2]), score |-> y[1].score + y[2].score]
      BY <1>2, <2>2 DEF Then
    <2> QED BY <2>2, <2>3 DEF Extended
  <1> QED BY <1>1, <1>2

\* What every derivation is: arcs of the request, each of which covers at
\* least one word more.
WellFormed(d, r) ==
  /\ d = [arcs |-> d.arcs, score |-> d.score]
  /\ d.arcs \in Seq(r.arcs) /\ d.score \in Int /\ d.score >= -FLT_MAX
  /\ Cov[EndOf(d, r)] \in Len(d.arcs) .. r.words
  /\ r.heur[EndOf(d, r)] \in Int

\* a leads on from the end of d.
LeadsOn(d, a, r) ==
  a \in r.arcs /\ a.from = EndOf(d, r) /\ d.score + a.score >= -FLT_MAX

(* What the assumption says of a request. *)
LEMMA RequestFacts ==
  ASSUME NEW r \in Requests
  PROVE  /\ r.words \in Nat /\ Cov[r.root] = 0 /\ r.heur[r.root] \in Int
         /\ \A a \in r.arcs :
              /\ Cov[a.from] \in Nat /\ Cov[a.to] \in Nat
              /\ Cov[a.from] < Cov[a.to] /\ Cov[a.to] <= r.words
              /\ a.score \in Int /\ r.heur[a.to] \in Int
         /\ FLT_MAX \in Nat
  <1>1. /\ r.words \in Nat /\ Cov[r.root] = 0 /\ r.heur[r.root] \in Int
        /\ \A a \in r.arcs : /\ Cov[a.from] \in Nat /\ Cov[a.to] \in Cov[a.from] + 1 .. r.words
                             /\ a.score \in Int /\ r.heur[a.to] \in Int
        /\ FLT_MAX \in Nat
    BY DecoderConstants
  <1>2. ASSUME NEW a \in r.arcs
        PROVE  Cov[a.to] \in Nat /\ Cov[a.from] < Cov[a.to] /\ Cov[a.to] <= r.words
    BY <1>1
  <1> QED BY <1>1, <1>2

(* The derivation of nothing. *)
LEMMA NullWellFormed ==
  ASSUME NEW r \in Requests
  PROVE  /\ WellFormed(NullDerivation, r) /\ EndOf(NullDerivation, r) = r.root
         /\ NullDerivation.arcs = <<>> /\ NullDerivation.score = 0
  <1>1. NullDerivation.arcs = <<>> /\ NullDerivation.score = 0
    BY DEF NullDerivation
  <1>2. EndOf(NullDerivation, r) = r.root
    BY <1>1 DEF EndOf
  <1>3. <<>> \in Seq(r.arcs) /\ Len(<<>>) = 0 /\ 0 >= -FLT_MAX
    BY RequestFacts
  <1>4. Cov[r.root] \in 0 .. r.words /\ r.heur[r.root] \in Int
    BY RequestFacts
  <1> QED BY <1>1, <1>2, <1>3, <1>4 DEF WellFormed, NullDerivation

(* The derivation that an arc leads on to. *)
LEMMA ThenParts ==
  ASSUME NEW r \in Requests, NEW d, WellFormed(d, r), NEW a, LeadsOn(d, a, r)
  PROVE  /\ Then(d, a).arcs = Append(d.arcs, a) /\ Then(d, a).score = d.score + a.score
         /\ Len(Then(d, a).arcs) = Len(d.arcs) + 1 /\ Len(d.arcs) < r.words
         /\ EndOf(Then(d, a), r) = a.to /\ Cov[EndOf(d, r)] < Cov[a.to]
         /\ WellFormed(Then(d, a), r)
  <1>1. PICK e : e = Then(d, a)
    OBVIOUS
  <1>2. e.arcs = Append(d.arcs, a) /\ e.score = d.score + a.score
        /\ e = [arcs |-> e.arcs, score |-> e.score]
    BY <1>1 DEF Then
  <1>3. /\ d.arcs \in Seq(r.arcs) /\ d.score \in Int /\ a \in r.arcs
        /\ a.from = EndOf(d, r) /\ d.score + a.score >= -FLT_MAX
        /\ Cov[EndOf(d, r)] \in Len(d.arcs) .. r.words
    BY DEF WellFormed, LeadsOn
  <1>4. PICK s : s = Append(d.arcs, a)
    OBVIOUS
  <1>5. s \in Seq(r.arcs) /\ Len(s) = Len(d.arcs) + 1 /\ s[Len(s)] = a /\ s # <<>>
    <2>1. PICK A, x : A = r.arcs /\ x = d.arcs
      OBVIOUS
    <2>2. x \in Seq(A) /\ a \in A /\ s = Append(x, a)
      BY <1>3, <1>4, <2>1
    <2>3. s \in Seq(A) /\ s # <<>> /\ Len(s) = Len(x) + 1 /\ s[Len(x) + 1] = a
      BY <2>2, AppendProperties
    <2> QED BY <2>1, <2>3
  <1>6. EndOf(e, r) = a.to
    BY <1>2, <1>4, <1>5 DEF EndOf
  <1>7. /\ Cov[a.from] < Cov[a.to] /\ Cov[a.to] <= r.words /\ Cov[a.to] \in Nat
        /\ a.score \in Int /\ r.heur[a.to] \in Int /\ r.words \in Nat
    BY <1>3, RequestFacts
  <1>8. Len(d.arcs) \in Nat
    BY <1>3
  <1>9. Cov[a.to] \in Len(s) .. r.words /\ Len(d.arcs) < r.words
    BY SMTT(40), <1>3, <1>5, <1>7, <1>8
  <1>10. d.score + a.score \in Int
    BY <1>3, <1>7
  <1>11. WellFormed(e, r)
    BY <1>2, <1>3, <1>4, <1>5, <1>6, <1>7, <1>9, <1>10 DEF WellFormed
  <1> QED BY <1>1, <1>2, <1>3, <1>4, <1>5, <1>6, <1>7, <1>9, <1>11

\* What is in the entry k of the table T.
MemberOf(T, k, d, r) ==
  /\ WellFormed(d, r) /\ Len(d.arcs) <= k /\ d \in T[Len(d.arcs)]
  /\ \/ d = NullDerivation
     \/ \E e, a : /\ e \in T[Len(e.arcs)] /\ Len(e.arcs) + 1 = Len(d.arcs) /\ WellFormed(e, r)
                  /\ LeadsOn(e, a, r) /\ d = Then(e, a)

(* Every derivation of the table is of that form. *)
LEMMA TableMembers ==
  ASSUME NEW r \in Requests, NEW k \in 0 .. r.words, NEW d \in DerivationTable(r)[k]
  PROVE  MemberOf(DerivationTable(r), k, d, r)
  <1>1. PICK T : T = DerivationTable(r)
    OBVIOUS
  <1>2. r.words \in Nat
    BY RequestFacts
  <1>3. T[0] = {NullDerivation} /\ \A j \in 0 .. r.words - 1 : T[j + 1] = T[j] \cup Extended(T[j], r)
    BY <1>1, <1>2, DerivationEntries
  <1> DEFINE S == {j \in 0 .. r.words : \A x \in T[j] : MemberOf(T, j, x, r)}
  <1>4. 0 \in S
    <2>1. ASSUME NEW x \in T[0]
          PROVE  MemberOf(T, 0, x, r)
      <3>1. x = NullDerivation /\ x.arcs = <<>> /\ WellFormed(x, r)
        BY <1>3, NullWellFormed
      <3>2. Len(x.arcs) = 0
        BY <3>1
      <3> QED BY <3>1, <3>2 DEF MemberOf
    <2> QED BY <1>2, <2>1
  <1>5. ASSUME NEW j \in 0 .. r.words - 1, j \in S
        PROVE  j + 1 \in S
    <2>1. ASSUME NEW x \in T[j + 1]
          PROVE  MemberOf(T, j + 1, x, r)
      <3>1. CASE x \in T[j]
        <4>1. MemberOf(T, j, x, r) /\ j \in Nat
          BY <1>5, <3>1
        <4>2. Len(x.arcs) <= j + 1
          <5>1. Len(x.arcs) \in Nat /\ Len(x.arcs) <= j
            BY <4>1 DEF MemberOf, WellFormed
          <5> QED BY <4>1, <5>1
        <4> QED BY <4>1, <4>2 DEF MemberOf
      <3>2. CASE x \in Extended(T[j], r)
        <4>1. PICK e \in T[j], a \in r.arcs :
                a.from = EndOf(e, r) /\ e.score + a.score >= -FLT_MAX /\ x = Then(e, a)
          BY <3>2, ExtendedMembers
        <4>2. WellFormed(e, r) /\ Len(e.arcs) <= j /\ e \in T[Len(e.arcs)]
          BY <1>5 DEF MemberOf
        <4>3. LeadsOn(e, a, r)
          BY <4>1 DEF LeadsOn
        <4>4. WellFormed(x, r) /\ Len(x.arcs) = Len(e.arcs) + 1 /\ Len(e.arcs) < r.words
          BY <4>1, <4>2, <4>3, ThenParts
        <4>5. Len(e.arcs) \in Nat
          BY <4>2 DEF WellFormed
        <4>6. PICK m : m = Len(e.arcs)
          OBVIOUS
        <4>7. m \in 0 .. r.words - 1 /\ m + 1 <= j + 1 /\ j \in Nat
          BY <1>2, <4>2, <4>4, <4>5, <4>6
        <4>8. x \in T[m + 1]
          BY <1>3, <4>1, <4>2, <4>6, <4>7, ExtendedMembers
        <4>9. Len(x.arcs) = m + 1
          BY <4>4, <4>6
        <4> QED BY <4>1, <4>2, <4>3, <4>4, <4>6, <4>7, <4>8, <4>9 DEF MemberOf
      <3> QED BY <1>3, <3>1, <3>2
    <2>2. j + 1 \in 0 .. r.words
      BY <1>2
    <2> QED BY <2>1, <2>2
  <1> HIDE DEF S
  <1>6. k \in S
    BY <1>2, <1>4, <1>5, InductionUpTo
  <1> QED BY <1>1, <1>6 DEF S

(* The entries grow. *)
LEMMA DerivationsGrow ==
  ASSUME NEW r \in Requests, NEW j \in 0 .. r.words
  PROVE  DerivationTable(r)[j] \subseteq Lattice[r]
  <1>1. PICK T : T = DerivationTable(r)
    OBVIOUS
  <1>2. r.words \in Nat
    BY RequestFacts
  <1>3. \A k \in 0 .. r.words - 1 : T[k + 1] = T[k] \cup Extended(T[k], r)
    BY <1>1, <1>2, DerivationEntries
  <1> DEFINE S == {k \in 0 .. r.words : j <= k => T[j] \subseteq T[k]}
  <1>4. 0 \in S
    BY <1>2
  <1>5. ASSUME NEW k \in 0 .. r.words - 1, k \in S
        PROVE  k + 1 \in S
    <2>1. T[k + 1] = T[k] \cup Extended(T[k], r)
      BY <1>3
    <2>2. j <= k + 1 => j <= k \/ j = k + 1
      BY <1>2
    <2>3. k + 1 \in 0 .. r.words
      BY <1>2
    <2> QED BY <1>5, <2>1, <2>2, <2>3
  <1> HIDE DEF S
  <1>6. r.words \in S
    BY <1>2, <1>4, <1>5, InductionUpTo
  <1>7. T[j] \subseteq T[r.words]
    BY <1>2, <1>6 DEF S
  <1> QED BY <1>1, <1>7, LatticeTable

(* What is in the lattice: the derivation of nothing, ... *)
LEMMA NullInLattice ==
  ASSUME NEW r \in Requests
  PROVE  NullDerivation \in Lattice[r]
  <1>1. r.words \in Nat /\ 0 \in 0 .. r.words
    BY RequestFacts
  <1>2. NullDerivation \in DerivationTable(r)[0]
    BY <1>1, DerivationEntries
  <1> QED BY <1>1, <1>2, DerivationsGrow

(* ... what leads on from a derivation ... *)
LEMMA LatticeExtended ==
  ASSUME NEW r \in Requests, NEW d \in Lattice[r], NEW a, LeadsOn(d, a, r)
  PROVE  Then(d, a) \in Lattice[r]
  <1>1. r.words \in Nat
    BY RequestFacts
  <1>2. PICK T : T = DerivationTable(r)
    OBVIOUS
  <1>3. MemberOf(T, r.words, d, r)
    BY <1>1, <1>2, LatticeTable, TableMembers
  <1>4. WellFormed(d, r) /\ d \in T[Len(d.arcs)] /\ Len(d.arcs) < r.words
    BY <1>3, ThenParts DEF MemberOf
  <1>5. Len(d.arcs) \in Nat
    BY <1>4 DEF WellFormed
  <1>6. PICK k : k = Len(d.arcs)
    OBVIOUS
  <1>7. k \in 0 .. r.words - 1 /\ k + 1 \in 0 .. r.words
    BY <1>1, <1>4, <1>5, <1>6
  <1>8. Then(d, a) \in T[k + 1]
    BY <1>1, <1>2, <1>4, <1>6, <1>7, DerivationEntries, ExtendedMembers DEF LeadsOn
  <1> QED BY <1>2, <1>7, <1>8, DerivationsGrow

(* ... and nothing else. *)
LEMMA LatticeMembers ==
  ASSUME NEW r \in Requests, NEW d \in Lattice[r]
  PROVE  /\ WellFormed(d, r)
         /\ \/ d = NullDerivation
            \/ \E e \in Lattice[r] : \E a \in r.arcs : LeadsOn(e, a, r) /\ d = Then(e, a)
  <1>1. r.words \in Nat
    BY RequestFacts
  <1>2. PICK T : T = DerivationTable(r)
    OBVIOUS
  <1>3. MemberOf(T, r.words, d, r)
    BY <1>1, <1>2, LatticeTable, TableMembers
  <1>4. ASSUME NEW e, NEW a, e \in T[Len(e.arcs)], Len(e.arcs) + 1 = Len(d.arcs),
               WellFormed(e, r), LeadsOn(e, a, r), d = Then(e, a)
        PROVE  e \in Lattice[r]
    <2>1. Len(e.arcs) \in Nat /\ Len(e.arcs) < r.words
      BY <1>4, ThenParts DEF WellFormed
    <2>2. PICK k : k = Len(e.arcs)
      OBVIOUS
    <2>3. k \in 0 .. r.words
      BY <1>1, <2>1, <2>2
    <2>4. e \in T[k]
      BY <1>4, <2>2
    <2> QED BY <1>2, <2>3, <2>4, DerivationsGrow
  <1>5. ASSUME NEW e, NEW a, LeadsOn(e, a, r)
        PROVE  a \in r.arcs
    BY <1>5 DEF LeadsOn
  <1> QED BY <1>3, <1>4, <1>5 DEF MemberOf

(* The beginning of a longer sequence. *)
LEMMA SubSeqOfAppend ==
  ASSUME NEW S, NEW s \in Seq(S), NEW a \in S, NEW k \in 0 .. Len(s)
  PROVE  SubSeq(Append(s, a), 1, k) = SubSeq(s, 1, k)
  <1>1. PICK u : u = Append(s, a)
    OBVIOUS
  <1>2. u \in Seq(S) /\ Len(u) = Len(s) + 1 /\ \A i \in 1 .. Len(s) : u[i] = s[i]
    BY <1>1, AppendProperties
  <1>3. Len(s) \in Nat /\ 1 .. Len(s) \subseteq 1 .. Len(u)
        /\ \A i \in 1 .. Len(s) : s[i] \in S /\ u[i] \in S
    BY <1>2, LenProperties, ElementOfSeq
  <1>4. \A i \in 1 .. k : i \in 1 .. Len(s)
    BY <1>3
  <1>5. k \in Nat /\ k \in Int /\ 1 \in Int /\ k - 1 + 1 = k
    BY <1>3
  <1>6. PICK x : x = SubSeq(s, 1, k)
    OBVIOUS
  <1>7. PICK y : y = SubSeq(u, 1, k)
    OBVIOUS
  <1>8. /\ x \in Seq(S) /\ Len(x) = IF 1 <= k THEN k ELSE 0
        /\ \A i \in 1 .. k : x[i] = s[i]
    <2>1. /\ x \in Seq(S) /\ Len(x) = IF 1 <= k THEN k - 1 + 1 ELSE 0
          /\ \A i \in 1 .. k - 1 + 1 : x[i] = s[1 + i - 1]
      BY <1>3, <1>4, <1>5, <1>6, SubSeqProperties
    <2> QED BY <1>5, <2>1
  <1>9. /\ y \in Seq(S) /\ Len(y) = IF 1 <= k THEN k ELSE 0
        /\ \A i \in 1 .. k : y[i] = u[i]
    <2>1. /\ y \in Seq(S) /\ Len(y) = IF 1 <= k THEN k - 1 + 1 ELSE 0
          /\ \A i \in 1 .. k - 1 + 1 : y[i] = u[1 + i - 1]
      BY <1>3, <1>4, <1>5, <1>7, SubSeqProperties
    <2> QED BY <1>5, <2>1
  <1>10. \A i \in 1 .. Len(x) : x[i] = y[i]
    BY <1>2, <1>4, <1>5, <1>8, <1>9
  <1>11. x = y
    BY <1>8, <1>9, <1>10, SeqEqual
  <1> QED BY <1>1, <1>6, <1>7, <1>11

(* The length of a derivation is that of what it extends and one. *)
LEMMA LatticeShorter ==
  ASSUME NEW r \in Requests, NEW d \in Lattice[r], Len(d.arcs) # 0
  PROVE  \E e \in Lattice[r] : \E a \in r.arcs :
            LeadsOn(e, a, r) /\ d = Then(e, a) /\ Len(d.arcs) = Len(e.arcs) + 1
  <1>1. Len(NullDerivation.arcs) = 0
    BY NullWellFormed
  <1>2. PICK e \in Lattice[r], a \in r.arcs : LeadsOn(e, a, r) /\ d = Then(e, a)
    BY <1>1, LatticeMembers
  <1>3. WellFormed(e, r)
    BY LatticeMembers
  <1> QED BY <1>2, <1>3, ThenParts

(* The derivations of the lattice are numbered by their lengths. *)
LEMMA LatticeLengths ==
  ASSUME NEW r \in Requests, NEW d \in Lattice[r]
  PROVE  /\ Len(d.arcs) \in Nat
         /\ Len(d.arcs) = 0 => d = NullDerivation
  <1>1. WellFormed(d, r)
    BY LatticeMembers
  <1>2. d.arcs \in Seq(r.arcs)
    BY <1>1 DEF WellFormed
  <1>3. ASSUME NEW e \in Lattice[r], NEW a, LeadsOn(e, a, r), d = Then(e, a)
        PROVE  Len(d.arcs) # 0
    <2>1. WellFormed(e, r)
      BY LatticeMembers
    <2>2. Len(d.arcs) = Len(e.arcs) + 1 /\ e.arcs \in Seq(r.arcs)
      BY <1>3, <2>1, ThenParts DEF WellFormed
    <2> QED BY <2>2, LenProperties
  <1> QED BY <1>2, <1>3, LatticeMembers, LenProperties

(* There is one derivation for a sequence of arcs. *)
LEMMA LatticeUnique ==
  ASSUME NEW r \in Requests, NEW d \in Lattice[r], NEW e \in Lattice[r], d.arcs = e.arcs
  PROVE  d = e
  <1> DEFINE S == {k \in Nat : \A x \in Lattice[r] : \A y \in Lattice[r] :
                                 x.arcs = y.arcs /\ Len(x.arcs) = k => x = y}
  <1>1. 0 \in S
    BY LatticeLengths
  <1>2. ASSUME NEW k \in Nat, k \in S
        PROVE  k + 1 \in S
    <2>1. ASSUME NEW x \in Lattice[r], NEW y \in Lattice[r],
                 x.arcs = y.arcs, Len(x.arcs) = k + 1
          PROVE  x = y
      <3>1. PICK u \in Lattice[r], a \in r.arcs : /\ LeadsOn(u, a, r) /\ x = Then(u, a)
                                       /\ Len(x.arcs) = Len(u.arcs) + 1
        BY <2>1, LatticeShorter
      <3>2. PICK v \in Lattice[r], b \in r.arcs : /\ LeadsOn(v, b, r) /\ y = Then(v, b)
                                       /\ Len(y.arcs) = Len(v.arcs) + 1
        BY <2>1, LatticeShorter
      <3>3. WellFormed(u, r) /\ WellFormed(v, r)
        BY LatticeMembers
      <3>4. x.arcs = Append(u.arcs, a) /\ y.arcs = Append(v.arcs, b)
        BY SMTT(40), <3>1, <3>2, <3>3, ThenParts
      <3>5. /\ u.arcs \in Seq(r.arcs) /\ v.arcs \in Seq(r.arcs)
            /\ a \in r.arcs /\ b \in r.arcs /\ Append(u.arcs, a) = Append(v.arcs, b)
        BY <2>1, <3>1, <3>2, <3>3, <3>4 DEF WellFormed, LeadsOn
      <3>6. u.arcs = v.arcs /\ a = b
        <4>1. PICK A, i, j : A = r.arcs /\ i = u.arcs /\ j = v.arcs
          OBVIOUS
        <4>2. i \in Seq(A) /\ j \in Seq(A) /\ a \in A /\ b \in A /\ Append(i, a) = Append(j, b)
          BY <3>5, <4>1
        <4>3. i = j /\ a = b
          BY <4>2, AppendInjective
        <4> QED BY <4>1, <4>3
      <3>7. Len(u.arcs) = k
        BY <2>1, <3>1, LatticeLengths
      <3>8. u = v
        BY <1>2, <3>6, <3>7
      <3> QED BY <3>1, <3>2, <3>6, <3>8
    <2> QED BY <2>1
  <1> HIDE DEF S
  <1>3. Nat \subseteq S
    BY <1>1, <1>2, InductionOnSet
  <1>4. Len(d.arcs) \in S
    BY <1>3, LatticeLengths
  <1> QED BY <1>4 DEF S

(* The lattice has the first parts of its derivations. *)
LEMMA LatticeParts ==
  ASSUME NEW r \in Requests, NEW t \in Lattice[r], NEW k \in 0 .. Len(t.arcs)
  PROVE  \E e \in Lattice[r] : e.arcs = SubSeq(t.arcs, 1, k) /\ Len(e.arcs) = k
  <1> DEFINE Part(x, j) == \E e \in Lattice[r] : e.arcs = SubSeq(x.arcs, 1, j) /\ Len(e.arcs) = j
             S == {m \in Nat : \A x \in Lattice[r] : Len(x.arcs) = m =>
                                 \A j \in 0 .. m : Part(x, j)}
  <1>1. ASSUME NEW x \in Lattice[r]
        PROVE  Part(x, Len(x.arcs))
    <2>1. x.arcs \in Seq(r.arcs)
      BY LatticeMembers DEF WellFormed
    <2>2. SubSeq(x.arcs, 1, Len(x.arcs)) = x.arcs
      BY <2>1, SubSeqFull
    <2> QED BY <2>2
  <1>2. ASSUME NEW m \in Nat, m \in S
        PROVE  m + 1 \in S
    <2>1. ASSUME NEW x \in Lattice[r], Len(x.arcs) = m + 1, NEW j \in 0 .. m
          PROVE  Part(x, j)
      <3>1. PICK u \in Lattice[r], a \in r.arcs : /\ LeadsOn(u, a, r) /\ x = Then(u, a)
                                       /\ Len(x.arcs) = Len(u.arcs) + 1
        BY <2>1, LatticeShorter
      <3>2. WellFormed(u, r) /\ Len(u.arcs) = m
        BY <2>1, <3>1, LatticeMembers, LatticeLengths
      <3>3. Part(u, j)
        BY <1>2, <3>2
      <3>4. u.arcs \in Seq(r.arcs) /\ a \in r.arcs /\ x.arcs = Append(u.arcs, a)
        BY <3>1, <3>2, ThenParts DEF WellFormed, LeadsOn
      <3>5. PICK s : s = u.arcs
        OBVIOUS
      <3>6. SubSeq(Append(s, a), 1, j) = SubSeq(s, 1, j)
        BY <3>2, <3>4, <3>5, SubSeqOfAppend
      <3> QED BY <3>3, <3>4, <3>5, <3>6
    <2>2. ASSUME NEW x \in Lattice[r], Len(x.arcs) = m + 1, NEW j \in 0 .. m + 1
          PROVE  Part(x, j)
      <3>1. j \in 0 .. m \/ j = m + 1
        OBVIOUS
      <3> QED BY ZenonT(60), <1>1, <2>1, <2>2, <3>1
    <2> HIDE DEF Part
    <2> QED BY <2>2
  <1>3. 0 \in S
    <2>1. ASSUME NEW x \in Lattice[r], Len(x.arcs) = 0, NEW j \in 0 .. 0
          PROVE  Part(x, j)
      <3>1. j = Len(x.arcs)
        BY <2>1
      <3> QED BY <1>1, <3>1
    <2> HIDE DEF Part
    <2> QED BY <2>1
  <1> HIDE DEF S
  <1>4. Nat \subseteq S
    BY <1>2, <1>3, InductionOnSet
  <1>5. Len(t.arcs) \in S
    BY <1>4, LatticeLengths
  <1>6. Part(t, k)
    BY <1>5 DEF S
  <1> QED BY <1>6

\* p is the first part of the derivation t.
Begins(p, t, r) ==
  /\ p \in Lattice[r] /\ Len(p.arcs) <= Len(t.arcs)
  /\ p.arcs = SubSeq(t.arcs, 1, Len(p.arcs))

(* The first part of a sequence that is one longer. *)
LEMMA SubSeqLonger ==
  ASSUME NEW S, NEW s \in Seq(S), NEW k \in Nat, k < Len(s)
  PROVE  /\ SubSeq(s, 1, k) \in Seq(S) /\ s[k + 1] \in S
         /\ SubSeq(s, 1, k + 1) = Append(SubSeq(s, 1, k), s[k + 1])
  <1>1. Len(s) \in Nat
    BY LenProperties
  <1>2. k + 1 \in 1 .. Len(s) /\ 1 \in 1 .. Len(s) /\ k + 1 - 1 = k
    BY <1>1
  <1>3. s[k + 1] \in S
    BY <1>2, ElementOfSeq
  <1>4. PICK p, q, x : p = SubSeq(s, 1, k) /\ q = SubSeq(s, 1, k + 1) /\ x = s[k + 1]
    OBVIOUS
  <1>5. p \in Seq(S)
    <2>1. \A i \in 1 .. k : s[i] \in S
      BY <1>1, ElementOfSeq
    <2> QED BY <1>4, <2>1, SubSeqProperties
  <1>6. q = p \o <<x>>
    <2>1. PICK n : n = k + 1
      OBVIOUS
    <2>2. n \in 1 .. Len(s) /\ n - 1 = k
      BY <1>2, <2>1
    <2>3. SubSeq(s, 1, n) = SubSeq(s, 1, n - 1) \o << s[n] >>
      BY <1>2, <2>2, SubSeqRecursiveSecond
    <2> QED BY <1>4, <2>1, <2>2, <2>3
  <1>7. Append(p, x) = p \o <<x>>
    BY <1>3, <1>4, <1>5, AppendIsConcat
  <1> QED BY <1>3, <1>4, <1>5, <1>6, <1>7

(* A derivation begins with itself and with the derivation of nothing. *)
LEMMA BeginsEnds ==
  ASSUME NEW r \in Requests, NEW t \in Lattice[r]
  PROVE  /\ Begins(t, t, r) /\ Begins(NullDerivation, t, r)
         /\ \A q : Begins(q, t, r) /\ Len(q.arcs) = Len(t.arcs) => q = t
  <1>1. t.arcs \in Seq(r.arcs) /\ Len(t.arcs) \in Nat
    BY LatticeMembers, LatticeLengths DEF WellFormed
  <1>2. SubSeq(t.arcs, 1, Len(t.arcs)) = t.arcs
    BY <1>1, SubSeqFull
  <1>3. Begins(t, t, r)
    BY <1>1, <1>2 DEF Begins
  <1>4. NullDerivation \in Lattice[r] /\ NullDerivation.arcs = <<>> /\ Len(<<>>) = 0
    BY NullInLattice, NullWellFormed
  <1>5. SubSeq(t.arcs, 1, 0) = <<>>
    BY SubSeqEmpty
  <1>6. Begins(NullDerivation, t, r)
    BY <1>1, <1>4, <1>5 DEF Begins
  <1>7. ASSUME NEW q, Begins(q, t, r), Len(q.arcs) = Len(t.arcs)
        PROVE  q = t
    <2>1. q \in Lattice[r] /\ q.arcs = t.arcs
      BY <1>2, <1>7 DEF Begins
    <2> QED BY <2>1, LatticeUnique
  <1> QED BY <1>3, <1>6, <1>7

(* An arc leads on from the first part of a derivation to a longer one. *)
LEMMA NextOn ==
  ASSUME NEW r \in Requests, NEW t \in Lattice[r], NEW q, Begins(q, t, r),
         Len(q.arcs) # Len(t.arcs)
  PROVE  \E a \in r.arcs : LeadsOn(q, a, r) /\ Begins(Then(q, a), t, r)
  <1>1. PICK s, A : s = t.arcs /\ A = r.arcs
    OBVIOUS
  <1>2. s \in Seq(A) /\ Len(s) \in Nat
    BY <1>1, LatticeMembers, LatticeLengths DEF WellFormed
  <1>3. q \in Lattice[r] /\ Len(q.arcs) <= Len(s) /\ q.arcs = SubSeq(s, 1, Len(q.arcs))
    BY <1>1 DEF Begins
  <1>4. PICK k : k = Len(q.arcs)
    OBVIOUS
  <1>5. k \in Nat /\ k < Len(s) /\ k + 1 \in 0 .. Len(s)
    BY <1>1, <1>2, <1>3, <1>4, LatticeLengths
  <1>6. /\ SubSeq(s, 1, k) \in Seq(A) /\ s[k + 1] \in A
        /\ SubSeq(s, 1, k + 1) = Append(SubSeq(s, 1, k), s[k + 1])
    BY <1>2, <1>5, SubSeqLonger
  <1>7. PICK e \in Lattice[r] : e.arcs = SubSeq(s, 1, k + 1) /\ Len(e.arcs) = k + 1
    BY <1>1, <1>5, LatticeParts
  <1>8. Len(e.arcs) # 0
    BY <1>5, <1>7
  <1>9. PICK u \in Lattice[r], a \in r.arcs :
          LeadsOn(u, a, r) /\ e = Then(u, a) /\ Len(e.arcs) = Len(u.arcs) + 1
    BY <1>8, LatticeShorter
  <1>10. WellFormed(u, r)
    BY LatticeMembers
  <1>11. u.arcs \in Seq(A) /\ a \in A /\ e.arcs = Append(u.arcs, a)
    BY <1>1, <1>9, <1>10, ThenParts DEF WellFormed
  <1>12. PICK i, j, b : i = u.arcs /\ j = SubSeq(s, 1, k) /\ b = s[k + 1]
    OBVIOUS
  <1>13. i \in Seq(A) /\ j \in Seq(A) /\ b \in A /\ Append(i, a) = Append(j, b)
    BY <1>6, <1>7, <1>11, <1>12
  <1>14. i = j
    BY <1>11, <1>13, AppendInjective
  <1>15. u.arcs = q.arcs
    BY <1>3, <1>4, <1>12, <1>14
  <1>16. u = q
    BY <1>3, <1>15, LatticeUnique
  <1>17. Begins(e, t, r)
    BY <1>1, <1>5, <1>7 DEF Begins
  <1> QED BY <1>9, <1>16, <1>17

(* The heuristic of a first part bounds the score of the rest. *)
LEMMA HeuristicBounds ==
  ASSUME NEW r \in Requests, r \in Admissible, NEW t \in Translations[r]
  PROVE  /\ t \in Lattice[r] /\ Cov[EndOf(t, r)] = r.words /\ r.heur[EndOf(t, r)] = 0
         /\ \A q : Begins(q, t, r) => t.score <= q.score + r.heur[EndOf(q, r)]
  <1>1. t \in Lattice[r] /\ Cov[EndOf(t, r)] = r.words
    BY DEF Translations
  <1>2. /\ r.heur[EndOf(t, r)] = 0
        /\ \A k \in 0 .. Len(t.arcs) :
             t.score <= (CHOOSE e \in Lattice[r] : e.arcs = SubSeq(t.arcs, 1, k)).score
                          + r.heur[EndOf(CHOOSE e \in Lattice[r] : e.arcs = SubSeq(t.arcs, 1, k), r)]
    BY DEF Admissible
  <1>3. ASSUME NEW q, Begins(q, t, r)
        PROVE  t.score <= q.score + r.heur[EndOf(q, r)]
    <2>1. PICK k : k = Len(q.arcs)
      OBVIOUS
    <2>2. q \in Lattice[r] /\ q.arcs = SubSeq(t.arcs, 1, k) /\ k <= Len(t.arcs)
      BY <1>3, <2>1 DEF Begins
    <2>3. k \in 0 .. Len(t.arcs)
      BY <1>1, <2>1, <2>2, LatticeLengths
    <2>4. PICK e : e = CHOOSE x \in Lattice[r] : x.arcs = SubSeq(t.arcs, 1, k)
      OBVIOUS
    <2>5. e \in Lattice[r] /\ e.arcs = SubSeq(t.arcs, 1, k)
      BY <2>2, <2>4
    <2>6. e = q
      BY <2>2, <2>5, LatticeUnique
    <2> QED BY <1>2, <2>3, <2>4, <2>6
  <1> QED BY <1>1, <1>2, <1>3

-----------------------------------------------------------------------------
(* What the container holds.                                               *)

\* The class of a hypothesis tells how many words it covers.
Fits(h) == h.cls \in 2 * Cov[h.state] .. 2 * Cov[h.state] + 1

\* Sub-stacks hold nodes of their class, each with a name of its own, and the
\* map lists the sub-stacks that are not empty.  The dictionary has a score for
\* the state of a node that is not lower, and an entry of recInfoMap is a node
\* of its state.
ContainerInv ==
  /\ \A c \in Stack!Classes :
       /\ IsFiniteSet(multiContainer[c])
       /\ \A n \in multiContainer[c] : n.hyp.cls = c /\ n.id \in Ids
  /\ sortedStacksMap = {c \in Stack!Classes : multiContainer[c] # {}}
  /\ \A n \in Stack!Live :
       /\ Fits(n.hyp) /\ n.hyp.state \in DOMAIN hypStateDict
       /\ n.hyp.score \in Int /\ n.hyp.score <= hypStateDict[n.hyp.state]
  /\ \A m, n \in Stack!Live : m.id = n.id => m = n
  /\ \A s \in DOMAIN hypStateDict : hypStateDict[s] \in Int /\ Cov[s] \in 0 .. request.words
  /\ \A s \in DOMAIN recInfoMap : recInfoMap[s].hyp.state = s
  /\ maxStackSize \in Nat

\* A step gives the sub-stack of c nodes S, and leaves the others alone.
GivesNodes(c, S) ==
  /\ multiContainer'[c] = S
  /\ \A d \in Stack!Classes : d # c => multiContainer'[d] = multiContainer[d]

(* What is live then. *)
LEMMA LiveWith ==
  ASSUME NEW c \in Stack!Classes, NEW S, GivesNodes(c, S)
  PROVE  /\ \A n : n \in Stack!Live' <=>
              n \in S \/ \E d \in Stack!Classes : d # c /\ n \in multiContainer[d]
         /\ multiContainer[c] \subseteq Stack!Live
  BY DEF GivesNodes, Stack!Live, Stack!Classes

(* An assignment to one sub-stack. *)
LEMMA AssignedNodes ==
  ASSUME NEW c \in Stack!Classes, NEW S, DOMAIN multiContainer = Stack!Classes,
         multiContainer' = [multiContainer EXCEPT ![c] = S]
  PROVE  GivesNodes(c, S)
  BY DEF GivesNodes

\* What a push of k leaves: nodes S in the sub-stack of its class.
PushLeaves(k, S) ==
  LET rest == multiContainer[k.cls] \ Stack!Recombined(k) IN
  /\ GivesNodes(k.cls, S)
  /\ sortedStacksMap' = IF S = {} THEN sortedStacksMap \ {k.cls} ELSE sortedStacksMap \cup {k.cls}
  /\ \/ /\ Stack!WorseThanKnown(k) /\ S = multiContainer[k.cls] /\ UNCHANGED hypStateDict
     \/ /\ ~Stack!WorseThanKnown(k)
        /\ hypStateDict' = Stack!With(hypStateDict, k.state, k.score)
        /\ \/ S = rest /\ Stack!Refused(rest, k)
           \/ \E i \in Ids \ {n.id : n \in Stack!Live} :
                /\ [id |-> i, hyp |-> k] \in S /\ S \subseteq rest \cup {[id |-> i, hyp |-> k]}
                /\ ~Stack!PrunedByInsert(rest) => S = rest \cup {[id |-> i, hyp |-> k]}

(* That is what a push does to the container. *)
LEMMA PushLeft ==
  ASSUME ContainerInv, DOMAIN multiContainer = Stack!Classes, NEW k, k.cls \in Stack!Classes,
         Stack!Push(k)
  PROVE  /\ \E S : PushLeaves(k, S)
         /\ \A s \in DOMAIN recInfoMap' : recInfoMap'[s].hyp.state = s
  <1> DEFINE rest == multiContainer[k.cls] \ Stack!Recombined(k)
  <1>1. \A s \in DOMAIN recInfoMap : recInfoMap[s].hyp.state = s
    BY DEF ContainerInv
  <1>2. multiContainer[k.cls] # {} => k.cls \in sortedStacksMap
    BY DEF ContainerInv
  <1>3. CASE /\ Stack!WorseThanKnown(k)
             /\ sortedStacksMap' = Stack!NonEmptyWith(k.cls, multiContainer[k.cls])
             /\ UNCHANGED <<multiContainer, recInfoMap, hypStateDict>>
    <2>1. GivesNodes(k.cls, multiContainer[k.cls])
      BY <1>3 DEF GivesNodes
    <2>2. sortedStacksMap' = IF multiContainer[k.cls] = {} THEN sortedStacksMap \ {k.cls}
                             ELSE sortedStacksMap \cup {k.cls}
      BY <1>2, <1>3 DEF Stack!NonEmptyWith
    <2>3. PushLeaves(k, multiContainer[k.cls])
      BY <1>3, <2>1, <2>2 DEF PushLeaves
    <2> QED BY <1>1, <1>3, <2>3
  <1>4. CASE /\ ~Stack!WorseThanKnown(k)
             /\ hypStateDict' = Stack!With(hypStateDict, k.state, k.score)
             /\ Stack!Refused(rest, k)
             /\ multiContainer' = [multiContainer EXCEPT ![k.cls] = rest]
             /\ sortedStacksMap' = Stack!NonEmptyWith(k.cls, rest)
             /\ UNCHANGED recInfoMap
    <2>1. sortedStacksMap' = IF rest = {} THEN sortedStacksMap \ {k.cls}
                             ELSE sortedStacksMap \cup {k.cls}
      BY <1>2, <1>4 DEF Stack!NonEmptyWith
    <2>3. GivesNodes(k.cls, rest)
      BY <1>4, AssignedNodes
    <2>2. PushLeaves(k, rest)
      BY <1>4, <2>1, <2>3 DEF PushLeaves
    <2> QED BY <1>1, <1>4, <2>2
  <1>5. CASE /\ ~Stack!WorseThanKnown(k)
             /\ hypStateDict' = Stack!With(hypStateDict, k.state, k.score)
             /\ Stack!Insert(rest, k)
             /\ sortedStacksMap' = Stack!NonEmptyAfterPush(k.cls)
    <2>1. PICK i \in Ids \ {n.id : n \in Stack!Live} :
            LET node  == [id |-> i, hyp |-> k]
                entry == Stack!With(recInfoMap, Stack!RecKey(k), node)
            IN \/ /\ ~Stack!PrunedByInsert(rest)
                  /\ multiContainer' = [multiContainer EXCEPT ![k.cls] = rest \cup {node}]
                  /\ recInfoMap' = entry
               \/ /\ Stack!PrunedByInsert(rest)
                  /\ \E n \in Stack!Lasts(rest) :
                       /\ multiContainer' = [multiContainer EXCEPT ![k.cls] = (rest \ {n}) \cup {node}]
                       /\ recInfoMap' = Stack!RecInfoAfterPrune(entry, n)
      BY <1>5 DEF Stack!Insert
    <2>2. PICK node : node = [id |-> i, hyp |-> k]
      OBVIOUS
    <2>3. PICK entry : entry = Stack!With(recInfoMap, k.state, node)
      OBVIOUS
    <2>4. node.hyp = k
      BY <2>2
    <2>5. \A s \in DOMAIN entry : entry[s].hyp.state = s
      BY <1>1, <2>3, <2>4 DEF Stack!With
    <2>6. \A n : \A s \in DOMAIN Stack!Without(entry, n) :
            s \in DOMAIN entry /\ Stack!Without(entry, n)[s] = entry[s]
      BY DEF Stack!Without
    <2>7. PICK S : /\ multiContainer' = [multiContainer EXCEPT ![k.cls] = S]
                   /\ node \in S /\ S \subseteq rest \cup {node}
                   /\ ~Stack!PrunedByInsert(rest) => S = rest \cup {node}
      BY <2>1, <2>2
    <2>8. \A s \in DOMAIN recInfoMap' : recInfoMap'[s].hyp.state = s
      <3>1. recInfoMap' = entry \/ \E n : recInfoMap' = Stack!Without(entry, n)
        BY <2>1, <2>2, <2>3 DEF Stack!RecInfoAfterPrune, Stack!RecKey
      <3> QED BY <2>5, <2>6, <3>1
    <2>9. sortedStacksMap' = sortedStacksMap \cup {k.cls} /\ S # {}
      BY <1>5, <2>7 DEF Stack!NonEmptyAfterPush
    <2>10. GivesNodes(k.cls, S)
      BY <2>7, AssignedNodes
    <2>11. PushLeaves(k, S)
      BY <1>5, <2>1, <2>2, <2>7, <2>9, <2>10 DEF PushLeaves
    <2> QED BY <2>8, <2>11
  <1> QED BY <1>3, <1>4, <1>5 DEF Stack!Push

(* A push of a hypothesis that fits keeps the container as it must be. *)
LEMMA PushContainer ==
  ASSUME ContainerInv, DOMAIN multiContainer = Stack!Classes, NEW k, k.cls \in Stack!Classes,
         Fits(k), k.score \in Int, Cov[k.state] \in 0 .. request.words, Stack!Push(k),
         UNCHANGED request
  PROVE  ContainerInv'
  <1>1. PICK S : PushLeaves(k, S)
    BY PushLeft
  <1>2. PICK c : c = k.cls
    OBVIOUS
  <1>3. c \in Stack!Classes /\ GivesNodes(c, S)
    BY <1>1, <1>2 DEF PushLeaves
  <1>4. PICK i : /\ S \subseteq multiContainer[c] \cup {[id |-> i, hyp |-> k]}
                 /\ \/ S \subseteq multiContainer[c]
                    \/ /\ i \in Ids /\ i \notin {n.id : n \in Stack!Live}
                       /\ hypStateDict' = Stack!With(hypStateDict, k.state, k.score)
    BY <1>1, <1>2 DEF PushLeaves
  <1>5. PICK node : node = [id |-> i, hyp |-> k]
    OBVIOUS
  <1>6. node.id = i /\ node.hyp = k
    BY <1>5
  <1>7. /\ multiContainer'[c] = S
        /\ \A d \in Stack!Classes : d # c => multiContainer'[d] = multiContainer[d]
        /\ \A n \in Stack!Live' :
             n \in S \/ \E d \in Stack!Classes : d # c /\ n \in multiContainer[d]
        /\ multiContainer[c] \subseteq Stack!Live
    BY <1>3, LiveWith DEF GivesNodes
  <1>8. /\ \A d \in Stack!Classes :
             /\ IsFiniteSet(multiContainer[d])
             /\ \A n \in multiContainer[d] : n.hyp.cls = d /\ n.id \in Ids
        /\ sortedStacksMap = {d \in Stack!Classes : multiContainer[d] # {}}
        /\ \A n \in Stack!Live :
             /\ Fits(n.hyp) /\ n.hyp.state \in DOMAIN hypStateDict
             /\ n.hyp.score \in Int /\ n.hyp.score <= hypStateDict[n.hyp.state]
        /\ \A m, n \in Stack!Live : m.id = n.id => m = n
        /\ \A s \in DOMAIN hypStateDict : hypStateDict[s] \in Int /\ Cov[s] \in 0 .. request.words
    BY DEF ContainerInv
  <1>9. IsFiniteSet(S)
    <2>1. PICK M : M = multiContainer[c]
      OBVIOUS
    <2>2. IsFiniteSet(M) /\ S \subseteq M \cup {node}
      BY <1>3, <1>4, <1>5, <1>8, <2>1
    <2>3. IsFiniteSet(M \cup {node})
      BY <2>2, FS_AddElement
    <2> QED BY <2>2, <2>3, FS_Subset
  <1>10. \A n \in S : n.hyp.cls = c /\ n.id \in Ids
    BY <1>2, <1>3, <1>4, <1>5, <1>6, <1>8
  <1>11. \A d \in Stack!Classes :
           /\ IsFiniteSet(multiContainer'[d])
           /\ \A n \in multiContainer'[d] : n.hyp.cls = d /\ n.id \in Ids
    BY <1>7, <1>8, <1>9, <1>10
  <1>12. sortedStacksMap' = {d \in Stack!Classes : multiContainer'[d] # {}}
    <2>1. sortedStacksMap' = IF S = {} THEN sortedStacksMap \ {c} ELSE sortedStacksMap \cup {c}
      BY <1>1, <1>2 DEF PushLeaves
    <2> QED BY <1>3, <1>7, <1>8, <2>1
  <1>13. \A n \in Stack!Live' : n \in Stack!Live \/ (n = node /\ ~(S \subseteq multiContainer[c]))
    <2>1. ASSUME NEW n \in Stack!Live'
          PROVE  n \in Stack!Live \/ n \in S
      BY <1>7 DEF Stack!Live
    <2> QED BY <1>4, <1>5, <1>7, <2>1
  <1>14. /\ \A s \in DOMAIN hypStateDict' : hypStateDict'[s] \in Int /\ Cov[s] \in 0 .. request.words
         /\ DOMAIN hypStateDict \subseteq DOMAIN hypStateDict'
         /\ \A s \in DOMAIN hypStateDict : hypStateDict[s] <= hypStateDict'[s]
    <2>1. CASE UNCHANGED hypStateDict
      BY <1>8, <2>1
    <2>2. CASE /\ ~Stack!WorseThanKnown(k)
               /\ hypStateDict' = Stack!With(hypStateDict, k.state, k.score)
      <3>1. k.state \in DOMAIN hypStateDict => hypStateDict[k.state] <= k.score
        BY <1>8, <2>2 DEF Stack!WorseThanKnown
      <3>2. /\ DOMAIN hypStateDict' = DOMAIN hypStateDict \cup {k.state}
            /\ \A s \in DOMAIN hypStateDict' :
                 hypStateDict'[s] = IF s = k.state THEN k.score ELSE hypStateDict[s]
        BY <2>2 DEF Stack!With
      <3> QED BY <1>8, <3>1, <3>2
    <2> QED BY <1>1, <2>1, <2>2 DEF PushLeaves
  <1>15. ASSUME NEW n \in Stack!Live'
         PROVE  /\ Fits(n.hyp) /\ n.hyp.state \in DOMAIN hypStateDict'
                /\ n.hyp.score \in Int /\ n.hyp.score <= hypStateDict'[n.hyp.state]
    <2>1. CASE n \in Stack!Live
      <3>1. PICK s : s = n.hyp.state
        OBVIOUS
      <3>2. /\ s \in DOMAIN hypStateDict /\ n.hyp.score \in Int /\ n.hyp.score <= hypStateDict[s]
            /\ Fits(n.hyp)
        BY <1>8, <2>1, <3>1
      <3>3. hypStateDict[s] \in Int /\ hypStateDict'[s] \in Int /\ s \in DOMAIN hypStateDict'
            /\ hypStateDict[s] <= hypStateDict'[s]
        BY <1>8, <1>14, <3>2
      <3> QED BY <3>1, <3>2, <3>3
    <2>2. CASE n = node /\ ~(S \subseteq multiContainer[c])
      <3>1. hypStateDict' = Stack!With(hypStateDict, k.state, k.score)
        BY <1>4, <2>2
      <3>2. k.state \in DOMAIN hypStateDict' /\ hypStateDict'[k.state] = k.score
        BY <3>1 DEF Stack!With
      <3> QED BY <1>6, <2>2, <3>2
    <2> QED BY <1>13, <2>1, <2>2
  <1>16. \A m, n \in Stack!Live' : m.id = n.id => m = n
    BY <1>4, <1>6, <1>8, <1>13
  <1>17. \A s \in DOMAIN recInfoMap' : recInfoMap'[s].hyp.state = s
    BY PushLeft
  <1>19. maxStackSize' = maxStackSize /\ maxStackSize \in Nat
    BY DEF Stack!Push, ContainerInv
  <1> QED BY <1>11, <1>12, <1>14, <1>15, <1>16, <1>17, <1>19 DEF ContainerInv, Fits, Stack!Classes

(* A pop takes a node and keeps the container as it must be. *)
LEMMA PopContainer ==
  ASSUME ContainerInv, DOMAIN multiContainer = Stack!Classes, NEW c \in Stack!Classes,
         NEW n \in multiContainer[c], NEW first, Stack!PopNode(first, c, n), UNCHANGED request
  PROVE  ContainerInv' /\ Stack!Live' = Stack!Live \ {n} /\ n \in Stack!Live
  <1>1. /\ multiContainer' = [multiContainer EXCEPT ![c] = multiContainer[c] \ {n}]
        /\ sortedStacksMap' = Stack!NonEmptyWith(c, multiContainer[c] \ {n})
        /\ recInfoMap' = Stack!Without(recInfoMap, n.hyp.state)
        /\ UNCHANGED <<maxStackSize, hypStateDict>>
    BY DEF Stack!PopNode
  <1>2. PICK S : S = multiContainer[c] \ {n}
    OBVIOUS
  <1>3. GivesNodes(c, S)
    BY <1>1, <1>2, AssignedNodes
  <1>4. /\ \A d \in Stack!Classes :
             /\ IsFiniteSet(multiContainer[d])
             /\ \A m \in multiContainer[d] : m.hyp.cls = d /\ m.id \in Ids
        /\ sortedStacksMap = {d \in Stack!Classes : multiContainer[d] # {}}
        /\ \A m \in Stack!Live :
             /\ Fits(m.hyp) /\ m.hyp.state \in DOMAIN hypStateDict
             /\ m.hyp.score \in Int /\ m.hyp.score <= hypStateDict[m.hyp.state]
        /\ \A l, m \in Stack!Live : l.id = m.id => l = m
        /\ \A s \in DOMAIN hypStateDict : hypStateDict[s] \in Int /\ Cov[s] \in 0 .. request.words
        /\ \A s \in DOMAIN recInfoMap : recInfoMap[s].hyp.state = s
        /\ maxStackSize \in Nat
    BY DEF ContainerInv
  <1>5. Stack!Live' = Stack!Live \ {n} /\ n \in Stack!Live
    <2>1. /\ \A m : m \in Stack!Live' <=>
               m \in S \/ \E d \in Stack!Classes : d # c /\ m \in multiContainer[d]
          /\ multiContainer[c] \subseteq Stack!Live
      BY <1>3, LiveWith
    <2>2. \A d \in Stack!Classes : d # c => n \notin multiContainer[d]
      BY <1>4
    <2>3. \A m : m \in Stack!Live <=> \E d \in Stack!Classes : m \in multiContainer[d]
      BY DEF Stack!Live
    <2> QED BY <1>2, <2>1, <2>2, <2>3
  <1>6. \A d \in Stack!Classes :
          /\ IsFiniteSet(multiContainer'[d])
          /\ \A m \in multiContainer'[d] : m.hyp.cls = d /\ m.id \in Ids
    <2>1. IsFiniteSet(S)
      <3>1. PICK M : M = multiContainer[c]
        OBVIOUS
      <3>2. IsFiniteSet(M) /\ S \subseteq M
        BY <1>2, <1>4, <3>1
      <3> QED BY <3>2, FS_Subset
    <2> QED BY <1>2, <1>3, <1>4, <2>1 DEF GivesNodes
  <1>7. sortedStacksMap' = {d \in Stack!Classes : multiContainer'[d] # {}}
    BY <1>1, <1>2, <1>3, <1>4 DEF GivesNodes, Stack!NonEmptyWith
  <1>8. \A s \in DOMAIN recInfoMap' : recInfoMap'[s].hyp.state = s
    BY <1>1, <1>4 DEF Stack!Without
  <1> QED BY <1>1, <1>4, <1>5, <1>6, <1>7, <1>8 DEF ContainerInv, Fits, Stack!Classes

(* A clear leaves nothing to keep. *)
LEMMA ClearContainer ==
  ASSUME maxStackSize \in Nat, Stack!Clear
  PROVE  ContainerInv' /\ DOMAIN hypStateDict' = {} /\ Stack!Live' = {}
  <1>1. /\ \A c \in Stack!Classes : multiContainer'[c] = {}
        /\ sortedStacksMap' = {} /\ DOMAIN recInfoMap' = {} /\ DOMAIN hypStateDict' = {}
        /\ maxStackSize' = maxStackSize
    BY DEF Stack!Clear, Stack!NoNodes, Stack!EmptyMap
  <1>2. Stack!Live' = {}
    BY <1>1 DEF Stack!Live, Stack!Classes
  <1>3. IsFiniteSet({})
    BY FS_EmptySet
  <1> QED BY <1>1, <1>2, <1>3 DEF ContainerInv, Stack!Classes

(* A sub-stack has not more nodes than there are names. *)
LEMMA NodesNamed ==
  ASSUME ContainerInv, NEW c \in Stack!Classes, NEW S, S \subseteq multiContainer[c]
  PROVE  IsFiniteSet(S) /\ Cardinality(S) \in Nat /\ Cardinality(S) <= Cardinality(Ids)
         /\ Cardinality(Ids) \in Nat
  <1>1. PICK M, N : M = multiContainer[c] /\ N = Ids
    OBVIOUS
  <1>2. IsFiniteSet(N)
    BY <1>1, DecoderConstants
  <1>3. IsFiniteSet(S) /\ \A n \in S : n.id \in N
    <2>1. IsFiniteSet(M) /\ S \subseteq M /\ \A n \in M : n.id \in N
      BY <1>1 DEF ContainerInv
    <2> QED BY <2>1, FS_Subset
  <1>4. \A m, n \in S : m.id = n.id => m = n
    <2>1. S \subseteq Stack!Live
      BY DEF Stack!Live
    <2> QED BY <2>1 DEF ContainerInv
  <1>5. PICK f : f = [n \in S |-> n.id]
    OBVIOUS
  <1>6. f \in Injection(S, N)
    BY <1>3, <1>4, <1>5 DEF Injection, IsInjective
  <1> QED BY <1>1, <1>2, <1>3, <1>6, FS_Injection, FS_CardinalityType

(* The instance of the container counts as this module does. *)
LEMMA SameCardinality ==
  ASSUME NEW S
  PROVE  Stack!Cardinality(S) = Cardinality(S)
  BY DEF Cardinality, Stack!Cardinality

(* What a push that is not worse than known does to the sub-stacks: with a
   size above 0 no class loses its last node, and the class of k has one; with
   a size above the number of names k is there, and at most a node of its state
   is not. *)
LEMMA PushTakes ==
  ASSUME ContainerInv, DOMAIN multiContainer = Stack!Classes, NEW k, k.cls \in Stack!Classes,
         Stack!Push(k), ~Stack!WorseThanKnown(k)
  PROVE  /\ maxStackSize > 0 =>
              /\ \E n \in Stack!Live' : n.hyp.cls = k.cls
              /\ \A m \in Stack!Live : \E n \in Stack!Live' : n.hyp.cls = m.hyp.cls
         /\ maxStackSize > Cardinality(Ids) =>
              /\ \E n \in Stack!Live' : n.hyp = k
              /\ \A m \in Stack!Live : m \in Stack!Live' \/ m.hyp.state = k.state
  <1>1. PICK S : PushLeaves(k, S)
    BY PushLeft
  <1>2. PICK c, rest : c = k.cls /\ rest = multiContainer[k.cls] \ Stack!Recombined(k)
    OBVIOUS
  <1>3. c \in Stack!Classes /\ rest \subseteq multiContainer[c] /\ GivesNodes(c, S)
    BY <1>1, <1>2 DEF PushLeaves
  <1>4. \/ S = rest /\ Stack!Refused(rest, k)
        \/ \E i \in Ids \ {n.id : n \in Stack!Live} :
             /\ [id |-> i, hyp |-> k] \in S /\ S \subseteq rest \cup {[id |-> i, hyp |-> k]}
             /\ ~Stack!PrunedByInsert(rest) => S = rest \cup {[id |-> i, hyp |-> k]}
    BY <1>1, <1>2 DEF PushLeaves
  <1>5. /\ \A n : n \in Stack!Live' <=>
             n \in S \/ \E d \in Stack!Classes : d # c /\ n \in multiContainer[d]
        /\ multiContainer[c] \subseteq Stack!Live
    BY <1>3, LiveWith
  <1>6. /\ maxStackSize \in Nat
        /\ \A d \in Stack!Classes : \A n \in multiContainer[d] : n.hyp.cls = d
        /\ \A s \in DOMAIN recInfoMap : recInfoMap[s].hyp.state = s
    BY DEF ContainerInv
  <1>7. \A m \in Stack!Live : \E d \in Stack!Classes : m \in multiContainer[d] /\ m.hyp.cls = d
    BY <1>6 DEF Stack!Live
  <1>8. /\ Cardinality(rest) \in Nat /\ Cardinality(rest) <= Cardinality(Ids)
        /\ Cardinality(Ids) \in Nat /\ IsFiniteSet(rest)
    BY <1>3, NodesNamed
  <1>9. ASSUME maxStackSize > 0
        PROVE  /\ \E n \in Stack!Live' : n.hyp.cls = k.cls
               /\ \A m \in Stack!Live : \E n \in Stack!Live' : n.hyp.cls = m.hyp.cls
    <2>1. \E n \in S : n.hyp.cls = c
      <3>1. CASE S = rest /\ Stack!Refused(rest, k)
        <4>1. Cardinality(rest) # 0
          BY <1>6, <1>9, <3>1, SameCardinality DEF Stack!Refused
        <4>2. rest # {}
          BY <4>1, FS_EmptySet
        <4> QED BY <1>3, <1>6, <3>1, <4>2
      <3>2. ASSUME NEW i, [id |-> i, hyp |-> k] \in S
            PROVE  \E n \in S : n.hyp.cls = c
        <4>1. PICK n : n = [id |-> i, hyp |-> k]
          OBVIOUS
        <4>2. n \in S /\ n.hyp.cls = c
          BY <1>2, <3>2, <4>1
        <4> QED BY <4>2
      <3> QED BY <1>4, <3>1, <3>2
    <2>2. ASSUME NEW m \in Stack!Live
          PROVE  \E n \in Stack!Live' : n.hyp.cls = m.hyp.cls
      BY <1>5, <1>7, <2>1
    <2> QED BY <1>2, <1>5, <2>1, <2>2
  <1>10. ASSUME maxStackSize > Cardinality(Ids)
         PROVE  /\ \E n \in Stack!Live' : n.hyp = k
                /\ \A m \in Stack!Live : m \in Stack!Live' \/ m.hyp.state = k.state
    <2>1. ~Stack!Refused(rest, k) /\ ~Stack!PrunedByInsert(rest)
      BY <1>6, <1>8, <1>10, SameCardinality DEF Stack!Refused, Stack!PrunedByInsert
    <2>2. PICK node : node.hyp = k /\ S = rest \cup {node}
      <3>1. PICK i : S = rest \cup {[id |-> i, hyp |-> k]}
        BY <1>4, <2>1
      <3> QED BY <3>1
    <2>3. ASSUME NEW m \in multiContainer[c], m \notin rest
          PROVE  m.hyp.state = k.state
      <3>1. k.state \in DOMAIN recInfoMap /\ m = recInfoMap[k.state]
        BY <1>2, <2>3 DEF Stack!Recombined
      <3> QED BY <1>6, <3>1
    <2>4. ASSUME NEW m \in Stack!Live
          PROVE  m \in Stack!Live' \/ m.hyp.state = k.state
      BY <1>5, <1>7, <2>2, <2>3
    <2> QED BY <1>5, <2>2, <2>4
  <1> QED BY <1>9, <1>10

-----------------------------------------------------------------------------
(* What the search can still expand.                                       *)

\* The hypotheses of the container, as pop would give them.
Held == {Restored(n.hyp) : n \in Stack!Live}
\* Those that were popped, ...
Queued == {hypsToExpand[i] : i \in DOMAIN hypsToExpand}
\* ... and both.
Pool == Held \cup Queued

(* Of a node, what pop makes of it. *)
LEMMA HeldFacts ==
  ASSUME DecoderInv, ContainerInv, NEW n \in Stack!Live
  PROVE  /\ KeyOK(n.hyp) /\ HypOK(Restored(n.hyp)) /\ Restored(n.hyp) \in Held
         /\ Restored(n.hyp).state = n.hyp.state
         /\ n.hyp.score = Restored(n.hyp).score + G(n.hyp) + request.heur[n.hyp.state]
         /\ Restored(n.hyp).score \in Int /\ G(n.hyp) \in Int
         /\ request.heur[n.hyp.state] \in Int
         /\ Cov[n.hyp.state] \in 0 .. request.words
         /\ n.hyp.cls \in 2 * Cov[n.hyp.state] .. 2 * Cov[n.hyp.state] + 1
  <1>1. request \in Requests /\ KeyOK(n.hyp) /\ Fits(n.hyp)
    BY DEF DecoderInv, ScalarTypes, SearchInv, ContainerInv
  <1>2. n.hyp \in HypSet
    BY <1>1 DEF KeyOK
  <1>3. /\ n.hyp.score \in Int /\ G(n.hyp) \in Int /\ request.heur[n.hyp.state] \in Int
        /\ Cov[n.hyp.state] \in 0 .. request.words
    BY <1>1, <1>2, HypParts
  <1>4. /\ HypOK(Restored(n.hyp)) /\ Restored(n.hyp).state = n.hyp.state
        /\ Restored(n.hyp).score = n.hyp.score - G(n.hyp) - request.heur[n.hyp.state]
    BY <1>1, RestoredOK
  <1> QED BY <1>1, <1>3, <1>4 DEF Held, Fits

(* What a hypothesis of the pool is. *)
LEMMA PoolFacts ==
  ASSUME DecoderInv, ContainerInv, NEW x \in Pool
  PROVE  HypOK(x) /\ x.score \in Int /\ Cov[x.state] \in 0 .. request.words
         /\ request.heur[x.state] \in Int /\ G(x) \in Int /\ x.state \in DOMAIN hypStateDict
  <1>1. request \in Requests
    BY DEF DecoderInv, ScalarTypes
  <1>2. HypOK(x) /\ x.state \in DOMAIN hypStateDict
    <2>1. CASE x \in Queued
      BY <2>1, QueueFacts DEF Queued
    <2>2. CASE x \in Held
      <3>1. PICK n \in Stack!Live : x = Restored(n.hyp)
        BY <2>2 DEF Held
      <3> QED BY <3>1, HeldFacts DEF ContainerInv
    <2> QED BY <2>1, <2>2 DEF Pool
  <1> QED BY <1>1, <1>2, HypParts DEF HypOK

\* The push of h drops it, ...
PushDrops(h) ==
  /\ h.score < -FLT_MAX \/ PrunedByScore(h)
  /\ UNCHANGED <<Held, hypStateDict, bestCompleteHyp>>

\* ... knows better ...
PushKnowsBetter(h) ==
  /\ h.score >= -FLT_MAX /\ h.state \in DOMAIN hypStateDict
  /\ hypStateDict[h.state] > Stored(h).score
  /\ UNCHANGED <<Held, hypStateDict, bestCompleteHyp>>

\* ... or takes it: then the hypotheses that are pruned leave one that covers
\* as much, and with a size above the number of names none is pruned.
PushTakesHyp(h) ==
  /\ h.score >= -FLT_MAX
  /\ h.state \in DOMAIN hypStateDict => hypStateDict[h.state] <= Stored(h).score
  /\ hypStateDict' = Stack!With(hypStateDict, h.state, Stored(h).score)
  /\ Held' \subseteq Held \cup {h}
  /\ \/ bestCompleteHyp' = bestCompleteHyp
     \/ bestCompleteHyp' = {Stored(h)} /\ Complete(h) /\ h \in Held'
  /\ maxStackSize > 0 =>
       /\ \E y \in Held' : Cov[y.state] = Cov[h.state]
       /\ \A x \in Held : \E y \in Held' : Cov[y.state] = Cov[x.state]
  /\ maxStackSize > Cardinality(Ids) =>
       /\ h \in Held'
       /\ \A x \in Held : \E y \in Held' : y.state = x.state /\ y.score >= x.score

(* Two hypotheses of a class cover the same number of words. *)
LEMMA SameClass ==
  ASSUME NEW c, NEW d, NEW x \in Int, NEW y \in Int,
         c \in 2 * x .. 2 * x + 1, d \in 2 * y .. 2 * y + 1, c = d
  PROVE  x = y
  OBVIOUS

(* A push does one of the three, and keeps the container as it must be. *)
LEMMA PushOutcome ==
  ASSUME DecoderInv, ContainerInv, NEW h, HypOK(h), Fits(h), PushHyp(h),
         UNCHANGED <<request, breadthFirst>>
  PROVE  /\ ContainerInv' /\ maxStackSize' = maxStackSize
         /\ PushDrops(h) \/ PushKnowsBetter(h) \/ PushTakesHyp(h)
  <1>1. PICK k : k = Stored(h)
    OBVIOUS
  <1>2. request \in Requests /\ DOMAIN multiContainer = Stack!Classes
    BY DEF DecoderInv, ScalarTypes, SearchInv
  <1>3. /\ KeyOK(k) /\ k.state = h.state /\ Restored(k) = h
        /\ k.score = h.score + request.heur[h.state] + G(h) /\ k.cls = h.cls
    <2>1. k.cls = h.cls
      <3>1. h = [cls |-> h.cls, state |-> h.state, score |-> h.score]
        BY <1>2, HypParts DEF HypOK
      <3> QED BY <1>1, <3>1 DEF Stored
    <2> QED BY <1>1, <1>2, <2>1, StoredRestored
  <1>4. /\ k.cls \in Stack!Classes /\ k.score \in Int /\ Fits(k)
        /\ Cov[h.state] \in Int /\ G(h) \in Int /\ request.heur[h.state] \in Int
        /\ Cov[k.state] \in 0 .. request.words
        /\ h.score \in Int /\ h.cls \in 2 * Cov[h.state] .. 2 * Cov[h.state] + 1
    <2>1. k \in HypSet /\ k.cls \in Stack!Classes
      BY <1>3 DEF KeyOK
    <2>2. h \in HypSet
      BY DEF HypOK
    <2>3. k.score \in Int /\ Cov[h.state] \in 0 .. request.words /\ Cov[h.state] \in Int /\ G(h) \in Int /\ request.heur[h.state] \in Int
          /\ h.score \in Int
      BY <1>2, <2>1, <2>2, HypParts
    <2> QED BY <1>3, <2>1, <2>3 DEF Fits
  <1>5. \A x : Restored(x)' = Restored(x)
    BY DEF Restored, G
  <1>6. Held' = {Restored(n.hyp) : n \in Stack!Live'}
    BY <1>5 DEF Held
  <1>7. multiContainer' = multiContainer => Held' = Held
    <2>1. multiContainer' = multiContainer => Stack!Live' = Stack!Live
      BY DEF Stack!Live, Stack!Classes
    <2> QED BY <1>6, <2>1 DEF Held
  <1>8. CASE /\ h.score < -FLT_MAX \/ PrunedByScore(h)
             /\ UNCHANGED <<stack, bestCompleteHyp>>
    <2>1. UNCHANGED <<maxStackSize, multiContainer, sortedStacksMap, recInfoMap, hypStateDict,
                      bestCompleteHyp>>
      BY <1>8 DEF stack
    <2>2. ContainerInv'
      BY <2>1 DEF ContainerInv, Stack!Live, Stack!Classes, Fits
    <2> QED BY <1>7, <1>8, <2>1, <2>2 DEF PushDrops
  <1>9. CASE /\ h.score >= -FLT_MAX /\ Stack!Push(k)
             /\ bestCompleteHyp' = IF Inserted /\ Complete(h) THEN {k} ELSE bestCompleteHyp
    <2>1. ContainerInv' /\ UNCHANGED maxStackSize
      BY <1>2, <1>4, <1>9, PushContainer DEF Stack!Push
    <2>2. CASE Stack!WorseThanKnown(k)
      <3>1. UNCHANGED <<multiContainer, hypStateDict>>
        BY <1>9, <2>2 DEF Stack!Push
      <3>2. ~Inserted
        BY <3>1 DEF Inserted, Stack!Live, Stack!Classes
      <3> QED BY <1>1, <1>3, <1>7, <1>9, <2>1, <2>2, <3>1, <3>2
              DEF PushKnowsBetter, Stack!WorseThanKnown
    <2>3. CASE ~Stack!WorseThanKnown(k)
      <3>1. hypStateDict' = Stack!With(hypStateDict, h.state, Stored(h).score)
        BY <1>1, <1>3, <1>9, <2>3 DEF Stack!Push
      <3>2. h.state \in DOMAIN hypStateDict => hypStateDict[h.state] <= Stored(h).score
        <4>1. h.state \in DOMAIN hypStateDict => hypStateDict[h.state] \in Int
          BY DEF ContainerInv
        <4> QED BY <1>1, <1>3, <1>4, <2>3, <4>1 DEF Stack!WorseThanKnown
      <3>3. \A n \in Stack!Live' : n \in Stack!Live \/ n.hyp = k
        BY <1>2, <1>9, PushEffect
      <3>4. Held' \subseteq Held \cup {h}
        BY <1>3, <1>6, <3>3 DEF Held
      <3>5. \/ bestCompleteHyp' = bestCompleteHyp
            \/ bestCompleteHyp' = {Stored(h)} /\ Complete(h) /\ h \in Held'
        <4>1. ASSUME Inserted
              PROVE  h \in Held'
          <5>1. PICK n \in Stack!Live' : n \notin Stack!Live
            BY <4>1 DEF Inserted
          <5> QED BY <1>3, <1>6, <3>3, <5>1
        <4> QED BY <1>1, <1>9, <4>1
      <3>6. /\ maxStackSize > 0 =>
                 /\ \E n \in Stack!Live' : n.hyp.cls = k.cls
                 /\ \A m \in Stack!Live : \E n \in Stack!Live' : n.hyp.cls = m.hyp.cls
            /\ maxStackSize > Cardinality(Ids) =>
                 /\ \E n \in Stack!Live' : n.hyp = k
                 /\ \A m \in Stack!Live : m \in Stack!Live' \/ m.hyp.state = k.state
        BY <1>2, <1>4, <1>9, <2>3, PushTakes
      <3>7. ASSUME NEW n \in Stack!Live'
            PROVE  /\ Restored(n.hyp).state = n.hyp.state /\ Cov[n.hyp.state] \in Int
                   /\ n.hyp.cls \in 2 * Cov[n.hyp.state] .. 2 * Cov[n.hyp.state] + 1
                   /\ Restored(n.hyp) \in Held'
        <4>1. n \in Stack!Live \/ n.hyp = k
          BY <3>3
        <4>2. CASE n \in Stack!Live
          BY <1>6, <4>2, HeldFacts
        <4> QED BY <1>3, <1>4, <1>6, <4>1, <4>2
      <3>8. ASSUME maxStackSize > 0
            PROVE  /\ \E y \in Held' : Cov[y.state] = Cov[h.state]
                   /\ \A x \in Held : \E y \in Held' : Cov[y.state] = Cov[x.state]
        <4>1. PICK n \in Stack!Live' : n.hyp.cls = k.cls
          BY <3>6, <3>8
        <4>2. Cov[n.hyp.state] = Cov[h.state]
          BY <1>3, <1>4, <3>7, <4>1, SameClass
        <4>3. ASSUME NEW x \in Held
              PROVE  \E y \in Held' : Cov[y.state] = Cov[x.state]
          <5>1. PICK m \in Stack!Live : x = Restored(m.hyp)
            BY DEF Held
          <5>2. /\ x.state = m.hyp.state /\ Cov[m.hyp.state] \in Int
                /\ m.hyp.cls \in 2 * Cov[m.hyp.state] .. 2 * Cov[m.hyp.state] + 1
            BY <5>1, HeldFacts
          <5>3. PICK l \in Stack!Live' : l.hyp.cls = m.hyp.cls
            BY <3>6, <3>8
          <5>4. Cov[l.hyp.state] = Cov[m.hyp.state]
            BY <3>7, <5>2, <5>3, SameClass
          <5> QED BY <3>7, <5>2, <5>4
        <4> QED BY <3>7, <4>2, <4>3
      <3>9. ASSUME maxStackSize > Cardinality(Ids)
            PROVE  /\ h \in Held'
                   /\ \A x \in Held : \E y \in Held' : y.state = x.state /\ y.score >= x.score
        <4>1. h \in Held'
          BY <1>3, <1>6, <3>6, <3>9
        <4>2. ASSUME NEW x \in Held
              PROVE  \E y \in Held' : y.state = x.state /\ y.score >= x.score
          <5>1. PICK m \in Stack!Live : x = Restored(m.hyp)
            BY DEF Held
          <5>2. /\ x.state = m.hyp.state /\ x.score \in Int /\ G(m.hyp) \in Int
                /\ m.hyp.score = x.score + G(m.hyp) + request.heur[m.hyp.state]
            BY <5>1, HeldFacts
          <5>3. CASE m \in Stack!Live'
            BY <3>7, <5>1, <5>2, <5>3
          <5>4. CASE m.hyp.state = k.state
            <6>1. G(m.hyp) = G(h)
              BY <1>3, <5>4 DEF G
            <6>2. /\ m.hyp.score <= hypStateDict[h.state] /\ hypStateDict[h.state] <= k.score
                  /\ hypStateDict[h.state] \in Int /\ m.hyp.score \in Int
              BY <1>1, <1>3, <3>2, <5>4 DEF ContainerInv
            <6>3. m.hyp.score <= k.score
              BY <1>4, <6>2
            <6>4. /\ x.score + G(h) + request.heur[h.state] <= h.score + request.heur[h.state] + G(h)
              BY <1>3, <5>2, <5>4, <6>1, <6>3
            <6>5. x.score <= h.score
              BY <1>4, <5>2, <6>4
            <6> QED BY <1>3, <4>1, <5>2, <5>4, <6>5
          <5> QED BY <3>6, <3>9, <5>3, <5>4
        <4> QED BY <4>1, <4>2
      <3> QED BY <1>9, <2>1, <3>1, <3>2, <3>4, <3>5, <3>8, <3>9 DEF PushTakesHyp
    <2> QED BY <2>2, <2>3
  <1> QED BY <1>1, <1>8, <1>9 DEF PushHyp

-----------------------------------------------------------------------------
(* What the steps of a search do to the pool.                              *)

\* The hypotheses that a search keeps are of the classes of their states.
FitsInv == \A h \in Locals : Fits(h)

\* What the proofs about the result need of the container and of the
\* hypotheses.
BaseInv == DecoderInv /\ ContainerInv /\ FitsInv

(* A step that touches neither the container nor the request. *)
LEMMA ContainerKept ==
  ASSUME ContainerInv, UNCHANGED <<multiContainer, sortedStacksMap, recInfoMap, hypStateDict>>,
         maxStackSize' \in Nat, UNCHANGED request
  PROVE  /\ ContainerInv' /\ \A h : Fits(h)' <=> Fits(h)
         /\ UNCHANGED breadthFirst => Held' = Held
  <1>1. Stack!Live' = Stack!Live
    BY DEF Stack!Live, Stack!Classes
  <1>2. ContainerInv'
    BY <1>1 DEF ContainerInv, Fits, Stack!Classes
  <1>3. UNCHANGED breadthFirst => \A x : Restored(x)' = Restored(x)
    BY DEF Restored, G
  <1> QED BY <1>1, <1>2, <1>3 DEF Held, Fits

(* The null hypothesis fits, and so does what extends a hypothesis. *)
LEMMA NullFits ==
  ASSUME NEW r \in Requests
  PROVE  Fits(NullHyp(r))
  <1>1. Cov[r.root] = 0
    BY DecoderConstants
  <1> QED BY <1>1 DEF NullHyp, Fits

(* What extends a hypothesis fits, and follows by an arc of the request. *)
LEMMA SuccessorsFit ==
  ASSUME request \in Requests, NEW p, HypOK(p), NEW h \in Successors(p)
  PROVE  /\ Fits(h)
         /\ \E a \in request.arcs : a.from = p.state /\ h.state = a.to /\ h.score = p.score + a.score
  <1>1. PICK a \in request.arcs :
          /\ a.from = p.state
          /\ h = [cls |-> 2 * Cov[a.to] + (IF a.jump = 1 THEN 1 ELSE p.cls % 2),
                  state |-> a.to, score |-> p.score + a.score]
    BY DEF Successors
  <1>2. Cov[a.to] \in Nat /\ a.jump \in 0..1
    BY RequestFacts, DecoderConstants
  <1>3. p.cls \in Nat
    BY HypParts DEF HypOK
  <1>4. p.cls % 2 \in 0 .. 1
    BY <1>3
  <1>5. (IF a.jump = 1 THEN 1 ELSE p.cls % 2) \in 0 .. 1
    BY <1>4
  <1>6. h.cls \in 2 * Cov[h.state] .. 2 * Cov[h.state] + 1
    BY <1>1, <1>2, <1>5
  <1> QED BY <1>1, <1>6 DEF Fits

(* A pop moves a hypothesis within the pool. *)
LEMMA SelectPool ==
  ASSUME BaseInv, Select
  PROVE  /\ ContainerInv' /\ FitsInv' /\ maxStackSize' = maxStackSize
         /\ Pool' = Pool
         /\ \E c \in sortedStacksMap : \E n \in Stack!PopsFrom(multiContainer[c]) :
              /\ Stack!PopsStack(PopsFirstStack, c, n)
              /\ n \in Stack!Live /\ Queued' = Queued \cup {Restored(n.hyp)}
  <1>1. /\ UNCHANGED <<breadthFirst, request, pred, expandedHyps, result>>
        /\ DOMAIN multiContainer = Stack!Classes /\ sortedStacksMap \subseteq Stack!Classes
    BY SelectEffect DEF BaseInv, DecoderInv, SearchInv
  <1>2. PICK c \in sortedStacksMap : \E n \in Stack!PopsFrom(multiContainer[c]) :
          /\ Stack!PopNode(PopsFirstStack, c, n)
          /\ hypsToExpand' = Append(hypsToExpand, Restored(n.hyp))
    BY DEF Select, PopHyp
  <1>3. PICK n \in Stack!PopsFrom(multiContainer[c]) :
          /\ Stack!PopNode(PopsFirstStack, c, n)
          /\ hypsToExpand' = Append(hypsToExpand, Restored(n.hyp))
    BY <1>2
  <1>4. PICK first : first = PopsFirstStack
    OBVIOUS
  <1>5. n \in multiContainer[c] /\ c \in Stack!Classes
    BY <1>1 DEF Stack!PopsFrom, Stack!Tops
  <1>6. ContainerInv' /\ Stack!Live' = Stack!Live \ {n} /\ n \in Stack!Live
    BY <1>1, <1>3, <1>4, <1>5, PopContainer DEF BaseInv
  <1>7. PICK x : x = Restored(n.hyp)
    OBVIOUS
  <1>8. HypOK(x) /\ x \in HypSet /\ x \in Held /\ Fits(n.hyp) /\ x.state = n.hyp.state
    BY <1>6, <1>7, HeldFacts DEF BaseInv, HypOK, ContainerInv
  <1>9. PICK q : q = hypsToExpand
    OBVIOUS
  <1>10. q \in Seq(HypSet) /\ hypsToExpand' = Append(q, x)
    BY <1>3, <1>7, <1>9 DEF BaseInv, DecoderInv, SearchInv
  <1>11. PICK p, H : p = Append(q, x) /\ H = HypSet
    OBVIOUS
  <1>12. /\ DOMAIN q = 1 .. Len(q) /\ Len(q) \in Nat /\ DOMAIN p = 1 .. Len(q) + 1
         /\ p[Len(q) + 1] = x /\ \A i \in 1 .. Len(q) : p[i] = q[i]
    <2>1. q \in Seq(H) /\ x \in H
      BY <1>8, <1>10, <1>11
    <2>2. /\ p \in Seq(H) /\ Len(p) = Len(q) + 1
          /\ p[Len(q) + 1] = x /\ \A i \in 1 .. Len(q) : p[i] = q[i]
      BY <1>11, <2>1, AppendProperties
    <2> QED BY <2>1, <2>2, LenProperties
  <1>13. {p[i] : i \in DOMAIN p} = {q[i] : i \in DOMAIN q} \cup {x}
    <2>1. \A i \in DOMAIN q : i \in DOMAIN p /\ p[i] = q[i]
      BY <1>12
    <2>2. \A i \in DOMAIN p : i \in DOMAIN q \/ i = Len(q) + 1
      BY <1>12
    <2>3. Len(q) + 1 \in DOMAIN p
      BY <1>12
    <2> QED BY <1>12, <2>1, <2>2, <2>3
  <1>14. Queued' = Queued \cup {x}
    BY <1>9, <1>10, <1>11, <1>13 DEF Queued
  <1>15. Held' \subseteq Held /\ Held \subseteq Held' \cup {x}
    <2>1. \A k : Restored(k)' = Restored(k)
      BY <1>1 DEF Restored, G
    <2>2. Held' = {Restored(m.hyp) : m \in Stack!Live \ {n}}
      BY <1>6, <2>1 DEF Held
    <2> QED BY <1>7, <2>2 DEF Held
  <1>16. Pool' = Pool
    BY <1>8, <1>14, <1>15 DEF Pool
  <1>17. FitsInv'
    <2>1. Fits(x)
      <3>1. x.cls = n.hyp.cls
        <4>1. n.hyp \in HypSet
          BY <1>6 DEF BaseInv, DecoderInv, SearchInv, KeyOK
        <4> QED BY <1>7, <4>1 DEF Restored, HypSet
      <3> QED BY <1>8, <3>1 DEF Fits
    <2>2. Locals = Queued \cup expandedHyps \cup {pred, result}
      BY DEF Locals, Queued
    <2>3. Locals' = Queued' \cup expandedHyps' \cup {pred', result'}
      BY DEF Locals, Queued
    <2> QED BY <1>1, <1>14, <2>1, <2>2, <2>3 DEF BaseInv, FitsInv, Fits
  <1>18. maxStackSize' = maxStackSize /\ Stack!PopsStack(PopsFirstStack, c, n)
    BY <1>3 DEF Stack!PopNode
  <1> QED BY <1>6, <1>7, <1>14, <1>16, <1>17, <1>18

(* What is taken from the hypotheses to expand is the current one. *)
LEMMA NextHypPool ==
  ASSUME BaseInv, NextHyp
  PROVE  /\ phase = "expand" /\ expandedHyps = {}
         /\ Current \in Queued /\ Queued' \subseteq Queued /\ Queued \subseteq Queued' \cup {Current}
         /\ I = 1 => Queued' = {} /\ hypsToExpand' = <<>>
         /\ UNCHANGED <<breadthFirst, I, settled, state, request, call, phase, iterNo>>
         /\ HypOK(Current) /\ request \in Requests
  <1>1. /\ phase = "expand" /\ expandedHyps = {} /\ hypsToExpand # <<>> /\ HypOK(Current)
        /\ UNCHANGED <<breadthFirst, I, settled, state, request, call, phase, iterNo>>
        /\ hypsToExpand' = Tail(hypsToExpand)
    BY NextHypEffect DEF BaseInv, NextHyp
  <1>2. PICK q, H : q = hypsToExpand /\ H = HypSet
    OBVIOUS
  <1>3. q \in Seq(H) /\ q # <<>> /\ Len(q) <= I
    BY <1>1, <1>2 DEF BaseInv, DecoderInv, SearchInv, ScalarTypes
  <1>4. PICK p : p = Tail(q)
    OBVIOUS
  <1>5. /\ Len(q) \in Nat /\ Len(q) # 0 /\ DOMAIN q = 1 .. Len(q)
        /\ p \in Seq(H) /\ Len(p) = Len(q) - 1 /\ DOMAIN p = 1 .. Len(p)
        /\ \A i \in 1 .. Len(p) : p[i] = q[i + 1]
    BY <1>3, <1>4, HeadTailProperties, LenProperties, EmptySeq
  <1>6. Head(q) = q[1] /\ 1 \in DOMAIN q
    BY <1>3, <1>5
  <1>7. \A i \in DOMAIN p : i + 1 \in DOMAIN q /\ p[i] = q[i + 1]
    BY <1>5
  <1>8. \A i \in DOMAIN q : i = 1 \/ (i - 1 \in DOMAIN p /\ p[i - 1] = q[i])
    BY <1>5
  <1>9. Queued = {q[i] : i \in DOMAIN q} /\ Queued' = {p[i] : i \in DOMAIN p} /\ Current = Head(q)
    BY <1>1, <1>2, <1>4 DEF Queued, Current
  <1>10. ASSUME I = 1
         PROVE  Queued' = {} /\ hypsToExpand' = <<>>
    <2>1. Len(p) = 0
      BY <1>3, <1>5, <1>10
    <2>2. p = <<>>
      BY <1>5, <2>1, EmptySeq
    <2> QED BY <1>1, <1>2, <1>4, <1>9, <2>2
  <1> QED BY <1>1, <1>6, <1>7, <1>8, <1>9, <1>10 DEF BaseInv, DecoderInv, ScalarTypes

-----------------------------------------------------------------------------
(* The container and the classes stay as they must be.                     *)

(* They hold initially, ... *)
LEMMA BaseInit ==
  ASSUME Init
  PROVE  BaseInv /\ Held = {} /\ DOMAIN hypStateDict = {}
  <1>1. /\ \A c \in Stack!Classes : multiContainer[c] = {}
        /\ sortedStacksMap = {} /\ DOMAIN recInfoMap = {} /\ DOMAIN hypStateDict = {}
        /\ maxStackSize \in StackSizes
    BY DEF Init, Stack!Init, Stack!NoNodes, Stack!EmptyMap
  <1>2. Stack!Live = {} /\ Held = {}
    BY <1>1 DEF Stack!Live, Held
  <1>3. IsFiniteSet({}) /\ maxStackSize \in Nat
    BY <1>1, FS_EmptySet, DecoderConstants
  <1>4. ContainerInv
    BY <1>1, <1>2, <1>3 DEF ContainerInv
  <1>5. FitsInv
    <2>1. request \in Requests /\ hypsToExpand = <<>> /\ expandedHyps = {}
          /\ pred = NullHyp(request) /\ result = NullHyp(request)
      BY DEF Init
    <2> QED BY <2>1, NullFits DEF FitsInv, Locals
  <1> QED BY <1>1, <1>2, <1>4, <1>5, DecoderInit DEF BaseInv

(* The steps that begin or end a call, or set a parameter. *)
LEMMA CallContainer ==
  ASSUME BaseInv,
         \/ (\E r \in Requests : Translate(r)) \/ GetNextTrans \/ Clear
         \/ (\E n \in StackSizes : SetS(n)) \/ (\E n \in Expansions : SetI(n))
         \/ (\E b \in BOOLEAN : SetBreadthFirst(b) \/ UseBestScorePruning(b) \/ EnableWordGraph(b))
         \/ UNCHANGED vars
  PROVE  ContainerInv' /\ FitsInv'
  <1>1. ContainerInv /\ FitsInv /\ maxStackSize \in Nat
    BY DEF BaseInv, ContainerInv
  <1>2. ASSUME NEW r \in Requests, Translate(r)
        PROVE  ContainerInv' /\ FitsInv'
    <2>1. /\ Stack!Clear /\ hypsToExpand' = <<>> /\ pred' = NullHyp(r) /\ expandedHyps' = {}
          /\ result' = NullHyp(r)
      BY <1>2 DEF Translate, StartDecode
    <2>2. Locals' = {NullHyp(r)}
      BY <2>1 DEF Locals
    <2> QED BY <1>1, <2>1, <2>2, ClearContainer, NullFits DEF FitsInv, Fits
  <1>3. CASE GetNextTrans
    <2>1. /\ UNCHANGED <<stack, request>> /\ hypsToExpand' = <<>> /\ pred' = NullHyp(request)
          /\ expandedHyps' = {} /\ result' = NullHyp(request)
      BY <1>3 DEF GetNextTrans, StartDecode
    <2>2. Locals' = {NullHyp(request)} /\ request \in Requests
      BY <2>1 DEF Locals, BaseInv, DecoderInv, ScalarTypes
    <2>3. UNCHANGED <<maxStackSize, multiContainer, sortedStacksMap, recInfoMap, hypStateDict>>
      BY <2>1 DEF stack
    <2> QED BY <1>1, <2>1, <2>2, <2>3, ContainerKept, NullFits DEF FitsInv
  <1>4. CASE Clear
    <2>1. Stack!Clear /\ UNCHANGED <<hypsToExpand, pred, expandedHyps, result>>
      BY <1>4 DEF Clear, locals
    <2>2. Locals' = Locals
      BY <2>1 DEF Locals
    <2> QED BY <1>1, <2>1, <2>2, ClearContainer DEF FitsInv, Fits
  <1>5. ASSUME UNCHANGED <<hypsToExpand, pred, expandedHyps, result>>,
               UNCHANGED <<request, multiContainer, sortedStacksMap, recInfoMap, hypStateDict>>,
               maxStackSize' \in Nat
        PROVE  ContainerInv' /\ FitsInv'
    <2>1. Locals' = Locals
      BY <1>5 DEF Locals
    <2> QED BY <1>1, <1>5, <2>1, ContainerKept DEF FitsInv
  <1>6. ASSUME NEW n \in StackSizes, SetS(n)
        PROVE  ContainerInv' /\ FitsInv'
    <2>1. n \in Nat
      BY DecoderConstants
    <2> QED BY <1>5, <1>6, <2>1
            DEF SetS, SetParameter, task, locals, Stack!SetMaxStackSize, Stack!stacks
  <1>7. ASSUME NEW n \in Expansions, SetI(n)
        PROVE  ContainerInv' /\ FitsInv'
    BY <1>1, <1>5, <1>7 DEF SetI, SetParameter, task, locals, stack
  <1>8. ASSUME NEW b \in BOOLEAN,
               SetBreadthFirst(b) \/ UseBestScorePruning(b) \/ EnableWordGraph(b)
        PROVE  ContainerInv' /\ FitsInv'
    BY <1>1, <1>5, <1>8
       DEF SetBreadthFirst, UseBestScorePruning, EnableWordGraph, SetParameter, task, locals, stack
  <1>9. CASE UNCHANGED vars
    BY <1>1, <1>5, <1>9 DEF vars, task, locals, stack
  <1> QED BY <1>2, <1>3, <1>4, <1>6, <1>7, <1>8, <1>9

(* The steps of a search. *)
LEMMA SearchContainer ==
  ASSUME BaseInv, Step
  PROVE  ContainerInv' /\ FitsInv'
  <1>1. ContainerInv /\ FitsInv /\ maxStackSize \in Nat /\ DecoderInv /\ request \in Requests
    BY DEF BaseInv, ContainerInv, DecoderInv, ScalarTypes
  <1>2. Locals = Queued \cup expandedHyps \cup {pred, result}
    BY DEF Locals, Queued
  <1>3. Locals' = Queued' \cup expandedHyps' \cup {pred', result'}
    BY DEF Locals, Queued
  <1>4. \A h : Fits(h)' <=> Fits(h)
    BY DEF Fits
  <1>5. CASE SuggestNullHyp
    <2>1. PushHyp(NullHyp(request)) /\ HypOK(NullHyp(request)) /\ Fits(NullHyp(request))
      BY <1>1, <1>5, NullFits, NullHypOK DEF SuggestNullHyp
    <2>2. UNCHANGED <<request, breadthFirst, hypsToExpand, pred, expandedHyps, result>>
      BY <1>5 DEF SuggestNullHyp, parameters, task, locals
    <2>3. Locals' = Locals
      BY <2>2 DEF Locals
    <2> QED BY <1>1, <1>4, <2>1, <2>2, <2>3, PushOutcome DEF FitsInv
  <1>6. CASE Select
    BY <1>6, SelectPool
  <1>7. CASE BeginIteration \/ EndIteration
    <2>1. UNCHANGED <<hypsToExpand, pred, expandedHyps, result, stack, request>>
      BY <1>7 DEF BeginIteration, EndIteration, task
    <2>2. UNCHANGED <<multiContainer, sortedStacksMap, recInfoMap, hypStateDict, maxStackSize>>
      BY <2>1 DEF stack
    <2>3. Locals' = Locals
      BY <2>1 DEF Locals
    <2> QED BY <1>1, <1>4, <2>1, <2>2, <2>3, ContainerKept, NextHypPool DEF FitsInv
  <1>8. CASE TakeComplete
    <2>1. NextHyp /\ result' = Current /\ UNCHANGED <<pred, expandedHyps, stack>>
      BY <1>8 DEF TakeComplete
    <2>2. UNCHANGED <<multiContainer, sortedStacksMap, recInfoMap, hypStateDict, maxStackSize>>
      BY <2>1 DEF stack
    <2>3. Locals' \subseteq Locals
      BY <1>2, <1>3, <2>1, NextHypPool
    <2> QED BY <1>1, <1>4, <2>1, <2>2, <2>3, ContainerKept, NextHypPool DEF FitsInv
  <1>9. CASE ReturnComplete
    <2>1. NextHyp /\ PushHyp(Current) /\ UNCHANGED <<pred, expandedHyps, result>>
      BY <1>9 DEF ReturnComplete
    <2>2. PICK h : h = Current
      OBVIOUS
    <2>3. Locals' \subseteq Locals /\ h \in Locals /\ HypOK(h) /\ UNCHANGED <<request, breadthFirst>>
      BY <1>2, <1>3, <2>1, <2>2, NextHypPool
    <2>4. ContainerInv'
      BY <1>1, <2>1, <2>2, <2>3, PushOutcome DEF FitsInv
    <2> QED BY <1>1, <1>4, <2>3, <2>4 DEF FitsInv
  <1>10. CASE Expand
    <2>1. /\ NextHyp /\ pred' = Current /\ expandedHyps' = Successors(Current)
          /\ result' = Current \/ result' = result
          /\ UNCHANGED stack
      BY <1>10 DEF Expand
    <2>2. UNCHANGED <<multiContainer, sortedStacksMap, recInfoMap, hypStateDict, maxStackSize>>
      BY <2>1 DEF stack
    <2>3. PICK p : p = Current
      OBVIOUS
    <2>4. \A h \in Successors(p) : Fits(h)
      BY <1>1, <2>1, <2>3, NextHypPool, SuccessorsFit
    <2>5. \A h \in Locals' : h \in Locals \/ h \in Successors(p)
      BY <1>2, <1>3, <2>1, <2>3, NextHypPool
    <2> QED BY <1>1, <1>4, <2>1, <2>2, <2>4, <2>5, ContainerKept, NextHypPool DEF FitsInv
  <1>11. ASSUME NEW h \in expandedHyps, PushExpanded(h)
         PROVE  ContainerInv' /\ FitsInv'
    <2>1. /\ PushHyp(h) /\ expandedHyps' = expandedHyps \ {h}
          /\ UNCHANGED <<request, breadthFirst, hypsToExpand, pred, result>>
      BY <1>11 DEF PushExpanded, parameters, task
    <2>2. Locals' \subseteq Locals /\ h \in Locals
      BY <2>1 DEF Locals
    <2>3. HypOK(h) /\ Fits(h)
      BY <1>1, <2>2 DEF FitsInv, DecoderInv, SearchInv
    <2> QED BY <1>1, <1>4, <2>1, <2>2, <2>3, PushOutcome DEF FitsInv
  <1> QED BY <1>5, <1>6, <1>7, <1>8, <1>9, <1>10, <1>11 DEF Step

(* ... and every step keeps them. *)
LEMMA BaseStep ==
  ASSUME BaseInv, [Next]_vars
  PROVE  BaseInv'
  <1>1. DecoderInv'
    BY DecoderStep DEF BaseInv
  <1>2. CASE Step
    BY <1>1, <1>2, SearchContainer DEF BaseInv
  <1>3. CASE ~Step
    BY <1>1, <1>3, CallContainer DEF BaseInv, Next
  <1> QED BY <1>2, <1>3

-----------------------------------------------------------------------------
(* What a search has found is in the lattice.                              *)

\* h is the end of a derivation that has its score.
Derived(h) == \E d \in Lattice[request] : EndOf(d, request) = h.state /\ d.score = h.score

\* What is held, popped or expanded is derived, unless it has probability zero:
\* nothing has a score that the lattice does not give it.
DerivedInv ==
  settled =>
    /\ \A x \in Held : Derived(x)
    /\ call # "none" => \A x \in Queued \cup {pred, result} : Derived(x)
    /\ \A h \in expandedHyps : h.score >= -FLT_MAX => Derived(h)

(* What is derived stays so. *)
LEMMA DerivedKept ==
  ASSUME UNCHANGED request
  PROVE  \A h : Derived(h)' <=> Derived(h)
  BY DEF Derived, Lattice

(* The null hypothesis is. *)
LEMMA NullDerived ==
  ASSUME NEW r \in Requests
  PROVE  /\ \E d \in Lattice[r] : EndOf(d, r) = NullHyp(r).state /\ d.score = NullHyp(r).score
         /\ NullHyp(r).score = 0 /\ 0 >= -FLT_MAX
  <1>1. NullHyp(r).state = r.root /\ NullHyp(r).score = 0
    BY DEF NullHyp
  <1> QED BY <1>1, NullInLattice, NullWellFormed, RequestFacts

(* So is what extends a hypothesis that is, unless it has probability zero. *)
LEMMA SuccessorDerived ==
  ASSUME request \in Requests, NEW p, HypOK(p), Derived(p), NEW h \in Successors(p),
         h.score >= -FLT_MAX
  PROVE  Derived(h)
  <1>1. PICK d \in Lattice[request] : EndOf(d, request) = p.state /\ d.score = p.score
    BY DEF Derived
  <1>2. PICK a \in request.arcs : a.from = p.state /\ h.state = a.to /\ h.score = p.score + a.score
    BY SuccessorsFit
  <1>3. LeadsOn(d, a, request)
    BY <1>1, <1>2 DEF LeadsOn
  <1>4. WellFormed(d, request)
    BY LatticeMembers
  <1>5. /\ Then(d, a) \in Lattice[request] /\ EndOf(Then(d, a), request) = a.to
        /\ Then(d, a).score = d.score + a.score
    BY <1>3, <1>4, ThenParts, LatticeExtended
  <1> QED BY <1>1, <1>2, <1>5 DEF Derived

(* A push of such a hypothesis, and the steps between the calls. *)
LEMMA DerivedPush ==
  ASSUME BaseInv, DerivedInv, settled, NEW h, HypOK(h), Fits(h), PushHyp(h),
         UNCHANGED <<request, breadthFirst>>, h.score >= -FLT_MAX => Derived(h)
  PROVE  \A x \in Held' : Derived(x)'
  <1>1. PushDrops(h) \/ PushKnowsBetter(h) \/ PushTakesHyp(h)
    BY PushOutcome DEF BaseInv
  <1>2. Held' = Held \/ (Held' \subseteq Held \cup {h} /\ Derived(h))
    BY <1>1 DEF PushDrops, PushKnowsBetter, PushTakesHyp
  <1> QED BY <1>2, DerivedKept DEF DerivedInv

(* The calls keep it, ... *)
LEMMA DerivedCall ==
  ASSUME BaseInv, DerivedInv,
         \/ (\E r \in Requests : Translate(r)) \/ GetNextTrans \/ Clear
         \/ (\E n \in StackSizes : SetS(n)) \/ (\E n \in Expansions : SetI(n))
         \/ (\E b \in BOOLEAN : SetBreadthFirst(b) \/ UseBestScorePruning(b) \/ EnableWordGraph(b))
         \/ UNCHANGED vars
  PROVE  DerivedInv'
  <1>1. maxStackSize \in Nat /\ request \in Requests /\ (phase = "idle" => expandedHyps = {})
    BY DEF BaseInv, ContainerInv, DecoderInv, ScalarTypes, PhaseInv
  <1>2. ASSUME Stack!Clear
        PROVE  Held' = {}
    <2>1. Stack!Live' = {}
      BY <1>1, <1>2, ClearContainer
    <2> QED BY <2>1 DEF Held
  <1>3. ASSUME NEW r \in Requests, Translate(r)
        PROVE  DerivedInv'
    <2>1. /\ Stack!Clear /\ hypsToExpand' = <<>> /\ pred' = NullHyp(r) /\ expandedHyps' = {}
          /\ result' = NullHyp(r) /\ request' = r
      BY <1>3 DEF Translate, StartDecode
    <2>2. Queued' = {}
      BY <2>1 DEF Queued
    <2>3. Derived(pred)' /\ Derived(result)'
      BY <2>1, NullDerived DEF Derived, Lattice
    <2> QED BY <1>2, <2>1, <2>2, <2>3 DEF DerivedInv
  <1>4. CASE GetNextTrans
    <2>1. /\ UNCHANGED <<stack, request, breadthFirst, settled>> /\ settled
          /\ hypsToExpand' = <<>> /\ pred' = NullHyp(request)
          /\ expandedHyps' = {} /\ result' = NullHyp(request)
      BY <1>4 DEF GetNextTrans, StartDecode, parameters
    <2>2. Queued' = {}
      BY <2>1 DEF Queued
    <2>3. Derived(NullHyp(request))
      BY <1>1, NullDerived DEF Derived
    <2>4. UNCHANGED <<maxStackSize, multiContainer, sortedStacksMap, recInfoMap, hypStateDict>>
      BY <2>1 DEF stack
    <2>5. Held' = Held
      BY <1>1, <2>1, <2>4, ContainerKept DEF BaseInv
    <2> QED BY <2>1, <2>2, <2>3, <2>5, DerivedKept DEF DerivedInv
  <1>5. CASE Clear
    <2>1. Stack!Clear /\ UNCHANGED <<expandedHyps>> /\ phase = "idle" /\ call' = "none"
      BY <1>5 DEF Clear, locals
    <2> QED BY <1>1, <1>2, <2>1 DEF DerivedInv
  <1>6. CASE UNCHANGED vars
    <2>1. UNCHANGED <<request, breadthFirst, settled, call, pred, result, expandedHyps, hypsToExpand,
                      maxStackSize, multiContainer, sortedStacksMap, recInfoMap, hypStateDict>>
      BY <1>6 DEF vars, parameters, task, locals, stack
    <2>2. Held' = Held
      BY <1>1, <2>1, ContainerKept DEF BaseInv
    <2> QED BY <2>1, <2>2, DerivedKept DEF DerivedInv, Queued
  <1>7. ASSUME settled' = FALSE
        PROVE  DerivedInv'
    BY <1>7 DEF DerivedInv
  <1> QED BY <1>3, <1>4, <1>5, <1>6, <1>7
          DEF SetS, SetI, SetBreadthFirst, UseBestScorePruning, EnableWordGraph, SetParameter

(* ... the steps of a search do, ... *)
LEMMA DerivedSearch ==
  ASSUME BaseInv, DerivedInv, Step
  PROVE  DerivedInv'
  <1>1. /\ ContainerInv /\ FitsInv /\ maxStackSize \in Nat /\ DecoderInv /\ request \in Requests
        /\ phase # "expand" => expandedHyps = {}
    BY DEF BaseInv, ContainerInv, DecoderInv, ScalarTypes, PhaseInv
  <1>2. settled /\ call # "none"
    <2>1. phase # "idle"
      BY DEF Step, SuggestNullHyp, Select, BeginIteration, TakeComplete, ReturnComplete, Expand,
             NextHyp, PushExpanded, EndIteration
    <2> QED BY <1>1, <2>1 DEF DecoderInv, PhaseInv
  <1>3. /\ \A x \in Held : Derived(x)
        /\ \A x \in Queued \cup {pred, result} : Derived(x)
        /\ \A h \in expandedHyps : h.score >= -FLT_MAX => Derived(h)
    BY <1>2 DEF DerivedInv
  <1>4. UNCHANGED <<request, breadthFirst, call, settled>>
    BY <1>1, NextHypPool DEF BaseInv, Step, SuggestNullHyp, Select, BeginIteration, TakeComplete, ReturnComplete,
             Expand, NextHyp, PushExpanded, EndIteration, parameters, task
  <1>5. \A h : Derived(h)' <=> Derived(h)
    BY <1>4, DerivedKept
  <1>6. UNCHANGED stack => Held' = Held
    <2>1. UNCHANGED stack => UNCHANGED <<maxStackSize, multiContainer, sortedStacksMap, recInfoMap,
                                         hypStateDict>>
      BY DEF stack
    <2> QED BY <1>1, <1>4, <2>1, ContainerKept
  <1>7. CASE SuggestNullHyp
    <2>1. PushHyp(NullHyp(request)) /\ HypOK(NullHyp(request)) /\ Fits(NullHyp(request))
          /\ Derived(NullHyp(request))
      BY <1>1, <1>7, NullFits, NullHypOK, NullDerived DEF SuggestNullHyp, Derived
    <2>2. UNCHANGED <<hypsToExpand, pred, expandedHyps, result>>
      BY <1>7 DEF SuggestNullHyp, locals
    <2>3. \A x \in Held' : Derived(x)'
      BY <1>2, <1>4, <2>1, DerivedPush
    <2> QED BY <1>3, <1>5, <2>2, <2>3 DEF DerivedInv, Queued
  <1>8. CASE Select
    <2>1. Pool' = Pool /\ UNCHANGED <<pred, expandedHyps, result>>
      BY <1>8, SelectPool, SelectEffect DEF BaseInv
    <2>2. \A x \in Pool : Derived(x)
      BY <1>3 DEF Pool
    <2> QED BY <1>3, <1>5, <2>1, <2>2 DEF DerivedInv, Pool
  <1>9. CASE BeginIteration \/ EndIteration
    <2>1. UNCHANGED <<hypsToExpand, pred, expandedHyps, result, stack>>
      BY <1>9 DEF BeginIteration, EndIteration
    <2> QED BY <1>3, <1>5, <1>6, <2>1 DEF DerivedInv, Queued
  <1>10. CASE TakeComplete
    <2>1. NextHyp /\ result' = Current /\ UNCHANGED <<pred, expandedHyps, stack>>
      BY <1>10 DEF TakeComplete
    <2>2. Queued' \subseteq Queued /\ Current \in Queued
      BY <2>1, NextHypPool
    <2> QED BY <1>3, <1>5, <1>6, <2>1, <2>2 DEF DerivedInv
  <1>11. CASE ReturnComplete
    <2>1. NextHyp /\ PushHyp(Current) /\ UNCHANGED <<pred, expandedHyps, result>>
      BY <1>11 DEF ReturnComplete
    <2>2. PICK h : h = Current
      OBVIOUS
    <2>3. Queued' \subseteq Queued /\ h \in Queued /\ HypOK(h)
      BY <2>1, <2>2, NextHypPool
    <2>4. Fits(h) /\ PushHyp(h)
      BY <1>1, <2>1, <2>2, <2>3 DEF FitsInv, Locals, Queued
    <2>5. \A x \in Held' : Derived(x)'
      BY <1>2, <1>3, <1>4, <2>3, <2>4, DerivedPush
    <2> QED BY <1>3, <1>5, <2>1, <2>3, <2>5 DEF DerivedInv
  <1>12. CASE Expand
    <2>1. /\ NextHyp /\ pred' = Current /\ expandedHyps' = Successors(Current)
          /\ result' = Current \/ result' = result
          /\ UNCHANGED stack
      BY <1>12 DEF Expand
    <2>2. PICK p : p = Current
      OBVIOUS
    <2>3. Queued' \subseteq Queued /\ p \in Queued /\ HypOK(p)
      BY <2>1, <2>2, NextHypPool
    <2>4. \A h \in Successors(p) : h.score >= -FLT_MAX => Derived(h)
      BY <1>1, <1>3, <2>3, SuccessorDerived
    <2> QED BY <1>3, <1>5, <1>6, <2>1, <2>2, <2>3, <2>4 DEF DerivedInv
  <1>13. ASSUME NEW h \in expandedHyps, PushExpanded(h)
         PROVE  DerivedInv'
    <2>1. /\ PushHyp(h) /\ expandedHyps' = expandedHyps \ {h}
          /\ UNCHANGED <<hypsToExpand, pred, result>>
      BY <1>13 DEF PushExpanded
    <2>2. HypOK(h) /\ Fits(h)
      BY <1>1 DEF FitsInv, DecoderInv, SearchInv, Locals
    <2>3. \A x \in Held' : Derived(x)'
      BY <1>2, <1>3, <1>4, <2>1, <2>2, DerivedPush
    <2> QED BY <1>3, <1>5, <2>1, <2>3 DEF DerivedInv, Queued
  <1> QED BY <1>7, <1>8, <1>9, <1>10, <1>11, <1>12, <1>13 DEF Step

(* ... and it holds initially. *)
LEMMA DerivedInit ==
  ASSUME Init
  PROVE  DerivedInv
  <1>1. Held = {} /\ call = "none" /\ expandedHyps = {}
    BY BaseInit DEF Init
  <1> QED BY <1>1 DEF DerivedInv

(* Every step keeps it. *)
LEMMA DerivedStep ==
  ASSUME BaseInv, DerivedInv, [Next]_vars
  PROVE  DerivedInv'
  <1>1. CASE Step
    BY <1>1, DerivedSearch
  <1>2. CASE ~Step
    BY <1>2, DerivedCall DEF Next
  <1> QED BY <1>1, <1>2

-----------------------------------------------------------------------------
(* Pruning does not lose all translations.                                 *)

\* A search that has not found its result.
Searching == phase \in {"select", "expand"} /\ ~end

\* A search of a lattice without dead ends, with stacks that hold something.
Pruned ==
  settled /\ call = "translate" /\ state # "IDLE" /\ I > 0 /\ maxStackSize > 0
    /\ request \in NoDeadEnds

\* Something that the search can still expand covers as many words as
\* anything that it has seen.
Furthest ==
  \/ \E x \in Pool : \A s \in DOMAIN hypStateDict : Cov[s] <= Cov[x.state]
  \/ \E x \in expandedHyps : /\ x.score >= -FLT_MAX
                             /\ \A s \in DOMAIN hypStateDict : Cov[s] < Cov[x.state]

\* The score of a complete hypothesis prunes only when one was seen.
BestSeen == bestCompleteHyp # {} => \E s \in DOMAIN hypStateDict : Cov[s] = request.words

\* What ends a search is its result.
BeamInv ==
  Pruned =>
    /\ phase = "suggest" => DOMAIN hypStateDict = {} /\ bestCompleteHyp = {}
    /\ phase \in {"suggest", "select"} => ~end
    /\ Searching => Furthest /\ BestSeen
    /\ end => Complete(result)
    /\ phase = "idle" => end \/ iterNo >= MAX_NUM_OF_ITER

(* From a hypothesis that is not complete an arc leads on. *)
LEMMA NoDeadEnd ==
  ASSUME request \in Requests, request \in NoDeadEnds, NEW p, HypOK(p), Derived(p), ~Complete(p)
  PROVE  \E h \in Successors(p) : h.score >= -FLT_MAX /\ Cov[p.state] < Cov[h.state]
  <1>1. PICK d \in Lattice[request] : EndOf(d, request) = p.state /\ d.score = p.score
    BY DEF Derived
  <1>2. PICK t \in Translations[request] :
          Len(d.arcs) <= Len(t.arcs) /\ SubSeq(t.arcs, 1, Len(d.arcs)) = d.arcs
    BY <1>1 DEF NoDeadEnds
  <1>3. t \in Lattice[request] /\ Cov[EndOf(t, request)] = request.words
    BY DEF Translations
  <1>4. Begins(d, t, request)
    BY <1>1, <1>2 DEF Begins
  <1>5. Len(d.arcs) # Len(t.arcs)
    BY <1>1, <1>3, <1>4, BeginsEnds DEF Complete
  <1>6. PICK a \in request.arcs : LeadsOn(d, a, request)
    BY <1>3, <1>4, <1>5, NextOn
  <1>7. a.from = p.state /\ p.score + a.score >= -FLT_MAX
    BY <1>1, <1>6 DEF LeadsOn
  <1>8. PICK h : h = [cls   |-> 2 * Cov[a.to] + (IF a.jump = 1 THEN 1 ELSE p.cls % 2),
                      state |-> a.to, score |-> p.score + a.score]
    OBVIOUS
  <1>9. h \in Successors(p)
    BY <1>7, <1>8 DEF Successors
  <1>10. h.score = p.score + a.score /\ Cov[p.state] < Cov[h.state]
    BY <1>7, <1>8, <1>9, SuccessorsOK
  <1> QED BY <1>7, <1>9, <1>10

(* A step of a search changes neither the request nor the parameters. *)
LEMMA SearchKeeps ==
  ASSUME BaseInv, Step
  PROVE  /\ UNCHANGED <<breadthFirst, I, settled, state, request, call, maxStackSize>>
         /\ settled /\ call # "none" /\ state # "IDLE" /\ phase # "idle"
         /\ request \in Requests /\ maxStackSize \in Nat
  <1>1. UNCHANGED <<breadthFirst, I, settled, state, request, call>>
    BY NextHypPool DEF Step, SuggestNullHyp, Select, BeginIteration, TakeComplete, ReturnComplete,
             Expand, NextHyp, PushExpanded, EndIteration, parameters, task
  <1>2. phase # "idle"
    BY DEF Step, SuggestNullHyp, Select, BeginIteration, TakeComplete, ReturnComplete, Expand,
           NextHyp, PushExpanded, EndIteration
  <1>3. /\ settled /\ call # "none" /\ state # "IDLE" /\ request \in Requests
        /\ maxStackSize \in Nat
    BY <1>2 DEF BaseInv, DecoderInv, PhaseInv, ScalarTypes, ContainerInv
  <1>4. ASSUME NEW h, PushHyp(h)
        PROVE  UNCHANGED maxStackSize
    BY <1>4 DEF PushHyp, Stack!Push, stack
  <1>5. UNCHANGED maxStackSize
    <2>1. Select => UNCHANGED maxStackSize
      BY SelectPool
    <2>2. BeginIteration \/ TakeComplete \/ Expand \/ EndIteration => UNCHANGED maxStackSize
      BY DEF BeginIteration, TakeComplete, Expand, EndIteration, stack
    <2>3. SuggestNullHyp \/ ReturnComplete \/ (\E h \in expandedHyps : PushExpanded(h))
            => \E h : PushHyp(h)
      BY DEF SuggestNullHyp, ReturnComplete, PushExpanded
    <2> QED BY <1>4, <2>1, <2>2, <2>3 DEF Step
  <1> QED BY <1>1, <1>2, <1>3, <1>5

(* A step that keeps the container keeps what it holds. *)
LEMMA HeldKept ==
  ASSUME BaseInv, UNCHANGED <<stack, request, breadthFirst>>
  PROVE  Held' = Held /\ UNCHANGED hypStateDict
  <1>1. UNCHANGED <<maxStackSize, multiContainer, sortedStacksMap, recInfoMap, hypStateDict>>
    BY DEF stack
  <1>2. ContainerInv /\ maxStackSize \in Nat
    BY DEF BaseInv, ContainerInv
  <1> QED BY <1>1, <1>2, ContainerKept

(* Nothing can be selected when the pool is not empty only if something was. *)
LEMMA NothingLeft ==
  ASSUME BaseInv, phase = "select", ~MoreToSelect, I > 0, NothingToExpand
  PROVE  Pool = {} /\ expandedHyps = {}
  <1>1. hypsToExpand = <<>> /\ Len(hypsToExpand) < I /\ Queued = {}
    BY DEF NothingToExpand, Queued
  <1>2. sortedStacksMap = {} /\ Stack!Live = {}
    BY <1>1 DEF MoreToSelect, BaseInv, ContainerInv, Stack!Live
  <1>3. Held = {} /\ expandedHyps = {}
    BY <1>2 DEF Held, BaseInv, DecoderInv, PhaseInv
  <1> QED BY <1>1, <1>3 DEF Pool

(* The null hypothesis is taken by the empty container. *)
LEMMA SuggestTakes ==
  ASSUME BaseInv, SuggestNullHyp, DOMAIN hypStateDict = {}, bestCompleteHyp = {}
  PROVE  /\ PushTakesHyp(NullHyp(request)) /\ DOMAIN hypStateDict' = {request.root}
         /\ phase' = "select" /\ UNCHANGED <<end, expandedHyps, hypsToExpand, result>>
         /\ Cov[request.root] = 0 /\ NullHyp(request).state = request.root
  <1>1. PICK h : h = NullHyp(request)
    OBVIOUS
  <1>2. DecoderInv /\ ContainerInv /\ request \in Requests
    BY DEF BaseInv, DecoderInv, ScalarTypes
  <1>3. /\ PushHyp(h) /\ phase' = "select" /\ UNCHANGED <<request, breadthFirst>>
        /\ UNCHANGED <<end, expandedHyps, hypsToExpand, result>>
    BY <1>1 DEF SuggestNullHyp, task, parameters, locals
  <1>4. HypOK(h) /\ Fits(h) /\ h.score = 0 /\ 0 >= -FLT_MAX /\ h.state = request.root
    BY <1>1, <1>2, NullHypOK, NullFits, NullDerived DEF NullHyp
  <1>5. PushDrops(h) \/ PushKnowsBetter(h) \/ PushTakesHyp(h)
    BY <1>2, <1>3, <1>4, PushOutcome
  <1>6. ~PushDrops(h)
    <2>1. ~(0 < -FLT_MAX)
      BY <1>4, DecoderConstants
    <2> QED BY <1>4, <2>1 DEF PushDrops, PrunedByScore
  <1>7. ~PushKnowsBetter(h)
    BY DEF PushKnowsBetter
  <1>8. PushTakesHyp(h)
    BY <1>5, <1>6, <1>7
  <1>9. DOMAIN hypStateDict' = {request.root}
    BY <1>4, <1>8 DEF PushTakesHyp, Stack!With
  <1> QED BY <1>1, <1>2, <1>3, <1>4, <1>8, <1>9, RequestFacts

(* The first push, ... *)
LEMMA BeamSuggest ==
  ASSUME BaseInv, BeamInv, Pruned, SuggestNullHyp
  PROVE  BeamInv'
  <1>1. DOMAIN hypStateDict = {} /\ bestCompleteHyp = {} /\ ~end /\ maxStackSize > 0
    BY DEF BeamInv, SuggestNullHyp, Pruned
  <1>2. PICK h : h = NullHyp(request)
    OBVIOUS
  <1>3. /\ PushTakesHyp(h) /\ DOMAIN hypStateDict' = {request.root}
        /\ phase' = "select" /\ UNCHANGED <<end, expandedHyps, hypsToExpand, result>>
        /\ Cov[request.root] = 0 /\ h.state = request.root /\ UNCHANGED request
    BY <1>1, <1>2, SuggestTakes, SearchKeeps DEF Step
  <1>4. Furthest'
    <2>1. PICK y \in Held' : Cov[y.state] = Cov[h.state]
      BY <1>1, <1>3 DEF PushTakesHyp
    <2>2. \A s \in DOMAIN hypStateDict' : Cov[s] <= Cov[y.state]
      BY <1>3, <2>1
    <2> QED BY <2>1, <2>2 DEF Furthest, Pool
  <1>5. BestSeen'
    <2>1. bestCompleteHyp' # {} => Complete(h)
      BY <1>1, <1>3 DEF PushTakesHyp
    <2> QED BY <1>3, <2>1 DEF BestSeen, Complete
  <1> QED BY <1>1, <1>3, <1>4, <1>5 DEF BeamInv

(* ... the pops, which move hypotheses within the pool, ... *)
LEMMA BeamSelect ==
  ASSUME BaseInv, BeamInv, Pruned, Select
  PROVE  BeamInv'
  <1>1. Pool' = Pool
    BY SelectPool
  <1>2. /\ UNCHANGED <<phase, expandedHyps, result, end, bestCompleteHyp, hypStateDict>>
        /\ phase = "select" /\ UNCHANGED request
    BY SearchKeeps DEF Select, PopHyp, Stack!PopNode, task, Step
  <1>3. ~end /\ Furthest /\ BestSeen
    BY <1>2 DEF BeamInv, Searching
  <1> QED BY <1>1, <1>2, <1>3 DEF BeamInv, Furthest, BestSeen

(* ... the begin of an iteration, which finds something to expand, ... *)
LEMMA BeamBegin ==
  ASSUME BaseInv, BeamInv, Pruned, BeginIteration
  PROVE  BeamInv'
  <1>1. /\ phase = "select" /\ ~MoreToSelect /\ phase' = "expand" /\ end' = NothingToExpand
        /\ UNCHANGED <<stack, request, breadthFirst, hypsToExpand, expandedHyps, result, bestCompleteHyp>>
    BY SearchKeeps DEF BeginIteration, Step
  <1>2. Furthest /\ BestSeen /\ I > 0
    BY <1>1 DEF BeamInv, Searching, Pruned
  <1>3. ~NothingToExpand
    <2>1. Pool # {} \/ expandedHyps # {}
      BY <1>2 DEF Furthest
    <2> QED BY <1>1, <1>2, <2>1, NothingLeft
  <1>4. Held' = Held /\ UNCHANGED hypStateDict
    BY <1>1, HeldKept
  <1>5. Pool' = Pool
    BY <1>1, <1>4 DEF Pool, Queued
  <1> QED BY <1>1, <1>2, <1>3, <1>4, <1>5 DEF BeamInv, Furthest, BestSeen

(* ... its end, ... *)
LEMMA BeamEnd ==
  ASSUME BaseInv, BeamInv, Pruned, EndIteration
  PROVE  BeamInv'
  <1>1. /\ phase = "expand" /\ (IF end \/ iterNo' >= MAX_NUM_OF_ITER THEN phase' = "idle"
                                                                     ELSE phase' = "select")
        /\ UNCHANGED <<stack, request, breadthFirst, hypsToExpand, expandedHyps, result, end, bestCompleteHyp>>
    BY SearchKeeps DEF EndIteration, Step
  <1>2. ~end => Furthest /\ BestSeen
    BY <1>1 DEF BeamInv, Searching
  <1>3. Held' = Held /\ UNCHANGED hypStateDict
    BY <1>1, HeldKept
  <1>4. Pool' = Pool
    BY <1>1, <1>3 DEF Pool, Queued
  <1>5. (Searching => Furthest /\ BestSeen)'
    BY <1>1, <1>2, <1>3, <1>4 DEF Furthest, BestSeen, Searching
  <1>6. Complete(result)' <=> Complete(result)
    BY <1>1 DEF Complete
  <1> QED BY <1>1, <1>5, <1>6 DEF BeamInv

(* ... the hypothesis that is taken, which becomes the result or is expanded,
   ... *)
LEMMA BeamNext ==
  ASSUME BaseInv, DerivedInv, BeamInv, Pruned, TakeComplete \/ ReturnComplete \/ Expand
  PROVE  BeamInv'
  <1>1. PICK p : p = Current
    OBVIOUS
  <1>2. NextHyp /\ UNCHANGED <<request, breadthFirst>>
    BY SearchKeeps DEF TakeComplete, ReturnComplete, Expand, Step
  <1>3. /\ phase = "expand" /\ UNCHANGED phase /\ expandedHyps = {} /\ p \in Queued
        /\ Queued' \subseteq Queued /\ Queued \subseteq Queued' \cup {p}
        /\ HypOK(p) /\ request \in Requests
    BY <1>1, <1>2, NextHypPool
  <1>4. ~end => Furthest /\ BestSeen
    BY <1>3 DEF BeamInv, Searching
  <1>5. end => Complete(result)
    BY DEF BeamInv
  <1>6. \A h : Complete(h)' <=> Complete(h)
    BY <1>2 DEF Complete
  <1>7. CASE TakeComplete
    BY <1>1, <1>3, <1>6, <1>7 DEF TakeComplete, BeamInv, Searching
  <1>8. CASE ReturnComplete
    BY <1>3, <1>5, <1>6, <1>8 DEF ReturnComplete, BeamInv, Searching
  <1>9. CASE Expand
    <2>1. /\ ~Complete(p) /\ expandedHyps' = Successors(p) /\ UNCHANGED <<end, bestCompleteHyp, stack>>
          /\ result' = IF Further(p) THEN p ELSE result
      BY <1>1, <1>9 DEF Expand
    <2>2. Held' = Held /\ UNCHANGED hypStateDict
      BY <1>2, <2>1, HeldKept
    <2>3. ASSUME end
          PROVE  result' = result
      <3>1. Cov[p.state] \in 0 .. request.words /\ Cov[p.state] # request.words
            /\ request.words \in Nat
        BY <1>3, <2>1, HypParts, RequestFacts DEF HypOK, Complete
      <3>2. Cov[result.state] = request.words
        BY <1>5, <2>3 DEF Complete
      <3> QED BY <2>1, <3>1, <3>2 DEF Further
    <2>4. ASSUME ~end
          PROVE  Furthest' /\ BestSeen'
      <3>1. PICK x \in Pool : \A s \in DOMAIN hypStateDict : Cov[s] <= Cov[x.state]
        BY <1>3, <1>4, <2>4 DEF Furthest
      <3>2. BestSeen'
        BY <1>2, <1>4, <2>1, <2>2, <2>4 DEF BestSeen
      <3>3. CASE x \in Pool'
        BY <2>2, <3>1, <3>2, <3>3 DEF Furthest
      <3>4. CASE x = p
        <4>1. Derived(p) /\ request \in NoDeadEnds
          BY <1>3 DEF DerivedInv, Pruned
        <4>2. PICK h \in Successors(p) : h.score >= -FLT_MAX /\ Cov[p.state] < Cov[h.state]
          BY <1>3, <2>1, <4>1, NoDeadEnd
        <4>3. HypOK(h) /\ Cov[h.state] \in Int /\ Cov[p.state] \in Int
          <5>1. HypOK(h)
            BY <1>3, <4>2, SuccessorsOK
          <5> QED BY <1>3, <5>1, HypParts DEF HypOK
        <4>4. \A s \in DOMAIN hypStateDict : Cov[s] \in Int
          BY DEF BaseInv, ContainerInv
        <4>5. \A s \in DOMAIN hypStateDict : Cov[s] < Cov[h.state]
          BY <3>1, <3>4, <4>2, <4>3, <4>4
        <4> QED BY <2>1, <2>2, <3>2, <4>2, <4>5 DEF Furthest
      <3>5. x \in Pool' \/ x = p
        BY <1>3, <2>2, <3>1 DEF Pool
      <3> QED BY <3>3, <3>4, <3>5
    <2> QED BY <1>3, <1>5, <1>6, <2>1, <2>3, <2>4 DEF BeamInv, Searching
  <1> QED BY <1>7, <1>8, <1>9

(* What the push of an expansion leaves of what is furthest. *)
LEMMA FurthestPush ==
  ASSUME BaseInv, Furthest, BestSeen, maxStackSize > 0, NEW h \in expandedHyps, HypOK(h),
         UNCHANGED <<request, breadthFirst>>, UNCHANGED hypsToExpand,
         expandedHyps' = expandedHyps \ {h},
         PushDrops(h) \/ PushKnowsBetter(h) \/ PushTakesHyp(h)
  PROVE  Furthest' /\ BestSeen'
  <1>1. /\ request \in Requests /\ Cov[h.state] \in 0 .. request.words /\ request.words \in Nat
        /\ \A s \in DOMAIN hypStateDict : Cov[s] \in 0 .. request.words
    <2>1. request \in Requests /\ h \in HypSet
      BY DEF BaseInv, DecoderInv, ScalarTypes, HypOK
    <2> QED BY <2>1, HypParts, RequestFacts DEF BaseInv, ContainerInv
  <1>2. Queued' = Queued
    BY DEF Queued
  <1>3. \A x \in Pool : Cov[x.state] \in Int
    BY PoolFacts DEF BaseInv
  <1>4. \A x \in expandedHyps : Cov[x.state] \in Int
    <2>1. \A x \in expandedHyps : x \in HypSet /\ request \in Requests
      BY DEF BaseInv, DecoderInv, SearchInv, ScalarTypes, Locals, HypOK
    <2> QED BY <2>1, HypParts
  <1>5. CASE PushTakesHyp(h)
    <2>1. DOMAIN hypStateDict' = DOMAIN hypStateDict \cup {h.state}
      BY <1>5 DEF PushTakesHyp, Stack!With
    <2>2. PICK z \in Held' : Cov[z.state] = Cov[h.state]
      BY <1>5 DEF PushTakesHyp
    <2>3. z \in Pool'
      BY DEF Pool
    <2>4. BestSeen'
      <3>1. bestCompleteHyp' = bestCompleteHyp \/ Complete(h)
        BY <1>5 DEF PushTakesHyp
      <3> QED BY <2>1, <3>1 DEF BestSeen, Complete
    <2>5. ASSUME \A s \in DOMAIN hypStateDict : Cov[s] <= Cov[h.state]
          PROVE  Furthest'
      <3>1. \A s \in DOMAIN hypStateDict' : Cov[s] <= Cov[z.state]
        BY <1>1, <2>1, <2>2, <2>5
      <3> QED BY <2>3, <3>1 DEF Furthest
    <2>6. ASSUME NEW x \in Pool, \A s \in DOMAIN hypStateDict : Cov[s] <= Cov[x.state]
          PROVE  Furthest'
      <3>1. PICK y \in Pool' : Cov[y.state] = Cov[x.state]
        <4>1. CASE x \in Queued
          BY <1>2, <4>1 DEF Pool
        <4>2. CASE x \in Held
          BY <1>5, <4>2 DEF PushTakesHyp, Pool
        <4> QED BY <4>1, <4>2 DEF Pool
      <3>2. CASE Cov[h.state] <= Cov[x.state]
        <4>1. \A s \in DOMAIN hypStateDict' : Cov[s] <= Cov[y.state]
          BY <2>1, <2>6, <3>1, <3>2
        <4> QED BY <4>1 DEF Furthest
      <3>3. CASE Cov[h.state] > Cov[x.state]
        <4>1. \A s \in DOMAIN hypStateDict : Cov[s] <= Cov[h.state]
          BY <1>1, <1>3, <2>6, <3>3
        <4> QED BY <2>5, <4>1
      <3> QED BY <1>1, <1>3, <3>2, <3>3
    <2>7. ASSUME NEW x \in expandedHyps, x.score >= -FLT_MAX,
                 \A s \in DOMAIN hypStateDict : Cov[s] < Cov[x.state]
          PROVE  Furthest'
      <3>1. CASE Cov[h.state] < Cov[x.state]
        <4>1. \A s \in DOMAIN hypStateDict' : Cov[s] < Cov[x.state]
          BY <2>1, <2>7, <3>1
        <4>2. x \in expandedHyps'
          BY <1>1, <3>1
        <4> QED BY <2>7, <4>1, <4>2 DEF Furthest
      <3>2. CASE Cov[h.state] >= Cov[x.state]
        <4>1. \A s \in DOMAIN hypStateDict : Cov[s] <= Cov[h.state]
          BY <1>1, <1>4, <2>7, <3>2
        <4> QED BY <2>5, <4>1
      <3> QED BY <1>1, <1>4, <3>1, <3>2
    <2> QED BY <2>4, <2>6, <2>7 DEF Furthest
  <1>6. CASE PushDrops(h) \/ PushKnowsBetter(h)
    <2>1. UNCHANGED <<Held, hypStateDict, bestCompleteHyp>> /\ Pool' = Pool
      BY <1>2, <1>6 DEF PushDrops, PushKnowsBetter, Pool
    <2>2. BestSeen'
      BY <2>1 DEF BestSeen
    <2>3. ASSUME h.score >= -FLT_MAX, \A s \in DOMAIN hypStateDict : Cov[s] < Cov[h.state]
          PROVE  FALSE
      <3>1. CASE PushDrops(h)
        <4>1. ~(h.score < -FLT_MAX)
          <5>1. h.score \in Int /\ FLT_MAX \in Nat
            BY DecoderConstants DEF HypOK, HypSet
          <5> QED BY <2>3, <5>1
        <4>2. bestCompleteHyp # {}
          BY <3>1, <4>1 DEF PushDrops, PrunedByScore
        <4>3. PICK s \in DOMAIN hypStateDict : Cov[s] = request.words
          BY <4>2 DEF BestSeen
        <4> QED BY <1>1, <2>3, <4>3
      <3>2. CASE PushKnowsBetter(h)
        BY <1>1, <2>3, <3>2 DEF PushKnowsBetter
      <3> QED BY <1>6, <3>1, <3>2
    <2>4. Furthest'
      <3>1. CASE \E x \in Pool : \A s \in DOMAIN hypStateDict : Cov[s] <= Cov[x.state]
        BY <2>1, <3>1 DEF Furthest
      <3>2. ASSUME NEW x \in expandedHyps, x.score >= -FLT_MAX,
                   \A s \in DOMAIN hypStateDict : Cov[s] < Cov[x.state]
            PROVE  Furthest'
        <4>1. x # h
          BY <2>3, <3>2
        <4> QED BY <2>1, <3>2, <4>1 DEF Furthest
      <3> QED BY <3>1, <3>2 DEF Furthest
    <2> QED BY <2>2, <2>4
  <1> QED BY <1>5, <1>6

(* ... and the push of what extends it, which leaves one that covers as much. *)
LEMMA BeamPush ==
  ASSUME BaseInv, BeamInv, Pruned, NEW h \in expandedHyps, PushExpanded(h)
  PROVE  BeamInv'
  <1>1. /\ PushHyp(h) /\ expandedHyps' = expandedHyps \ {h} /\ phase = "expand"
        /\ UNCHANGED <<phase, hypsToExpand, result, end, request, breadthFirst>>
    BY SearchKeeps DEF PushExpanded, Step
  <1>2. DecoderInv /\ ContainerInv /\ HypOK(h) /\ Fits(h)
    BY DEF BaseInv, FitsInv, DecoderInv, SearchInv, Locals
  <1>3. PushDrops(h) \/ PushKnowsBetter(h) \/ PushTakesHyp(h)
    BY <1>1, <1>2, PushOutcome
  <1>4. ~end => Furthest /\ BestSeen /\ maxStackSize > 0
    BY <1>1 DEF BeamInv, Searching, Pruned
  <1>5. ~end => Furthest' /\ BestSeen'
    BY <1>1, <1>2, <1>3, <1>4, FurthestPush
  <1>6. end => Complete(result)'
    BY <1>1 DEF BeamInv, Complete
  <1> QED BY <1>1, <1>5, <1>6 DEF BeamInv, Searching

(* The steps between the calls. *)
LEMMA BeamCall ==
  ASSUME BaseInv, BeamInv,
         \/ (\E r \in Requests : Translate(r)) \/ GetNextTrans \/ Clear
         \/ (\E n \in StackSizes : SetS(n)) \/ (\E n \in Expansions : SetI(n))
         \/ (\E b \in BOOLEAN : SetBreadthFirst(b) \/ UseBestScorePruning(b) \/ EnableWordGraph(b))
         \/ UNCHANGED vars
  PROVE  BeamInv'
  <1>1. ASSUME NEW r \in Requests, Translate(r)
        PROVE  BeamInv'
    <2>1. maxStackSize \in Nat /\ Stack!Clear /\ end' = FALSE
      BY <1>1 DEF Translate, StartDecode, BaseInv, ContainerInv
    <2>2. DOMAIN hypStateDict' = {}
      BY <2>1, ClearContainer
    <2>3. state' = "IDLE" \/ (phase' = "suggest" /\ bestCompleteHyp' = {})
      BY <1>1 DEF Translate
    <2> QED BY <2>1, <2>2, <2>3 DEF BeamInv, Pruned, Searching
  <1>2. CASE GetNextTrans \/ Clear
    <2>1. call' # "translate"
      BY <1>2 DEF GetNextTrans, Clear
    <2> QED BY <2>1 DEF BeamInv, Pruned
  <1>3. ASSUME settled' = FALSE
        PROVE  BeamInv'
    BY <1>3 DEF BeamInv, Pruned
  <1>4. CASE UNCHANGED vars
    <2>1. UNCHANGED <<I, settled, state, request, call, phase, end, result, iterNo, bestCompleteHyp,
                      hypsToExpand, expandedHyps, stack, breadthFirst, maxStackSize>>
      BY <1>4 DEF vars, parameters, task, locals, stack
    <2>2. Held' = Held /\ UNCHANGED hypStateDict
      BY <2>1, HeldKept
    <2>3. Pool' = Pool
      BY <2>1, <2>2 DEF Pool, Queued
    <2>4. (Pruned' <=> Pruned) /\ (Searching' <=> Searching) /\ (Furthest' <=> Furthest)
          /\ (BestSeen' <=> BestSeen) /\ (Complete(result)' <=> Complete(result))
      BY <2>1, <2>2, <2>3 DEF Pruned, Searching, Furthest, BestSeen, Complete
    <2> QED BY <2>1, <2>2, <2>4 DEF BeamInv
  <1> QED BY <1>1, <1>2, <1>3, <1>4
          DEF SetS, SetI, SetBreadthFirst, UseBestScorePruning, EnableWordGraph, SetParameter

(* Every step keeps the invariant. *)
LEMMA BeamStep ==
  ASSUME BaseInv, DerivedInv, BeamInv, [Next]_vars
  PROVE  BeamInv'
  <1>1. CASE Step /\ Pruned
    BY <1>1, BeamSuggest, BeamSelect, BeamBegin, BeamNext, BeamPush, BeamEnd DEF Step
  <1>2. CASE Step /\ ~Pruned
    <2>1. UNCHANGED <<I, settled, state, request, call, maxStackSize>>
      BY <1>2, SearchKeeps
    <2>2. ~Pruned'
      BY <1>2, <2>1 DEF Pruned
    <2> QED BY <2>2 DEF BeamInv
  <1>3. CASE ~Step
    BY <1>3, BeamCall DEF Next
  <1> QED BY <1>1, <1>2, <1>3

\* A search that did not give up after MAX_NUM_OF_ITER iterations.
NotGivenUp == iterNo < MAX_NUM_OF_ITER

(* However small the stacks are and however many hypotheses are expanded at a
   time, translate returns a complete hypothesis of a lattice without dead
   ends, unless it gives up. *)
THEOREM BeamInvariance == Spec => [](NotGivenUp => BeamFindsTranslation)
  <1>1. Init => BaseInv /\ DerivedInv /\ BeamInv
    <2>1. Init => call = "none"
      BY DEF Init
    <2>2. Init => BeamInv
      BY <2>1 DEF BeamInv, Pruned
    <2> QED BY <2>2, BaseInit, DerivedInit
  <1>2. (BaseInv /\ DerivedInv /\ BeamInv) /\ [Next]_vars => (BaseInv /\ DerivedInv /\ BeamInv)'
    BY BaseStep, DerivedStep, BeamStep
  <1>3. BaseInv /\ DerivedInv /\ BeamInv => (NotGivenUp => BeamFindsTranslation)
    <2>1. SUFFICES ASSUME BaseInv, BeamInv, NotGivenUp, Translated, I > 0, maxStackSize > 0,
                          request \in NoDeadEnds
                   PROVE  Complete(result)
      BY DEF BeamFindsTranslation
    <2>2. Pruned /\ phase = "idle"
      BY <2>1 DEF Pruned, Translated
    <2>3. end \/ iterNo >= MAX_NUM_OF_ITER
      BY <2>1, <2>2 DEF BeamInv
    <2>4. ~(iterNo >= MAX_NUM_OF_ITER)
      <3>1. iterNo \in Int /\ MAX_NUM_OF_ITER \in Int
        BY <2>1, DecoderConstants DEF BaseInv, DecoderInv, ScalarTypes
      <3> QED BY <2>1, <3>1 DEF NotGivenUp
    <2> QED BY <2>1, <2>2, <2>3, <2>4 DEF BeamInv
  <1> QED BY <1>1, <1>2, <1>3, PTL DEF Spec

-----------------------------------------------------------------------------
(* The result is the best translation.                                     *)

\* What push would store for the derivation p.
Key(p) ==
  p.score + request.heur[EndOf(p, request)]
    + (IF breadthFirst THEN Cov[EndOf(p, request)] * G_EPSILON ELSE 0)

\* Something as good as p was pushed.
Seen(p) ==
  EndOf(p, request) \in DOMAIN hypStateDict /\ hypStateDict[EndOf(p, request)] >= Key(p)

\* x is as good as the derivation q.
Matches(x, q) == x.state = EndOf(q, request) /\ x.score >= q.score

\* The search can go on from p to t, or has something as good as t.
Open(p, t) ==
  \/ \E x \in Pool : Complete(x) /\ x.score >= t.score
  \/ \E q \in Lattice[request] : Begins(q, t, request) /\
       \/ \E x \in Pool : Matches(x, q) /\ Cov[EndOf(p, request)] <= Cov[EndOf(q, request)]
       \/ \E x \in expandedHyps :
            Matches(x, q) /\ Cov[EndOf(p, request)] < Cov[EndOf(q, request)]

\* A search with stacks that hold everything, one hypothesis expanded at a
\* time and an admissible heuristic.
Unpruned ==
  /\ settled /\ call = "translate" /\ state # "IDLE" /\ I = 1
  /\ maxStackSize > Cardinality(Ids) /\ (bf => breadthFirst)
  /\ request \in Admissible /\ Translations[request] # {}

\* The way to every translation is open from what was seen of it, ...
WaysOpen ==
  /\ Seen(NullDerivation)
  /\ \A t \in Translations[request] : \A p \in Lattice[request] :
       Begins(p, t, request) /\ Seen(p) => Open(p, t)

\* ... the score that prunes is that of something the search still has, ...
BestHeld == \A b \in bestCompleteHyp : \E x \in Pool : Complete(x) /\ Stored(x).score >= b.score

\* ... and what is popped complete is the best translation.
PopsBest ==
  \A x \in Queued : Complete(x) => \A t \in Translations[request] : t.score <= x.score

\* A search that prunes nothing: a way to each translation is open until its
\* result is found, and nothing is better than that.
OptimalInv ==
  Unpruned =>
    /\ phase = "suggest" => DOMAIN hypStateDict = {} /\ bestCompleteHyp = {}
    /\ phase \in {"suggest", "select"} => ~end
    /\ Searching => WaysOpen /\ BestHeld /\ PopsBest
    /\ end => /\ Complete(result) /\ \A t \in Translations[request] : t.score <= result.score
              /\ hypsToExpand = <<>> /\ expandedHyps = {}
    /\ phase = "idle" => end \/ iterNo >= MAX_NUM_OF_ITER

(* What covers more words has a lower g. *)
LEMMA GOrder ==
  ASSUME NEW x, NEW y, Cov[x.state] \in Nat, Cov[y.state] \in Nat, Cov[x.state] <= Cov[y.state]
  PROVE  G(x) \in Int /\ G(y) \in Int /\ G(y) <= G(x)
  <1>1. G_EPSILON \in Int /\ G_EPSILON <= 0
    BY DecoderConstants
  <1>2. ASSUME NEW a \in Nat, NEW b \in Nat, a <= b, NEW e \in Int, e <= 0
        PROVE  a * e \in Int /\ b * e \in Int /\ b * e <= a * e
    <2>1. PICK c : c = b - a
      OBVIOUS
    <2>2. c \in Nat /\ b = a + c
      BY <1>2, <2>1
    <2>3. c * e \in Int /\ c * e <= 0
      BY <1>2, <2>2
    <2>4. b * e = a * e + c * e
      BY <1>2, <2>2
    <2>5. a * e \in Int
      BY <1>2
    <2> QED BY <2>3, <2>4, <2>5
  <1>3. /\ Cov[x.state] * G_EPSILON \in Int /\ Cov[y.state] * G_EPSILON \in Int
        /\ Cov[y.state] * G_EPSILON <= Cov[x.state] * G_EPSILON
    BY <1>1, <1>2
  <1> QED BY <1>3 DEF G

(* Nothing is expected of a derived hypothesis that is complete. *)
LEMMA CompleteHeuristic ==
  ASSUME request \in Requests, request \in Admissible, NEW x, Derived(x), Complete(x)
  PROVE  request.heur[x.state] = 0
  <1>1. PICK d \in Lattice[request] : EndOf(d, request) = x.state
    BY DEF Derived
  <1>2. d \in Translations[request]
    BY <1>1 DEF Translations, Complete
  <1> QED BY <1>1, <1>2, HeuristicBounds

(* Of a derivation that something matches. *)
LEMMA LatticeScores ==
  ASSUME NEW r \in Requests, NEW d \in Lattice[r]
  PROVE  /\ d.score \in Int /\ d.score >= -FLT_MAX
         /\ Cov[EndOf(d, r)] \in 0 .. r.words /\ r.heur[EndOf(d, r)] \in Int
  BY LatticeMembers DEF WellFormed

(* The key of a derivation is what push stores for what matches it exactly. *)
LEMMA KeyOfMatch ==
  ASSUME request \in Requests, NEW q \in Lattice[request], NEW h, HypOK(h),
         h.state = EndOf(q, request)
  PROVE  /\ Key(q) \in Int /\ Stored(h).score \in Int
         /\ Stored(h).score - Key(q) = h.score - q.score
         /\ h.score \in Int /\ q.score \in Int
  <1>1. /\ q.score \in Int /\ h.score \in Int /\ request.heur[h.state] \in Int /\ G(h) \in Int
    BY LatticeScores, HypParts DEF HypOK
  <1>2. Stored(h).score = h.score + request.heur[h.state] + G(h)
    BY StoredRestored
  <1>3. Key(q) = q.score + request.heur[h.state] + G(h)
    BY DEF Key, G
  <1> QED BY <1>1, <1>2, <1>3

(* A complete hypothesis of a stored score that is not below that of h is as
   good as every translation that begins with what h matches. *)
LEMMA CompleteBeats ==
  ASSUME BaseInv, request \in Requests, request \in Admissible, NEW x, HypOK(x), Derived(x),
         Complete(x), NEW h, HypOK(h), Stored(h).score <= Stored(x).score,
         NEW t \in Translations[request], NEW q, Begins(q, t, request), Matches(h, q)
  PROVE  t.score <= x.score
  <1>1. q \in Lattice[request] /\ h.state = EndOf(q, request) /\ h.score >= q.score
        /\ t \in Lattice[request] /\ t.score <= q.score + request.heur[h.state]
    BY HeuristicBounds DEF Begins, Matches
  <1>2. q.score \in Int /\ t.score \in Int
    BY <1>1, LatticeScores
  <1>3. /\ x.score \in Int /\ h.score \in Int /\ request.heur[h.state] \in Int
        /\ Cov[x.state] \in 0 .. request.words /\ Cov[h.state] \in 0 .. request.words
        /\ request.words \in Nat
    BY HypParts, RequestFacts DEF HypOK
  <1>4. Cov[x.state] = request.words /\ request.heur[x.state] = 0
    BY CompleteHeuristic DEF Complete
  <1>5. G(h) \in Int /\ G(x) \in Int /\ G(x) <= G(h)
    BY <1>3, <1>4, GOrder
  <1>6. /\ Stored(x).score = x.score + request.heur[x.state] + G(x)
        /\ Stored(h).score = h.score + request.heur[h.state] + G(h)
    BY StoredRestored
  <1>7. h.score + request.heur[h.state] + G(h) <= x.score + 0 + G(x)
    BY <1>4, <1>6
  <1> QED BY <1>1, <1>2, <1>3, <1>5, <1>7

(* What the definitions say in a step of a search of the same request. *)
LEMMA RequestKept ==
  ASSUME UNCHANGED <<request, breadthFirst>>
  PROVE  /\ Lattice' = Lattice /\ Translations' = Translations
         /\ \A p : Key(p)' = Key(p)
         /\ \A h : (Complete(h)' <=> Complete(h)) /\ Stored(h)' = Stored(h)
         /\ \A x, q : Matches(x, q)' <=> Matches(x, q)
         /\ \A q, t : Begins(q, t, request)' <=> Begins(q, t, request)
         /\ \A p : EndOf(p, request)' = EndOf(p, request)
  <1>1. Lattice' = Lattice /\ Translations' = Translations
    BY DEF Lattice, Translations
  <1>2. \A p : EndOf(p, request)' = EndOf(p, request)
    BY DEF EndOf
  <1>3. \A p : Key(p)' = Key(p)
    BY <1>2 DEF Key
  <1>4. \A h : (Complete(h)' <=> Complete(h)) /\ Stored(h)' = Stored(h)
    BY DEF Complete, Stored, WithHeuristic, G
  <1>5. \A x, q : Matches(x, q)' <=> Matches(x, q)
    BY <1>2 DEF Matches
  <1>6. \A q, t : Begins(q, t, request)' <=> Begins(q, t, request)
    BY <1>1 DEF Begins
  <1> QED BY <1>1, <1>2, <1>3, <1>4, <1>5, <1>6

(* A step that keeps what the search looks at keeps what is said of it. *)
LEMMA WaysKept ==
  ASSUME UNCHANGED <<request, breadthFirst, Pool, expandedHyps, hypStateDict, bestCompleteHyp>>
  PROVE  (WaysOpen' <=> WaysOpen) /\ (BestHeld' <=> BestHeld)
  <1>1. \A p : Seen(p)' <=> Seen(p)
    BY RequestKept DEF Seen
  <1>2. \A p, t : Open(p, t)' <=> Open(p, t)
    BY RequestKept DEF Open
  <1>3. WaysOpen' <=> WaysOpen
    BY <1>1, <1>2, RequestKept DEF WaysOpen
  <1>4. BestHeld' <=> BestHeld
    BY RequestKept DEF BestHeld
  <1> QED BY <1>3, <1>4

(* The first push, ... *)
LEMMA OptimalSuggest ==
  ASSUME BaseInv, OptimalInv, Unpruned, SuggestNullHyp
  PROVE  OptimalInv'
  <1>1. DOMAIN hypStateDict = {} /\ bestCompleteHyp = {} /\ ~end /\ maxStackSize > Cardinality(Ids)
    BY DEF OptimalInv, SuggestNullHyp, Unpruned
  <1>2. PICK h : h = NullHyp(request)
    OBVIOUS
  <1>3. /\ PushTakesHyp(h) /\ DOMAIN hypStateDict' = {request.root}
        /\ phase' = "select" /\ UNCHANGED <<end, expandedHyps, hypsToExpand, result>>
        /\ Cov[request.root] = 0 /\ h.state = request.root /\ request \in Requests
        /\ UNCHANGED <<request, breadthFirst>>
    BY <1>1, <1>2, SuggestTakes, SearchKeeps DEF Step
  <1>4. HypOK(h) /\ h.score = 0
    BY <1>2, <1>3, NullHypOK DEF NullHyp
  <1>5. h \in Held' /\ h \in Pool'
    BY <1>1, <1>3 DEF PushTakesHyp, Pool
  <1>6. PICK q : q = NullDerivation
    OBVIOUS
  <1>7. q \in Lattice[request] /\ EndOf(q, request) = request.root /\ q.score = 0
    BY <1>3, <1>6, NullInLattice, NullWellFormed
  <1>8. Matches(h, q)
    BY <1>3, <1>4, <1>7 DEF Matches
  <1>9. Seen(q)'
    <2>1. hypStateDict'[request.root] = Stored(h).score
      BY <1>3 DEF PushTakesHyp, Stack!With
    <2>2. Stored(h).score >= Key(q)
      BY <1>3, <1>4, <1>7, KeyOfMatch
    <2> QED BY <1>3, <1>7, <2>1, <2>2, RequestKept DEF Seen
  <1>10. ASSUME NEW t \in Translations[request], NEW p, Seen(p)'
         PROVE  Open(p, t)'
    <2>1. EndOf(p, request) = request.root
      BY <1>3, <1>10, RequestKept DEF Seen
    <2>2. Begins(q, t, request)
      BY <1>3, <1>6, BeginsEnds DEF Translations
    <2>3. Cov[EndOf(p, request)] <= Cov[EndOf(q, request)]
      BY <1>3, <1>7, <2>1
    <2> QED BY <1>3, <1>5, <1>7, <1>8, <2>2, <2>3, RequestKept DEF Open
  <1>11. WaysOpen'
    BY <1>3, <1>6, <1>9, <1>10, RequestKept DEF WaysOpen
  <1>12. BestHeld'
    <2>1. \A b \in bestCompleteHyp' : Complete(h) /\ b = Stored(h)
      BY <1>1, <1>3 DEF PushTakesHyp
    <2>2. Stored(h).score \in Int
      BY <1>3, <1>4, <1>7, KeyOfMatch
    <2> QED BY <1>3, <1>5, <2>1, <2>2, RequestKept DEF BestHeld
  <1>13. PopsBest'
    <2>1. hypsToExpand = <<>>
      BY DEF SuggestNullHyp, BaseInv, DecoderInv, PhaseInv
    <2>2. Queued' = {}
      BY <1>3, <2>1 DEF Queued
    <2> QED BY <2>2 DEF PopsBest
  <1> QED BY <1>1, <1>3, <1>11, <1>12, <1>13 DEF OptimalInv

(* Pop does not take from the first sub-stack when it gives a complete
   hypothesis: then what it gives is stored with the highest score. *)
LEMMA CompletePopped ==
  ASSUME BaseInv, bf => breadthFirst, NEW c \in sortedStacksMap,
         NEW n \in Stack!PopsFrom(multiContainer[c]),
         Stack!PopsStack(PopsFirstStack, c, n), Complete(n.hyp)
  PROVE  \A m \in Stack!Live : m.hyp.score <= n.hyp.score
  <1>1. c \in Stack!Classes /\ n \in multiContainer[c] /\ n \in Stack!Live
    BY DEF Stack!PopsFrom, Stack!Tops, BaseInv, DecoderInv, SearchInv, Stack!Live
  <1>2. \A d \in Stack!Classes : \A m \in multiContainer[d] : m.hyp.cls = d /\ m \in Stack!Live
    BY DEF BaseInv, ContainerInv, Stack!Live
  <1>3. \A m \in Stack!Live : /\ m.hyp.cls \in 2 * Cov[m.hyp.state] .. 2 * Cov[m.hyp.state] + 1
                              /\ Cov[m.hyp.state] \in Int /\ m.hyp.cls \in Int
    <2>1. ASSUME NEW m \in Stack!Live
          PROVE  /\ m.hyp.cls \in 2 * Cov[m.hyp.state] .. 2 * Cov[m.hyp.state] + 1
                 /\ Cov[m.hyp.state] \in Int
      BY HeldFacts DEF BaseInv
    <2> QED BY <2>1
  <1>4. PICK first : first = PopsFirstStack
    OBVIOUS
  <1>5. ~first
    <2>1. ASSUME breadthFirst, first
          PROVE  FALSE
      <3>1. PICK d \in sortedStacksMap :
              /\ \A e \in sortedStacksMap : d <= e
              /\ \E m \in Stack!Tops(multiContainer[d]) : ~Complete(m.hyp)
        BY <1>4, <2>1 DEF PopsFirstStack
      <3>2. PICK m \in Stack!Tops(multiContainer[d]) : ~Complete(m.hyp)
        BY <3>1
      <3>3. d \in Stack!Classes /\ m \in multiContainer[d]
        BY <3>1, <3>2 DEF BaseInv, DecoderInv, SearchInv, Stack!Tops
      <3>4. \A e \in sortedStacksMap : c <= e
        BY <1>4, <2>1 DEF Stack!PopsStack
      <3>5. c \in Int /\ d \in Int /\ m \in Stack!Live
        BY <1>1, <1>2, <1>3, <3>3
      <3>6. c <= d /\ d <= c
        BY <3>1, <3>4
      <3>7. c = d
        BY <3>5, <3>6
      <3>8. n.hyp.cls = m.hyp.cls
        BY <1>1, <1>2, <3>3, <3>7
      <3>9. Cov[n.hyp.state] = Cov[m.hyp.state]
        BY <1>1, <1>3, <3>5, <3>8, SameClass
      <3> QED BY <3>2, <3>9 DEF Complete
    <2>2. breadthFirst \/ ~bf
      OBVIOUS
    <2> QED BY <1>4, <2>1, <2>2 DEF PopsFirstStack
  <1>6. ASSUME NEW m \in Stack!Live
        PROVE  m.hyp.score <= n.hyp.score
    <2>1. PICK d \in Stack!Classes : m \in multiContainer[d]
      BY DEF Stack!Live
    <2>2. d \in sortedStacksMap
      BY <2>1 DEF BaseInv, ContainerInv
    <2>3. Stack!PopsStack(first, c, n)
      BY <1>4
    <2>4. m.hyp.score < n.hyp.score \/ m.hyp.score = n.hyp.score \/ m.hyp.score <= n.hyp.score
      BY <1>5, <2>1, <2>2, <2>3 DEF Stack!PopsStack
    <2>5. m.hyp.score \in Int /\ n.hyp.score \in Int
      BY <1>1 DEF BaseInv, ContainerInv
    <2> QED BY <2>4, <2>5
  <1> QED BY <1>6

(* A node holds what push stores for what pop makes of it. *)
LEMMA HeldStored ==
  ASSUME BaseInv, NEW n \in Stack!Live
  PROVE  Stored(Restored(n.hyp)).score = n.hyp.score
  <1>1. request \in Requests /\ DecoderInv /\ ContainerInv
    BY DEF BaseInv, DecoderInv, ScalarTypes
  <1>2. PICK x : x = Restored(n.hyp)
    OBVIOUS
  <1>3. /\ HypOK(x) /\ x.state = n.hyp.state /\ x.score \in Int /\ G(n.hyp) \in Int
        /\ request.heur[n.hyp.state] \in Int
        /\ n.hyp.score = x.score + G(n.hyp) + request.heur[n.hyp.state]
    BY <1>1, <1>2, HeldFacts
  <1>4. Stored(x).score = x.score + request.heur[x.state] + G(x)
    BY <1>1, <1>3, StoredRestored
  <1>5. G(x) = G(n.hyp)
    BY <1>3 DEF G
  <1> QED BY <1>2, <1>3, <1>4, <1>5

(* ... the pop, which takes a complete hypothesis only if it is the best, ... *)
LEMMA OptimalSelect ==
  ASSUME BaseInv, DerivedInv, OptimalInv, Unpruned, Select
  PROVE  OptimalInv'
  <1>1. PICK c \in sortedStacksMap : \E n \in Stack!PopsFrom(multiContainer[c]) :
          /\ Stack!PopsStack(PopsFirstStack, c, n)
          /\ n \in Stack!Live /\ Queued' = Queued \cup {Restored(n.hyp)}
    BY SelectPool
  <1>2. PICK n \in Stack!PopsFrom(multiContainer[c]) :
          /\ Stack!PopsStack(PopsFirstStack, c, n)
          /\ n \in Stack!Live /\ Queued' = Queued \cup {Restored(n.hyp)}
    BY <1>1
  <1>3. /\ UNCHANGED <<phase, expandedHyps, result, end, bestCompleteHyp, hypStateDict>>
        /\ phase = "select" /\ UNCHANGED <<request, breadthFirst>> /\ Pool' = Pool
    BY SearchKeeps, SelectPool DEF Select, PopHyp, Stack!PopNode, task, Step
  <1>4. ~end /\ WaysOpen /\ BestHeld /\ PopsBest
    BY <1>3 DEF OptimalInv, Searching
  <1>5. WaysOpen' /\ BestHeld'
    BY <1>3, <1>4, WaysKept
  <1>6. PICK x : x = Restored(n.hyp)
    OBVIOUS
  <1>7. request \in Requests /\ request \in Admissible /\ DecoderInv /\ ContainerInv
    BY DEF BaseInv, DecoderInv, ScalarTypes, Unpruned
  <1>8. /\ HypOK(x) /\ Derived(x) /\ x.state = n.hyp.state /\ x \in Held
        /\ Stored(x).score = n.hyp.score
    BY <1>2, <1>6, <1>7, HeldFacts, HeldStored DEF DerivedInv, Unpruned
  <1>9. Queued = {} /\ expandedHyps = {} /\ Pool = Held
    <2>1. Len(hypsToExpand) < 1 /\ I = 1
      BY DEF Select, MoreToSelect, Unpruned
    <2>2. PICK s, H : s = hypsToExpand /\ H = HypSet
      OBVIOUS
    <2>3. s \in Seq(H) /\ Len(s) < 1
      BY <2>1, <2>2 DEF BaseInv, DecoderInv, SearchInv
    <2>4. DOMAIN s = {}
      BY <2>3
    <2> QED BY <1>3, <2>2, <2>4 DEF Queued, Pool, BaseInv, DecoderInv, PhaseInv
  <1>10. ASSUME Complete(x), NEW t \in Translations[request]
         PROVE  t.score <= x.score
    <2>1. Complete(n.hyp) /\ (bf => breadthFirst)
      BY <1>8, <1>10 DEF Complete, Unpruned
    <2>2. \A m \in Stack!Live : m.hyp.score <= n.hyp.score
      BY <1>2, <2>1, CompletePopped
    <2>3. NullDerivation \in Lattice[request] /\ Begins(NullDerivation, t, request)
      BY <1>7, NullInLattice, BeginsEnds DEF Translations
    <2>4. Open(NullDerivation, t)
      BY <1>4, <2>3 DEF WaysOpen
    <2>5. ASSUME NEW y \in Held
          PROVE  HypOK(y) /\ Stored(y).score <= Stored(x).score
      <3>1. PICK m \in Stack!Live : y = Restored(m.hyp)
        BY DEF Held
      <3> QED BY <1>7, <1>8, <2>2, <3>1, HeldFacts, HeldStored
    <2>6. CASE \E y \in Held : Complete(y) /\ y.score >= t.score
      <3>1. PICK y \in Held : Complete(y) /\ y.score >= t.score
        BY <2>6
      <3>2. PICK d \in Lattice[request] : EndOf(d, request) = y.state /\ d.score = y.score
        BY DEF DerivedInv, Unpruned, Derived
      <3>3. d \in Translations[request] /\ Begins(d, d, request) /\ d.score \in Int
        BY <1>7, <3>1, <3>2, BeginsEnds, LatticeScores DEF Translations, Complete
      <3>4. Matches(y, d)
        BY <3>2, <3>3 DEF Matches
      <3>5. d.score <= x.score
        BY <1>7, <1>8, <1>10, <2>5, <3>3, <3>4, CompleteBeats
      <3>6. t.score \in Int /\ x.score \in Int
        BY <1>7, <1>8, LatticeScores DEF HypOK, HypSet, Translations
      <3> QED BY <3>1, <3>2, <3>3, <3>5, <3>6
    <2>7. CASE \E q \in Lattice[request] : Begins(q, t, request) /\ \E y \in Held : Matches(y, q)
      BY <1>7, <1>8, <1>10, <2>5, <2>7, CompleteBeats
    <2> QED BY <1>9, <2>4, <2>6, <2>7 DEF Open
  <1>11. PopsBest'
    BY <1>2, <1>3, <1>6, <1>9, <1>10, RequestKept DEF PopsBest
  <1> QED BY <1>3, <1>4, <1>5, <1>11 DEF OptimalInv

(* ... the begin of an iteration, ... *)
LEMMA OptimalBegin ==
  ASSUME BaseInv, OptimalInv, Unpruned, BeginIteration
  PROVE  OptimalInv'
  <1>1. /\ phase = "select" /\ ~MoreToSelect /\ phase' = "expand" /\ end' = NothingToExpand
        /\ UNCHANGED <<stack, request, breadthFirst, hypsToExpand, expandedHyps, result, bestCompleteHyp>>
        /\ request \in Requests
    BY SearchKeeps DEF BeginIteration, Step
  <1>2. WaysOpen /\ BestHeld /\ PopsBest /\ I > 0 /\ Translations[request] # {}
    BY <1>1 DEF OptimalInv, Searching, Unpruned
  <1>3. ~NothingToExpand
    <2>1. PICK t \in Translations[request] : TRUE
      BY <1>2
    <2>2. NullDerivation \in Lattice[request] /\ Begins(NullDerivation, t, request)
      BY <1>1, NullInLattice, BeginsEnds DEF Translations
    <2>3. Open(NullDerivation, t)
      BY <1>2, <2>2 DEF WaysOpen
    <2>4. Pool # {} \/ expandedHyps # {}
      BY <2>3 DEF Open
    <2> QED BY <1>1, <1>2, <2>4, NothingLeft
  <1>4. Held' = Held /\ UNCHANGED hypStateDict /\ Queued' = Queued
    BY <1>1, HeldKept DEF Queued
  <1>5. Pool' = Pool
    BY <1>4 DEF Pool
  <1>6. WaysOpen' /\ BestHeld'
    BY <1>1, <1>2, <1>4, <1>5, WaysKept
  <1>7. PopsBest'
    BY <1>1, <1>2, <1>4, RequestKept DEF PopsBest
  <1> QED BY <1>1, <1>3, <1>6, <1>7 DEF OptimalInv

(* ... its end, ... *)
LEMMA OptimalEnd ==
  ASSUME BaseInv, OptimalInv, Unpruned, EndIteration
  PROVE  OptimalInv'
  <1>1. /\ phase = "expand" /\ (IF end \/ iterNo' >= MAX_NUM_OF_ITER THEN phase' = "idle"
                                                                     ELSE phase' = "select")
        /\ UNCHANGED <<stack, request, breadthFirst, hypsToExpand, expandedHyps, result, end, bestCompleteHyp>>
    BY SearchKeeps DEF EndIteration, Step
  <1>2. ~end => WaysOpen /\ BestHeld /\ PopsBest
    BY <1>1 DEF OptimalInv, Searching
  <1>3. Held' = Held /\ UNCHANGED hypStateDict /\ Queued' = Queued
    BY <1>1, HeldKept DEF Queued
  <1>4. Pool' = Pool
    BY <1>3 DEF Pool
  <1>5. ~end => WaysOpen' /\ BestHeld' /\ PopsBest'
    <2>1. ~end => WaysOpen' /\ BestHeld'
      BY <1>1, <1>2, <1>3, <1>4, WaysKept
    <2>2. ~end => PopsBest'
      BY <1>1, <1>2, <1>3, RequestKept DEF PopsBest
    <2> QED BY <2>1, <2>2
  <1>6. end => /\ Complete(result)' /\ \A t \in Translations'[request'] : t.score <= result'.score
               /\ hypsToExpand' = <<>> /\ expandedHyps' = {}
    BY <1>1, RequestKept DEF OptimalInv, Complete
  <1> QED BY <1>1, <1>5, <1>6 DEF OptimalInv, Searching

(* ... the hypothesis that is taken, ... *)
LEMMA OptimalNext ==
  ASSUME BaseInv, OptimalInv, Unpruned, TakeComplete \/ ReturnComplete \/ Expand
  PROVE  OptimalInv'
  <1>1. PICK p : p = Current
    OBVIOUS
  <1>2. NextHyp /\ UNCHANGED <<request, breadthFirst>> /\ hypsToExpand # <<>>
    BY SearchKeeps DEF TakeComplete, ReturnComplete, Expand, Step, NextHyp
  <1>3. /\ phase = "expand" /\ UNCHANGED phase /\ expandedHyps = {} /\ p \in Queued
        /\ Queued' = {} /\ hypsToExpand' = <<>> /\ Queued \subseteq {p}
        /\ HypOK(p) /\ request \in Requests
    BY <1>1, <1>2, NextHypPool DEF Unpruned
  <1>4. ~end /\ WaysOpen /\ BestHeld /\ PopsBest
    BY <1>2, <1>3 DEF OptimalInv, Searching
  <1>5. CASE TakeComplete
    <2>1. Complete(p) /\ result' = p /\ end' = TRUE /\ expandedHyps' = {}
      BY <1>1, <1>3, <1>5 DEF TakeComplete
    <2>2. \A t \in Translations[request] : t.score <= p.score
      BY <1>3, <1>4, <2>1 DEF PopsBest
    <2>3. Complete(result)' /\ \A t \in Translations'[request'] : t.score <= result'.score
      BY <1>2, <2>1, <2>2, RequestKept DEF Complete
    <2> QED BY <1>3, <2>1, <2>3 DEF OptimalInv, Searching
  <1>6. CASE ReturnComplete
    BY <1>4, <1>6 DEF ReturnComplete
  <1>7. CASE Expand
    <2>1. ~Complete(p) /\ expandedHyps' = Successors(p) /\ UNCHANGED <<end, bestCompleteHyp, stack>>
      BY <1>1, <1>7 DEF Expand
    <2>2. Held' = Held /\ UNCHANGED hypStateDict
      BY <1>2, <2>1, HeldKept
    <2>3. \A x \in Pool : x \in Pool' \/ x = p
      BY <1>3, <2>2 DEF Pool
    <2>4. BestHeld'
      BY <1>2, <1>4, <2>1, <2>3, RequestKept DEF BestHeld
    <2>5. PopsBest'
      BY <1>3 DEF PopsBest
    <2>6. ASSUME NEW t \in Translations[request], NEW o \in Lattice[request], Open(o, t)
          PROVE  Open(o, t)'
      <3>1. ASSUME NEW q \in Lattice[request], Begins(q, t, request), Matches(p, q),
                   Cov[EndOf(o, request)] <= Cov[EndOf(q, request)]
            PROVE  Open(o, t)'
        <4>1. Len(q.arcs) # Len(t.arcs)
          BY <1>3, <2>1, <3>1, BeginsEnds DEF Matches, Complete, Translations
        <4>2. PICK a \in request.arcs : LeadsOn(q, a, request) /\ Begins(Then(q, a), t, request)
          BY <1>3, <3>1, <4>1, NextOn DEF Translations
        <4>3. PICK e : e = Then(q, a)
          OBVIOUS
        <4>4. /\ e.score = q.score + a.score /\ EndOf(e, request) = a.to
              /\ Cov[EndOf(q, request)] < Cov[a.to] /\ e \in Lattice[request]
          BY <1>3, <4>2, <4>3, ThenParts, LatticeMembers, LatticeExtended
        <4>5. a.from = p.state
          BY <3>1, <4>2 DEF LeadsOn, Matches
        <4>6. PICK h : h = [cls   |-> 2 * Cov[a.to] + (IF a.jump = 1 THEN 1 ELSE p.cls % 2),
                            state |-> a.to, score |-> p.score + a.score]
          OBVIOUS
        <4>7. h \in Successors(p)
          BY <4>5, <4>6 DEF Successors
        <4>8. p.score >= q.score /\ p.score \in Int /\ q.score \in Int /\ a.score \in Int
          BY <1>3, <3>1, LatticeScores, RequestFacts DEF Matches, HypOK, HypSet
        <4>9. h.state = a.to /\ h.score = p.score + a.score
          BY <4>6
        <4>10. Matches(h, e)
          BY <4>4, <4>8, <4>9 DEF Matches
        <4>11. Cov[EndOf(o, request)] < Cov[EndOf(e, request)]
          <5>1. Cov[EndOf(o, request)] \in Int /\ Cov[EndOf(q, request)] \in Int /\ Cov[a.to] \in Int
            BY <1>3, LatticeScores, RequestFacts
          <5> QED BY <3>1, <4>4, <5>1
        <4> QED BY <1>2, <2>1, <4>2, <4>3, <4>4, <4>7, <4>10, <4>11, RequestKept DEF Open
      <3>2. ASSUME NEW x \in Pool, Complete(x), x.score >= t.score
            PROVE  Open(o, t)'
        BY <1>2, <2>1, <2>3, <3>2, RequestKept DEF Open
      <3>3. ASSUME NEW q \in Lattice[request], Begins(q, t, request), NEW x \in Pool, Matches(x, q),
                   Cov[EndOf(o, request)] <= Cov[EndOf(q, request)]
            PROVE  Open(o, t)'
        <4>1. CASE x = p
          BY <3>1, <3>3, <4>1
        <4>2. CASE x \in Pool'
          BY <1>2, <3>3, <4>2, RequestKept DEF Open
        <4> QED BY <2>3, <4>1, <4>2
      <3> QED BY <1>3, <2>6, <3>2, <3>3 DEF Open
    <2>7. \A o : Seen(o)' <=> Seen(o)
      BY <1>2, <2>2, RequestKept DEF Seen
    <2>8. WaysOpen'
      BY <1>2, <1>4, <2>6, <2>7, RequestKept DEF WaysOpen
    <2> QED BY <1>3, <1>4, <2>1, <2>4, <2>5, <2>8 DEF OptimalInv, Searching
  <1> QED BY <1>5, <1>6, <1>7

(* The push of an expansion, when the container only gets better. *)
LEMMA WaysTaken ==
  ASSUME BaseInv, request \in Requests, WaysOpen, BestHeld, NEW h \in expandedHyps, HypOK(h),
         maxStackSize > Cardinality(Ids), PushTakesHyp(h),
         UNCHANGED <<request, breadthFirst, hypsToExpand>>, expandedHyps' = expandedHyps \ {h}
  PROVE  WaysOpen' /\ BestHeld'
  <1>1. h \in Pool'
    BY DEF PushTakesHyp, Pool
  <1>2. \A x \in Pool : x.score \in Int /\ HypOK(x) /\ request.heur[x.state] \in Int /\ G(x) \in Int
    BY PoolFacts DEF BaseInv
  <1>3. \A x \in Pool : \E y \in Pool' : y.state = x.state /\ y.score >= x.score
    <2>1. \A x \in Queued : x \in Pool' /\ x.score >= x.score
      <3>1. \A x \in Queued : x \in Pool'
        BY DEF Pool, Queued
      <3>2. \A x \in Queued : x.score \in Int
        BY <1>2 DEF Pool
      <3> QED BY <3>1, <3>2
    <2>2. \A x \in Held : \E y \in Pool' : y.state = x.state /\ y.score >= x.score
      BY DEF PushTakesHyp, Pool
    <2> QED BY <2>1, <2>2 DEF Pool
  <1>4. \A y \in Pool' : y.score \in Int /\ HypOK(y)
    <2>1. \A y \in Pool' : y \in Pool \/ y = h
      BY DEF PushTakesHyp, Pool, Queued
    <2> QED BY <1>2, <2>1 DEF HypOK, HypSet
  <1>5. ASSUME NEW s \in DOMAIN hypStateDict
        PROVE  s \in DOMAIN hypStateDict' /\ hypStateDict'[s] >= hypStateDict[s]
    <2>1. /\ s \in DOMAIN hypStateDict' /\ (s # h.state => hypStateDict'[s] = hypStateDict[s])
          /\ (s = h.state => hypStateDict'[s] = Stored(h).score /\ hypStateDict[s] <= Stored(h).score)
      BY DEF PushTakesHyp, Stack!With
    <2>2. hypStateDict[s] \in Int /\ Stored(h).score \in Int
      <3>1. KeyOK(Stored(h))
        BY StoredRestored
      <3> QED BY <3>1 DEF KeyOK, HypSet, BaseInv, ContainerInv
    <2> QED BY <2>1, <2>2
  <1>6. ASSUME NEW t \in Translations[request], NEW o \in Lattice[request], Open(o, t)
        PROVE  Open(o, t)'
    <2>1. ASSUME NEW x \in Pool, Complete(x), x.score >= t.score
          PROVE  Open(o, t)'
      <3>1. PICK y \in Pool' : y.state = x.state /\ y.score >= x.score
        BY <1>3
      <3>2. t.score \in Int
        BY LatticeScores DEF Translations
      <3>3. Complete(y) /\ y.score >= t.score
        BY <1>2, <1>4, <2>1, <3>1, <3>2 DEF Complete
      <3> QED BY <3>1, <3>3, RequestKept DEF Open
    <2>2. ASSUME NEW q \in Lattice[request], Begins(q, t, request), NEW x \in Pool, Matches(x, q),
                 Cov[EndOf(o, request)] <= Cov[EndOf(q, request)]
          PROVE  Open(o, t)'
      <3>1. PICK y \in Pool' : y.state = x.state /\ y.score >= x.score
        BY <1>3
      <3>2. Matches(y, q)
        <4>1. q.score \in Int /\ x.score \in Int /\ y.score \in Int
          BY <1>2, <1>4, LatticeScores
        <4> QED BY <2>2, <3>1, <4>1 DEF Matches
      <3> QED BY <2>2, <3>1, <3>2, RequestKept DEF Open
    <2>3. ASSUME NEW q \in Lattice[request], Begins(q, t, request), NEW x \in expandedHyps,
                 Matches(x, q), Cov[EndOf(o, request)] < Cov[EndOf(q, request)]
          PROVE  Open(o, t)'
      <3>1. CASE x = h
        <4>1. Cov[EndOf(o, request)] <= Cov[EndOf(q, request)]
          <5>1. Cov[EndOf(o, request)] \in Int /\ Cov[EndOf(q, request)] \in Int
            BY LatticeScores
          <5> QED BY <2>3, <5>1
        <4> QED BY <1>1, <2>3, <3>1, <4>1, RequestKept DEF Open
      <3>2. CASE x # h
        <4>1. x \in expandedHyps'
          BY <3>2
        <4> QED BY <2>3, <4>1, RequestKept DEF Open
      <3> QED BY <3>1, <3>2
    <2> QED BY <1>6, <2>1, <2>2, <2>3 DEF Open
  <1>7. ASSUME NEW t \in Translations[request], NEW o \in Lattice[request], Begins(o, t, request),
               Seen(o)', ~Seen(o)
        PROVE  Open(o, t)'
    <2>1. PICK s : s = EndOf(o, request)
      OBVIOUS
    <2>2. s \in DOMAIN hypStateDict' /\ hypStateDict'[s] >= Key(o)
      BY <1>7, <2>1, RequestKept DEF Seen
    <2>3. s = h.state /\ hypStateDict'[s] = Stored(h).score
      <3>1. s # h.state => s \in DOMAIN hypStateDict /\ hypStateDict'[s] = hypStateDict[s]
        BY <2>2 DEF PushTakesHyp, Stack!With
      <3>2. s = h.state
        BY <1>7, <2>1, <2>2, <3>1 DEF Seen
      <3> QED BY <3>2 DEF PushTakesHyp, Stack!With
    <2>4. h.score >= o.score
      <3>1. /\ Key(o) \in Int /\ Stored(h).score \in Int
            /\ Stored(h).score - Key(o) = h.score - o.score
            /\ h.score \in Int /\ o.score \in Int
        BY <2>1, <2>3, KeyOfMatch
      <3>2. Stored(h).score >= Key(o)
        BY <2>2, <2>3
      <3> QED BY <3>1, <3>2
    <2>5. Matches(h, o)
      BY <2>1, <2>3, <2>4 DEF Matches
    <2>6. Cov[EndOf(o, request)] <= Cov[EndOf(o, request)]
      <3>1. Cov[EndOf(o, request)] \in Int
        BY LatticeScores
      <3> QED BY <3>1
    <2> QED BY <1>1, <1>7, <2>5, <2>6, RequestKept DEF Open
  <1>8. Seen(NullDerivation)'
    <2>1. PICK q : q = NullDerivation
      OBVIOUS
    <2>2. q \in Lattice[request] /\ Seen(q)
      BY <2>1, NullInLattice DEF WaysOpen
    <2>3. PICK s : s = EndOf(q, request)
      OBVIOUS
    <2>4. s \in DOMAIN hypStateDict /\ hypStateDict[s] >= Key(q)
      BY <2>2, <2>3 DEF Seen
    <2>5. s \in DOMAIN hypStateDict' /\ hypStateDict'[s] >= hypStateDict[s]
      BY <1>5, <2>4
    <2>6. hypStateDict[s] \in Int /\ Key(q) \in Int /\ hypStateDict'[s] \in Int
      <3>1. hypStateDict[s] \in Int
        BY <2>4 DEF BaseInv, ContainerInv
      <3>2. Key(q) \in Int
        <4>1. s = request.root
          BY <2>1, <2>3, NullWellFormed
        <4>2. HypOK(NullHyp(request)) /\ NullHyp(request).state = s
          BY <4>1, NullHypOK DEF NullHyp
        <4> QED BY <2>2, <2>3, <4>2, KeyOfMatch
      <3>3. hypStateDict'[s] = hypStateDict[s] \/ hypStateDict'[s] = Stored(h).score
        BY <2>4 DEF PushTakesHyp, Stack!With
      <3>4. Stored(h).score \in Int
        <4>1. KeyOK(Stored(h))
          BY StoredRestored
        <4> QED BY <4>1 DEF KeyOK, HypSet
      <3> QED BY <3>1, <3>2, <3>3, <3>4
    <2>7. hypStateDict'[s] >= Key(q)
      BY <2>4, <2>5, <2>6
    <2> QED BY <2>1, <2>3, <2>5, <2>7, RequestKept DEF Seen
  <1>9. WaysOpen'
    <2>1. \A t \in Translations[request] : \A o \in Lattice[request] :
            Begins(o, t, request) /\ Seen(o)' => Open(o, t)'
      BY <1>6, <1>7 DEF WaysOpen
    <2> QED BY <1>8, <2>1, RequestKept DEF WaysOpen
  <1>10. BestHeld'
    <2>1. ASSUME NEW b \in bestCompleteHyp
          PROVE  \E y \in Pool' : Complete(y) /\ Stored(y).score >= b.score
      <3>1. PICK x \in Pool : Complete(x) /\ Stored(x).score >= b.score
        BY DEF BestHeld
      <3>2. PICK y \in Pool' : y.state = x.state /\ y.score >= x.score
        BY <1>3
      <3>3. /\ Stored(x).score = x.score + request.heur[x.state] + G(x)
            /\ Stored(y).score = y.score + request.heur[x.state] + G(x)
        <4>1. G(y) = G(x)
          BY <3>2 DEF G
        <4> QED BY <1>2, <1>4, <3>2, <4>1, StoredRestored
      <3>4. b.score \in Int
        BY DEF BaseInv, DecoderInv, ScalarTypes, HypTypeOK
      <3>5. /\ x.score \in Int /\ y.score \in Int /\ request.heur[x.state] \in Int /\ G(x) \in Int
        BY <1>2, <1>4
      <3>6. Stored(y).score >= b.score
        BY <3>1, <3>2, <3>3, <3>4, <3>5
      <3> QED BY <3>1, <3>2, <3>6 DEF Complete
    <2>2. CASE bestCompleteHyp' = bestCompleteHyp
      BY <2>1, <2>2, RequestKept DEF BestHeld
    <2>3. CASE bestCompleteHyp' = {Stored(h)} /\ Complete(h)
      <3>1. Stored(h).score >= Stored(h).score
        <4>1. KeyOK(Stored(h))
          BY StoredRestored
        <4>2. Stored(h).score \in Int
          BY <4>1 DEF KeyOK, HypSet
        <4> QED BY <4>2
      <3> QED BY <1>1, <2>3, <3>1, RequestKept DEF BestHeld
    <2> QED BY <2>2, <2>3 DEF PushTakesHyp
  <1> QED BY <1>9, <1>10

(* ... and when it does not take the expansion: the search has something as
   good as what can come of it. *)
LEMMA WaysLeft ==
  ASSUME BaseInv, DerivedInv, settled, call # "none", request \in Requests, request \in Admissible,
         WaysOpen, BestHeld, NEW h \in expandedHyps, HypOK(h), PushDrops(h) \/ PushKnowsBetter(h),
         UNCHANGED <<request, breadthFirst, hypsToExpand>>, expandedHyps' = expandedHyps \ {h}
  PROVE  WaysOpen' /\ BestHeld'
  <1>1. UNCHANGED <<Held, hypStateDict, bestCompleteHyp>>
    BY DEF PushDrops, PushKnowsBetter
  <1>2. Pool' = Pool
    BY <1>1 DEF Pool, Queued
  <1>3. BestHeld'
    BY <1>1, <1>2, RequestKept DEF BestHeld
  <1>4. \A o : Seen(o)' <=> Seen(o)
    BY <1>1, RequestKept DEF Seen
  <1>5. \A x \in Pool : HypOK(x) /\ Derived(x)
    BY PoolFacts DEF BaseInv, DerivedInv, Pool
  <1>6. h.score \in Int /\ FLT_MAX \in Nat
    BY DecoderConstants DEF HypOK, HypSet
  <1>7. ASSUME NEW t \in Translations[request], NEW o \in Lattice[request],
               NEW q \in Lattice[request], Begins(q, t, request), Matches(h, q),
               Cov[EndOf(o, request)] < Cov[EndOf(q, request)]
        PROVE  Open(o, t)'
    <2>1. /\ Cov[EndOf(o, request)] \in Int /\ Cov[EndOf(q, request)] \in Int
          /\ q.score \in Int /\ q.score >= -FLT_MAX
      BY LatticeScores
    <2>2. h.state = EndOf(q, request) /\ h.score >= q.score
      BY <1>7 DEF Matches
    <2>3. CASE PushDrops(h)
      <3>1. ~(h.score < -FLT_MAX)
        BY <1>6, <2>1, <2>2
      <3>2. PICK b \in bestCompleteHyp : Stored(h).score < b.score
        BY <2>3, <3>1 DEF PushDrops, PrunedByScore
      <3>3. PICK x \in Pool : Complete(x) /\ Stored(x).score >= b.score
        BY DEF BestHeld
      <3>4. Stored(h).score <= Stored(x).score
        <4>1. KeyOK(Stored(h)) /\ KeyOK(Stored(x))
          BY <1>5, StoredRestored
        <4>2. Stored(h).score \in Int /\ Stored(x).score \in Int /\ b.score \in Int
          BY <4>1 DEF KeyOK, HypSet, BaseInv, DecoderInv, ScalarTypes, HypTypeOK
        <4> QED BY <3>2, <3>3, <4>2
      <3>5. t.score <= x.score
        BY <1>5, <1>7, <3>3, <3>4, CompleteBeats
      <3>6. x.score \in Int /\ t.score \in Int
        BY <1>5, LatticeScores DEF HypOK, HypSet, Translations
      <3> QED BY <1>2, <3>3, <3>5, <3>6, RequestKept DEF Open
    <2>4. CASE PushKnowsBetter(h)
      <3>1. Seen(q)
        <4>1. h.state \in DOMAIN hypStateDict /\ hypStateDict[h.state] > Stored(h).score
          BY <2>4 DEF PushKnowsBetter
        <4>2. /\ Key(q) \in Int /\ Stored(h).score \in Int
              /\ Stored(h).score - Key(q) = h.score - q.score
          BY <2>2, KeyOfMatch
        <4>3. hypStateDict[h.state] \in Int
          BY <4>1 DEF BaseInv, ContainerInv
        <4>4. hypStateDict[h.state] >= Key(q)
          BY <1>6, <2>1, <2>2, <4>1, <4>2, <4>3
        <4> QED BY <2>2, <4>1, <4>4 DEF Seen
      <3>2. Open(q, t)
        BY <1>7, <3>1 DEF WaysOpen
      <3>3. ASSUME NEW u \in Lattice[request], Begins(u, t, request), NEW x \in Pool, Matches(x, u),
                   Cov[EndOf(q, request)] <= Cov[EndOf(u, request)]
            PROVE  Open(o, t)'
        <4>1. Cov[EndOf(u, request)] \in Int
          BY LatticeScores
        <4>2. Cov[EndOf(o, request)] <= Cov[EndOf(u, request)]
          BY <1>7, <2>1, <3>3, <4>1
        <4> QED BY <1>2, <3>3, <4>2, RequestKept DEF Open
      <3>4. ASSUME NEW u \in Lattice[request], Begins(u, t, request), NEW x \in expandedHyps,
                   Matches(x, u), Cov[EndOf(q, request)] < Cov[EndOf(u, request)]
            PROVE  Open(o, t)'
        <4>1. Cov[EndOf(u, request)] \in Int
          BY LatticeScores
        <4>2. Cov[EndOf(o, request)] < Cov[EndOf(u, request)]
          BY <1>7, <2>1, <3>4, <4>1
        <4>3. Cov[x.state] # Cov[h.state]
          BY <2>1, <2>2, <3>4, <4>1 DEF Matches
        <4>4. x \in expandedHyps'
          BY <4>3
        <4> QED BY <3>4, <4>2, <4>4, RequestKept DEF Open
      <3>5. ASSUME NEW x \in Pool, Complete(x), x.score >= t.score
            PROVE  Open(o, t)'
        BY <1>2, <3>5, RequestKept DEF Open
      <3> QED BY <3>2, <3>3, <3>4, <3>5 DEF Open
    <2> QED BY <2>3, <2>4
  <1>8. ASSUME NEW t \in Translations[request], NEW o \in Lattice[request], Open(o, t)
        PROVE  Open(o, t)'
    <2>1. ASSUME NEW x \in Pool, Complete(x), x.score >= t.score
          PROVE  Open(o, t)'
      BY <1>2, <2>1, RequestKept DEF Open
    <2>2. ASSUME NEW q \in Lattice[request], Begins(q, t, request), NEW x \in Pool, Matches(x, q),
                 Cov[EndOf(o, request)] <= Cov[EndOf(q, request)]
          PROVE  Open(o, t)'
      BY <1>2, <2>2, RequestKept DEF Open
    <2>3. ASSUME NEW q \in Lattice[request], Begins(q, t, request), NEW x \in expandedHyps,
                 Matches(x, q), Cov[EndOf(o, request)] < Cov[EndOf(q, request)]
          PROVE  Open(o, t)'
      <3>1. CASE x = h
        BY <1>7, <2>3, <3>1
      <3>2. CASE x # h
        <4>1. x \in expandedHyps'
          BY <3>2
        <4> QED BY <2>3, <4>1, RequestKept DEF Open
      <3> QED BY <3>1, <3>2
    <2> QED BY <1>8, <2>1, <2>2, <2>3 DEF Open
  <1>9. WaysOpen'
    BY <1>4, <1>8, RequestKept DEF WaysOpen
  <1> QED BY <1>3, <1>9

(* ... and the push of what extends it, which loses no way. *)
LEMMA OptimalPush ==
  ASSUME BaseInv, DerivedInv, OptimalInv, Unpruned, NEW h \in expandedHyps, PushExpanded(h)
  PROVE  OptimalInv'
  <1>1. /\ PushHyp(h) /\ expandedHyps' = expandedHyps \ {h} /\ phase = "expand"
        /\ UNCHANGED <<phase, hypsToExpand, result, end, request, breadthFirst>>
        /\ request \in Requests /\ settled /\ call # "none" /\ request \in Admissible
        /\ maxStackSize > Cardinality(Ids)
    BY SearchKeeps DEF PushExpanded, Step, Unpruned
  <1>2. DecoderInv /\ ContainerInv /\ HypOK(h) /\ Fits(h)
    BY DEF BaseInv, FitsInv, DecoderInv, SearchInv, Locals
  <1>3. PushDrops(h) \/ PushKnowsBetter(h) \/ PushTakesHyp(h)
    BY <1>1, <1>2, PushOutcome
  <1>4. ~end /\ WaysOpen /\ BestHeld /\ PopsBest
    BY <1>1 DEF OptimalInv, Searching
  <1>5. WaysOpen' /\ BestHeld'
    <2>1. CASE PushDrops(h) \/ PushKnowsBetter(h)
      BY <1>1, <1>2, <1>4, <2>1, WaysLeft
    <2>2. CASE PushTakesHyp(h)
      BY <1>1, <1>2, <1>4, <2>2, WaysTaken
    <2> QED BY <1>3, <2>1, <2>2
  <1>6. PopsBest'
    BY <1>1, <1>4, RequestKept DEF PopsBest, Queued
  <1> QED BY <1>1, <1>4, <1>5, <1>6 DEF OptimalInv

(* The steps between the calls. *)
LEMMA OptimalCall ==
  ASSUME BaseInv, OptimalInv,
         \/ (\E r \in Requests : Translate(r)) \/ GetNextTrans \/ Clear
         \/ (\E n \in StackSizes : SetS(n)) \/ (\E n \in Expansions : SetI(n))
         \/ (\E b \in BOOLEAN : SetBreadthFirst(b) \/ UseBestScorePruning(b) \/ EnableWordGraph(b))
         \/ UNCHANGED vars
  PROVE  OptimalInv'
  <1>1. ASSUME NEW r \in Requests, Translate(r)
        PROVE  OptimalInv'
    <2>1. maxStackSize \in Nat /\ Stack!Clear /\ end' = FALSE
      BY <1>1 DEF Translate, StartDecode, BaseInv, ContainerInv
    <2>2. DOMAIN hypStateDict' = {}
      BY <2>1, ClearContainer
    <2>3. state' = "IDLE" \/ (phase' = "suggest" /\ bestCompleteHyp' = {})
      BY <1>1 DEF Translate
    <2> QED BY <2>1, <2>2, <2>3 DEF OptimalInv, Unpruned, Searching
  <1>2. CASE GetNextTrans \/ Clear
    <2>1. call' # "translate"
      BY <1>2 DEF GetNextTrans, Clear
    <2> QED BY <2>1 DEF OptimalInv, Unpruned
  <1>3. ASSUME settled' = FALSE
        PROVE  OptimalInv'
    BY <1>3 DEF OptimalInv, Unpruned
  <1>4. CASE UNCHANGED vars
    <2>1. UNCHANGED <<I, settled, state, request, call, phase, end, result, iterNo, bestCompleteHyp,
                      hypsToExpand, expandedHyps, stack, breadthFirst, maxStackSize, bf>>
      BY <1>4 DEF vars, parameters, task, locals, stack
    <2>2. Held' = Held /\ UNCHANGED hypStateDict /\ Queued' = Queued
      BY <2>1, HeldKept DEF Queued
    <2>3. Pool' = Pool
      BY <2>2 DEF Pool
    <2>4. Translations' = Translations /\ Admissible' = Admissible
          /\ (Complete(result)' <=> Complete(result))
      BY <2>1, RequestKept DEF Admissible, EndOf, Lattice, Translations, Complete
    <2>5. (Unpruned' <=> Unpruned) /\ (Searching' <=> Searching)
      BY <2>1, <2>4 DEF Unpruned, Searching
    <2>6. (WaysOpen' <=> WaysOpen) /\ (BestHeld' <=> BestHeld)
      BY <2>1, <2>2, <2>3, WaysKept
    <2>7. PopsBest' <=> PopsBest
      BY <2>1, <2>2, RequestKept DEF PopsBest
    <2> QED BY <2>1, <2>2, <2>4, <2>5, <2>6, <2>7 DEF OptimalInv
  <1> QED BY <1>1, <1>2, <1>3, <1>4
          DEF SetS, SetI, SetBreadthFirst, UseBestScorePruning, EnableWordGraph, SetParameter

(* A search leaves the container in the order it searches in. *)
LEMMA OrderKept ==
  ASSUME Step, UNCHANGED breadthFirst
  PROVE  (bf' => breadthFirst') <=> (bf => breadthFirst)
  <1>1. ASSUME NEW h, PushHyp(h)
        PROVE  UNCHANGED bf
    BY <1>1 DEF PushHyp, Stack!Push, stack
  <1>2. SuggestNullHyp \/ ReturnComplete \/ (\E h \in expandedHyps : PushExpanded(h))
          => UNCHANGED bf
    BY <1>1 DEF SuggestNullHyp, ReturnComplete, PushExpanded
  <1>3. BeginIteration \/ TakeComplete \/ Expand \/ EndIteration => UNCHANGED bf
    BY DEF BeginIteration, TakeComplete, Expand, EndIteration, stack
  <1>4. Select => bf' = (bf \/ breadthFirst)
    BY DEF Select, PopHyp
  <1>5. bf' = bf \/ bf' = (bf \/ breadthFirst)
    BY <1>2, <1>3, <1>4 DEF Step
  <1>6. CASE bf' = bf
    BY <1>6
  <1>7. CASE bf' = (bf \/ breadthFirst)
    BY <1>7
  <1> QED BY <1>5, <1>6, <1>7

(* Every step keeps the invariant. *)
LEMMA OptimalStep ==
  ASSUME BaseInv, DerivedInv, OptimalInv, [Next]_vars
  PROVE  OptimalInv'
  <1>1. CASE Step /\ Unpruned
    BY <1>1, OptimalSuggest, OptimalSelect, OptimalBegin, OptimalNext, OptimalPush, OptimalEnd
       DEF Step
  <1>2. CASE Step /\ ~Unpruned
    <2>1. UNCHANGED <<breadthFirst, I, settled, state, request, call, maxStackSize>>
      BY <1>2, SearchKeeps
    <2>2. (bf' => breadthFirst') <=> (bf => breadthFirst)
      BY <1>2, <2>1, OrderKept
    <2>3. Translations' = Translations /\ Admissible' = Admissible
      BY <2>1, RequestKept DEF Admissible, EndOf, Lattice
    <2>4. ~Unpruned'
      BY <1>2, <2>1, <2>2, <2>3 DEF Unpruned
    <2> QED BY <2>4 DEF OptimalInv
  <1>3. CASE ~Step
    BY <1>3, OptimalCall DEF Next
  <1> QED BY <1>1, <1>2, <1>3

(* With stacks that hold everything, one hypothesis expanded at a time and an
   admissible heuristic, nothing in the lattice is better than what translate
   returns, unless it gives up: in both orders, with and without best-score
   pruning. *)
THEOREM OptimalInvariance == Spec => [](NotGivenUp => ResultIsOptimal)
  <1>1. Init => BaseInv /\ DerivedInv /\ OptimalInv
    <2>1. Init => call = "none"
      BY DEF Init
    <2>2. Init => OptimalInv
      BY <2>1 DEF OptimalInv, Unpruned
    <2> QED BY <2>2, BaseInit, DerivedInit
  <1>2. (BaseInv /\ DerivedInv /\ OptimalInv) /\ [Next]_vars
          => (BaseInv /\ DerivedInv /\ OptimalInv)'
    BY BaseStep, DerivedStep, OptimalStep
  <1>3. BaseInv /\ DerivedInv /\ OptimalInv => (NotGivenUp => ResultIsOptimal)
    <2>1. SUFFICES ASSUME BaseInv, OptimalInv, NotGivenUp, Translated, I = 1,
                          maxStackSize > Cardinality(Ids), bf => breadthFirst,
                          request \in Admissible, Translations[request] # {}
                   PROVE  /\ Complete(result)
                          /\ \A t \in Translations[request] : t.score <= result.score
      BY DEF ResultIsOptimal
    <2>2. Unpruned /\ phase = "idle"
      BY <2>1 DEF Unpruned, Translated
    <2>3. end \/ iterNo >= MAX_NUM_OF_ITER
      BY <2>1, <2>2 DEF OptimalInv
    <2>4. ~(iterNo >= MAX_NUM_OF_ITER)
      <3>1. iterNo \in Int /\ MAX_NUM_OF_ITER \in Int
        BY <2>1, DecoderConstants DEF BaseInv, DecoderInv, ScalarTypes
      <3> QED BY <2>1, <3>1 DEF NotGivenUp
    <2> QED BY <2>1, <2>2, <2>3, <2>4 DEF OptimalInv
  <1> QED BY <1>1, <1>2, <1>3, PTL DEF Spec

-----------------------------------------------------------------------------
(* No hypothesis of the lattice is expanded twice.                         *)

(* A derivation tells what it extends and by which arc. *)
LEMMA ThenInjective ==
  ASSUME NEW r \in Requests, NEW d \in Lattice[r], NEW e \in Lattice[r],
         NEW a, NEW b, LeadsOn(d, a, r), LeadsOn(e, b, r), Then(d, a) = Then(e, b)
  PROVE  d = e /\ a = b
  <1>1. WellFormed(d, r) /\ WellFormed(e, r)
    BY LatticeMembers
  <1>2. PICK A, s, t : A = r.arcs /\ s = d.arcs /\ t = e.arcs
    OBVIOUS
  <1>3. s \in Seq(A) /\ t \in Seq(A) /\ a \in A /\ b \in A
    BY <1>1, <1>2 DEF WellFormed, LeadsOn
  <1>4. Append(s, a) = Append(t, b)
    BY <1>1, <1>2, ThenParts
  <1>5. s = t /\ a = b
    BY <1>3, <1>4, AppendInjective
  <1> QED BY <1>2, <1>5, LatticeUnique

(* It is neither the derivation of nothing nor what it extends. *)
LEMMA ThenIsNew ==
  ASSUME NEW r \in Requests, NEW d \in Lattice[r], NEW a, LeadsOn(d, a, r)
  PROVE  Then(d, a) # NullDerivation /\ Then(d, a) # d
  <1>1. /\ Len(Then(d, a).arcs) = Len(d.arcs) + 1 /\ Len(d.arcs) \in Nat
    BY LatticeMembers, LatticeLengths, ThenParts
  <1>2. NullDerivation.arcs = <<>> /\ Len(<<>>) = 0
    BY NullWellFormed
  <1>3. Len(d.arcs) + 1 # Len(d.arcs) /\ Len(d.arcs) + 1 # 0
    BY <1>1
  <1> QED BY <1>1, <1>2, <1>3

(* The derivations that are one arc longer are finitely many, ... *)
LEMMA ExtendedFinite ==
  ASSUME NEW r \in Requests, NEW D, IsFiniteSet(D)
  PROVE  IsFiniteSet(Extended(D, r))
  <1>1. PICK B : B = D \X r.arcs
    OBVIOUS
  <1>2. IsFiniteSet(B)
    <2>1. IsFiniteSet(r.arcs)
      BY DecoderConstants
    <2> QED BY <1>1, <2>1, FS_Product
  <1>3. PICK P : P = {y \in B : /\ y[1].score + y[2].score >= -FLT_MAX
                                /\ y[2].from = EndOf(y[1], r)}
    OBVIOUS
  <1>4. IsFiniteSet(P)
    BY <1>2, <1>3, FS_Subset
  <1>5. PICK f : f = [x \in P |-> [arcs |-> Append(x[1].arcs, x[2]), score |-> x[1].score + x[2].score]]
    OBVIOUS
  <1>6. PICK X : X = Extended(D, r)
    OBVIOUS
  <1>7. X = {f[x] : x \in P}
    BY <1>1, <1>3, <1>5, <1>6 DEF Extended
  <1>8. f \in Surjection(P, X)
    BY <1>5, <1>7 DEF Surjection
  <1> QED BY <1>4, <1>6, <1>8, FS_Surjection

(* ... and so is the lattice. *)
LEMMA LatticeFinite ==
  ASSUME NEW r \in Requests
  PROVE  /\ IsFiniteSet(Lattice[r]) /\ Cardinality(Lattice[r]) \in Nat
         /\ \A E \in SUBSET Lattice[r] : /\ IsFiniteSet(E) /\ Cardinality(E) \in Nat
                                         /\ Cardinality(E) <= Cardinality(Lattice[r])
  <1>1. PICK T : T = DerivationTable(r)
    OBVIOUS
  <1>2. r.words \in Nat
    BY RequestFacts
  <1>3. T[0] = {NullDerivation} /\ \A k \in 0 .. r.words - 1 : T[k + 1] = T[k] \cup Extended(T[k], r)
    BY <1>1, <1>2, DerivationEntries
  <1> DEFINE S == {k \in 0 .. r.words : IsFiniteSet(T[k])}
  <1>4. 0 \in S
    <2>1. IsFiniteSet({NullDerivation})
      BY FS_Singleton
    <2>2. 0 \in 0 .. r.words
      BY <1>2
    <2> QED BY <1>3, <2>1, <2>2
  <1>5. ASSUME NEW k \in 0 .. r.words - 1, k \in S
        PROVE  k + 1 \in S
    <2>1. IsFiniteSet(T[k]) /\ IsFiniteSet(Extended(T[k], r))
      BY <1>5, ExtendedFinite
    <2>2. IsFiniteSet(T[k] \cup Extended(T[k], r))
      BY <2>1, FS_Union
    <2>3. k + 1 \in 0 .. r.words
      BY <1>2
    <2> QED BY <1>3, <2>2, <2>3
  <1> HIDE DEF S
  <1>6. r.words \in S
    BY <1>2, <1>4, <1>5, InductionUpTo
  <1>7. PICK L : L = Lattice[r]
    OBVIOUS
  <1>8. IsFiniteSet(L)
    BY <1>1, <1>6, <1>7, LatticeTable DEF S
  <1>9. Cardinality(L) \in Nat
    BY <1>8, FS_CardinalityType
  <1>10. ASSUME NEW E \in SUBSET L
         PROVE  IsFiniteSet(E) /\ Cardinality(E) \in Nat /\ Cardinality(E) <= Cardinality(L)
    <2>1. IsFiniteSet(E) /\ Cardinality(E) <= Cardinality(L)
      BY <1>8, FS_Subset
    <2> QED BY <2>1, FS_CardinalityType
  <1> QED BY <1>7, <1>8, <1>9, <1>10

\* x is the derivation of nothing or extends one of E.
Reached(x, E, r) ==
  \/ x = NullDerivation
  \/ \E e \in E : \E a \in r.arcs : LeadsOn(e, a, r) /\ x = Then(e, a)

\* The derivations E are expanded, and d gives each of the tokens T one that is
\* not, its own, and that they lead to.
Names(T, E, d, r) ==
  /\ E \subseteq Lattice[r] /\ \A x \in E : Reached(x, E, r)
  /\ \A t \in T : /\ d[t] \in Lattice[r] /\ d[t] \notin E /\ Reached(d[t], E, r)
                  /\ EndOf(d[t], r) = t.state /\ d[t].score = t.score
  /\ \A t, u \in T : d[t] = d[u] => t = u

\* They have names.
Named(T, E, r) == \E d : Names(T, E, d, r)

(* Tokens U that stand for some of the tokens T have names when those have. *)
LEMMA Renamed ==
  ASSUME NEW r, NEW E, NEW T, Named(T, E, r), NEW U, NEW p,
         \A u \in U : p[u] \in T /\ p[u].state = u.state /\ p[u].score = u.score,
         \A u, v \in U : p[u] = p[v] => u = v
  PROVE  Named(U, E, r)
  <1>1. PICK d : Names(T, E, d, r)
    BY DEF Named
  <1>2. PICK f : f = [u \in U |-> d[p[u]]]
    OBVIOUS
  <1>3. \A u \in U : f[u] = d[p[u]]
    BY <1>2
  <1>4. ASSUME NEW u \in U
        PROVE  /\ f[u] \in Lattice[r] /\ f[u] \notin E /\ Reached(f[u], E, r)
               /\ EndOf(f[u], r) = u.state /\ f[u].score = u.score
    BY <1>1, <1>3 DEF Names
  <1>5. ASSUME NEW u \in U, NEW v \in U, f[u] = f[v]
        PROVE  u = v
    BY <1>1, <1>3, <1>5 DEF Names
  <1>6. Names(U, E, f, r)
    BY <1>1, <1>4, <1>5 DEF Names
  <1> QED BY <1>6 DEF Named

(* One token takes the place of another. *)
LEMMA Replaced ==
  ASSUME NEW r, NEW E, NEW T, Named(T, E, r), NEW t \in T, NEW u,
         u.state = t.state, u.score = t.score, NEW U, U \subseteq (T \ {t}) \cup {u}
  PROVE  Named(U, E, r)
  <1>1. PICK p : p = [v \in U |-> IF v = u THEN t ELSE v]
    OBVIOUS
  <1>2. \A v \in U : p[v] \in T /\ p[v].state = v.state /\ p[v].score = v.score
    BY <1>1
  <1>3. \A v, w \in U : p[v] = p[w] => v = w
    BY <1>1
  <1> QED BY <1>2, <1>3, Renamed

(* Some are no more. *)
LEMMA Fewer ==
  ASSUME NEW r, NEW E, NEW T, Named(T, E, r), NEW U, U \subseteq T
  PROVE  Named(U, E, r)
  BY DEF Named, Names

\* The tokens U follow from t, each by an arc of its own.
Follow(t, U, arc, r) ==
  /\ \A u \in U : /\ arc[u] \in r.arcs /\ arc[u].from = t.state
                  /\ u.state = arc[u].to /\ u.score = t.score + arc[u].score
                  /\ u.score >= -FLT_MAX
  /\ \A u, v \in U : arc[u] = arc[v] => u = v

\* The tokens V have names when one derivation more is expanded.
NamedByMore(V, E, r) ==
  \E F : /\ F \in SUBSET Lattice[r] /\ Named(V, F, r)
         /\ Cardinality(F) = Cardinality(E) + 1

(* The token t is expanded: those that follow from it get names. *)
LEMMA NamesExpanded ==
  ASSUME NEW r \in Requests, NEW E, NEW T, Named(T, E, r), NEW t \in T,
         NEW U, U \cap T = {}, NEW arc, Follow(t, U, arc, r), NEW V, V = (T \ {t}) \cup U
  PROVE  NamedByMore(V, E, r)
  <1>1. PICK d : Names(T, E, d, r)
    BY DEF Named
  <1>2. PICK x : x = d[t]
    OBVIOUS
  <1>3. /\ x \in Lattice[r] /\ x \notin E /\ Reached(x, E, r) /\ E \subseteq Lattice[r]
        /\ EndOf(x, r) = t.state /\ x.score = t.score
    BY <1>1, <1>2 DEF Names
  <1>4. PICK F : F = E \cup {x}
    OBVIOUS
  <1>5. F \in SUBSET Lattice[r] /\ Cardinality(F) = Cardinality(E) + 1
    BY <1>3, <1>4, LatticeFinite, FS_AddElement
  <1>6. ASSUME NEW y, Reached(y, E, r)
        PROVE  Reached(y, F, r)
    BY <1>4, <1>6 DEF Reached
  <1>7. PICK f : f = [u \in (T \ {t}) \cup U |-> IF u \in T THEN d[u] ELSE Then(x, arc[u])]
    OBVIOUS
  <1>8. \A u \in T \ {t} : f[u] = d[u]
    BY <1>7
  <1>9. \A u \in U : f[u] = Then(x, arc[u])
    BY <1>7
  <1>10. \A u \in U : LeadsOn(x, arc[u], r)
    BY <1>3 DEF LeadsOn, Follow
  <1>11. ASSUME NEW u \in U, NEW y, Reached(y, E, r) \/ y = x
         PROVE  f[u] # y
    <2>1. Then(x, arc[u]) # NullDerivation /\ Then(x, arc[u]) # x
      BY <1>3, <1>10, ThenIsNew
    <2>2. ASSUME NEW e \in E, NEW a \in r.arcs, LeadsOn(e, a, r)
          PROVE  Then(x, arc[u]) # Then(e, a)
      BY <1>3, <1>10, <2>2, ThenInjective
    <2> QED BY <1>9, <1>11, <2>1, <2>2 DEF Reached
  <1>12. ASSUME NEW u \in U
         PROVE  /\ f[u] \in Lattice[r] /\ f[u] \notin F /\ Reached(f[u], F, r)
                /\ EndOf(f[u], r) = u.state /\ f[u].score = u.score
    <2>1. PICK a : a = arc[u]
      OBVIOUS
    <2>2. f[u] = Then(x, a) /\ LeadsOn(x, a, r) /\ a \in r.arcs
      BY <1>9, <1>10, <2>1 DEF LeadsOn
    <2>3. f[u] \in Lattice[r]
      BY <1>3, <2>2, LatticeExtended
    <2>4. EndOf(f[u], r) = a.to /\ f[u].score = x.score + a.score
      BY <1>3, <2>2, LatticeMembers, ThenParts
    <2>5. u.state = a.to /\ u.score = x.score + a.score
      BY <1>3, <2>1 DEF Follow
    <2>6. f[u] \notin F
      BY <1>1, <1>4, <1>11 DEF Names
    <2>7. Reached(f[u], F, r)
      BY <1>4, <2>2 DEF Reached
    <2> QED BY <2>3, <2>4, <2>5, <2>6, <2>7
  <1>13. ASSUME NEW u \in T \ {t}
         PROVE  /\ f[u] \in Lattice[r] /\ f[u] \notin F /\ Reached(f[u], F, r)
                /\ EndOf(f[u], r) = u.state /\ f[u].score = u.score
    BY <1>1, <1>2, <1>4, <1>6, <1>8 DEF Names
  <1>14. ASSUME NEW u \in (T \ {t}) \cup U, NEW v \in (T \ {t}) \cup U, f[u] = f[v]
         PROVE  u = v
    <2>1. CASE u \in T \ {t} /\ v \in T \ {t}
      BY <1>1, <1>8, <1>14, <2>1 DEF Names
    <2>2. ASSUME NEW w \in U, NEW z \in T \ {t}
          PROVE  f[w] # f[z]
      <3>1. Reached(f[z], E, r)
        BY <1>1, <1>8 DEF Names
      <3> QED BY <1>11, <3>1
    <2>3. CASE u \in U /\ v \in U
      <3>1. Then(x, arc[u]) = Then(x, arc[v])
        BY <1>9, <1>14, <2>3
      <3>2. arc[u] = arc[v]
        BY <1>3, <1>10, <2>3, <3>1, ThenInjective
      <3> QED BY <2>3, <3>2 DEF Follow
    <2> QED BY <1>14, <2>1, <2>2, <2>3
  <1>15. Names((T \ {t}) \cup U, F, f, r)
    <2>1. \A y \in F : Reached(y, F, r)
      BY <1>1, <1>3, <1>4, <1>6 DEF Names
    <2> QED BY <1>5, <1>12, <1>13, <1>14, <2>1 DEF Names
  <1> QED BY <1>5, <1>15 DEF Named, NamedByMore

\* What the search can still expand, each hypothesis at its place: the node, the
\* place in hypsToExpand, or itself.
Token(at, key, h) == [at |-> at, key |-> key, state |-> h.state, score |-> h.score]

\* Of the container, ...
HeldTokens == {Token("held", n, Restored(n.hyp)) : n \in Stack!Live}
\* ... popped, ...
QueuedTokens == {Token("queued", i, hypsToExpand[i]) : i \in DOMAIN hypsToExpand}
\* ... and not pushed yet.
ExpandedTokens == {Token("expanded", h, h) : h \in {g \in expandedHyps : g.score >= -FLT_MAX}}
\* All of them.
Tokens == HeldTokens \cup QueuedTokens \cup ExpandedTokens

\* Every iteration but one that finds nothing has expanded a hypothesis.
Counted(E) ==
  /\ E \in SUBSET Lattice[request] /\ Named(Tokens, E, request)
  /\ phase # "idle" =>
       /\ iterNo <= Cardinality(E) + 1
       /\ phase = "expand" /\ ~end /\ hypsToExpand = <<>> => iterNo <= Cardinality(E)

\* The invariant of the iterations.
IterInv ==
  /\ IterationsBounded
  /\ phase = "suggest" => iterNo = 1 /\ Stack!Live = {}
  /\ settled /\ phase # "suggest" => \E E : Counted(E)

(* Tokens are the same only of the same place. *)
LEMMA TokenParts ==
  ASSUME NEW at, NEW key, NEW h
  PROVE  /\ Token(at, key, h).at = at /\ Token(at, key, h).key = key
         /\ Token(at, key, h).state = h.state /\ Token(at, key, h).score = h.score
  BY DEF Token

(* What is in the container changes with its nodes only. *)
LEMMA HeldTokensOf ==
  ASSUME UNCHANGED <<request, breadthFirst>>
  PROVE  HeldTokens' = {Token("held", n, Restored(n.hyp)) : n \in Stack!Live'}
  <1>1. \A k : Restored(k)' = Restored(k)
    BY DEF Restored, G
  <1> QED BY <1>1 DEF HeldTokens

(* Without a push or a pop it stays. *)
LEMMA HeldTokensKept ==
  ASSUME UNCHANGED <<stack, request, breadthFirst>>
  PROVE  HeldTokens' = HeldTokens
  <1>1. multiContainer' = multiContainer
    BY DEF stack
  <1>2. Stack!Live' = Stack!Live
    BY <1>1 DEF Stack!Live, Stack!Classes
  <1> QED BY <1>2, HeldTokensOf DEF HeldTokens

(* Nothing is to be expanded when nothing is held, popped or expanded. *)
LEMMA NoTokens ==
  ASSUME Stack!Live = {}, hypsToExpand = <<>>, expandedHyps = {}
  PROVE  Tokens = {}
  BY DEF Tokens, HeldTokens, QueuedTokens, ExpandedTokens

(* Then nothing needs a name. *)
LEMMA NothingNamed ==
  ASSUME NEW r \in Requests
  PROVE  Named({}, {}, r)
  BY DEF Named, Names

(* A push adds one node of the hypothesis, at most. *)
LEMMA PushToken ==
  ASSUME BaseInv, NEW h, HypOK(h), PushHyp(h), UNCHANGED <<request, breadthFirst>>
  PROVE  \/ HeldTokens' = HeldTokens
         \/ /\ h.score >= -FLT_MAX
            /\ \E u : u.at = "held" /\ u.state = h.state /\ u.score = h.score
                      /\ HeldTokens' \subseteq HeldTokens \cup {u}
  <1>1. CASE UNCHANGED stack
    BY <1>1, HeldTokensKept
  <1>2. CASE h.score >= -FLT_MAX /\ Stack!Push(Stored(h))
    <2>1. request \in Requests /\ ContainerInv /\ DOMAIN multiContainer = Stack!Classes
      BY DEF BaseInv, DecoderInv, ScalarTypes, SearchInv
    <2>2. PICK k : k = Stored(h)
      OBVIOUS
    <2>3. KeyOK(k) /\ k.cls \in Stack!Classes /\ Restored(k) = h /\ Stack!Push(k)
      BY <1>2, <2>1, <2>2, StoredRestored DEF KeyOK
    <2>4. PICK S : PushLeaves(k, S)
      BY <2>1, <2>3, PushLeft
    <2>5. PICK m : m.hyp = k /\ S \subseteq multiContainer[k.cls] \cup {m}
      <3>1. ASSUME NEW i, S \subseteq (multiContainer[k.cls] \ Stack!Recombined(k)) \cup {[id |-> i, hyp |-> k]}
            PROVE  \E m : m.hyp = k /\ S \subseteq multiContainer[k.cls] \cup {m}
        <4>1. PICK m : m = [id |-> i, hyp |-> k]
          OBVIOUS
        <4> QED BY <3>1, <4>1
      <3>2. ASSUME S \subseteq multiContainer[k.cls]
            PROVE  \E m : m.hyp = k /\ S \subseteq multiContainer[k.cls] \cup {m}
        <4>1. PICK m : m = [hyp |-> k]
          OBVIOUS
        <4> QED BY <3>2, <4>1
      <3> QED BY <2>4, <3>1, <3>2 DEF PushLeaves
    <2>6. Stack!Live' \subseteq Stack!Live \cup {m}
      <3>1. GivesNodes(k.cls, S)
        BY <2>4 DEF PushLeaves
      <3>2. \A n \in Stack!Live' : n \in S \/ \E c \in Stack!Classes : n \in multiContainer[c]
        BY <2>3, <3>1, LiveWith
      <3>3. \A c \in Stack!Classes : multiContainer[c] \subseteq Stack!Live
        BY DEF Stack!Live
      <3> QED BY <2>3, <2>5, <3>2, <3>3
    <2>7. PICK u : u = Token("held", m, Restored(m.hyp))
      OBVIOUS
    <2>8. u.at = "held" /\ u.state = h.state /\ u.score = h.score
      BY <2>3, <2>5, <2>7, TokenParts
    <2>9. HeldTokens' \subseteq HeldTokens \cup {u}
      BY <2>6, <2>7, HeldTokensOf DEF HeldTokens
    <2> QED BY <1>2, <2>8, <2>9
  <1> QED BY <1>1, <1>2 DEF PushHyp

(* A pop moves a token. *)
LEMMA SelectTokens ==
  ASSUME BaseInv, Select, NEW E, Named(Tokens, E, request)
  PROVE  Named(Tokens', E, request)
  <1>1. /\ UNCHANGED <<breadthFirst, request, expandedHyps>>
        /\ DOMAIN multiContainer = Stack!Classes /\ sortedStacksMap \subseteq Stack!Classes
    BY SelectEffect DEF BaseInv, DecoderInv, SearchInv
  <1>2. PICK c \in sortedStacksMap : \E n \in Stack!PopsFrom(multiContainer[c]) :
          /\ Stack!PopNode(PopsFirstStack, c, n)
          /\ hypsToExpand' = Append(hypsToExpand, Restored(n.hyp))
    BY DEF Select, PopHyp
  <1>3. PICK n \in Stack!PopsFrom(multiContainer[c]) :
          /\ Stack!PopNode(PopsFirstStack, c, n)
          /\ hypsToExpand' = Append(hypsToExpand, Restored(n.hyp))
    BY <1>2
  <1>4. PICK first : first = PopsFirstStack
    OBVIOUS
  <1>5. n \in multiContainer[c] /\ c \in Stack!Classes
    BY <1>1 DEF Stack!PopsFrom, Stack!Tops
  <1>6. Stack!Live' = Stack!Live \ {n} /\ n \in Stack!Live
    BY <1>1, <1>3, <1>4, <1>5, PopContainer DEF BaseInv
  <1>7. PICK x : x = Restored(n.hyp)
    OBVIOUS
  <1>8. x \in HypSet
    BY <1>6, <1>7, HeldFacts DEF BaseInv, HypOK
  <1>9. PICK q, p, H : q = hypsToExpand /\ p = Append(q, x) /\ H = HypSet
    OBVIOUS
  <1>10. /\ DOMAIN q = 1 .. Len(q) /\ Len(q) \in Nat /\ DOMAIN p = 1 .. Len(q) + 1
         /\ p[Len(q) + 1] = x /\ \A i \in 1 .. Len(q) : p[i] = q[i]
    <2>1. q \in Seq(H) /\ x \in H
      BY <1>8, <1>9 DEF BaseInv, DecoderInv, SearchInv
    <2>2. /\ p \in Seq(H) /\ Len(p) = Len(q) + 1
          /\ p[Len(q) + 1] = x /\ \A i \in 1 .. Len(q) : p[i] = q[i]
      BY <1>9, <2>1, AppendProperties
    <2> QED BY <2>1, <2>2, LenProperties
  <1>11. PICK t, u : t = Token("held", n, x) /\ u = Token("queued", Len(q) + 1, x)
    OBVIOUS
  <1>12. QueuedTokens' \subseteq QueuedTokens \cup {u}
    <2>1. \A i \in DOMAIN p : (i \in DOMAIN q /\ p[i] = q[i]) \/ (i = Len(q) + 1 /\ p[i] = x)
      BY <1>10
    <2>2. QueuedTokens' = {Token("queued", i, p[i]) : i \in DOMAIN p}
      BY <1>3, <1>7, <1>9 DEF QueuedTokens
    <2> QED BY <1>9, <1>11, <2>1, <2>2 DEF QueuedTokens
  <1>13. HeldTokens' \subseteq HeldTokens \ {t}
    <2>1. \A m \in Stack!Live' : Token("held", m, Restored(m.hyp)) # t
      BY <1>6, <1>11, TokenParts
    <2> QED BY <1>1, <1>6, <2>1, HeldTokensOf DEF HeldTokens
  <1>14. t \in Tokens /\ ExpandedTokens' = ExpandedTokens
    BY <1>1, <1>6, <1>7, <1>11 DEF Tokens, HeldTokens, ExpandedTokens
  <1>15. t \notin QueuedTokens /\ t \notin ExpandedTokens
    <2>1. t.at = "held"
      BY <1>11, TokenParts
    <2>2. \A v \in QueuedTokens : v.at = "queued"
      BY TokenParts DEF QueuedTokens
    <2>3. \A v \in ExpandedTokens : v.at = "expanded"
      BY TokenParts DEF ExpandedTokens
    <2> QED BY <2>1, <2>2, <2>3
  <1>16. Tokens' \subseteq (Tokens \ {t}) \cup {u}
    BY <1>12, <1>13, <1>14, <1>15 DEF Tokens
  <1>17. u.state = t.state /\ u.score = t.score
    BY <1>11, TokenParts
  <1>18. PICK T, V, r : T = Tokens /\ V = Tokens' /\ r = request
    OBVIOUS
  <1>19. Named(V, E, r)
    BY <1>14, <1>16, <1>17, <1>18, Replaced
  <1> QED BY <1>18, <1>19

\* The tokens when the current hypothesis is taken.
CurrentToken == Token("current", 0, Current)

(* The places of the queue move up. *)
LEMMA NextTokens ==
  ASSUME BaseInv, NextHyp, NEW E, Named(Tokens, E, request)
  PROVE  Named(HeldTokens \cup QueuedTokens' \cup {CurrentToken}, E, request)
  <1>1. /\ expandedHyps = {} /\ hypsToExpand # <<>> /\ hypsToExpand' = Tail(hypsToExpand)
    BY NextHypEffect DEF BaseInv, NextHyp
  <1>2. PICK q, p, H : q = hypsToExpand /\ p = Tail(q) /\ H = HypSet
    OBVIOUS
  <1>3. q \in Seq(H) /\ q # <<>>
    BY <1>1, <1>2 DEF BaseInv, DecoderInv, SearchInv
  <1>4. /\ Len(q) \in Nat /\ Len(q) # 0 /\ DOMAIN q = 1 .. Len(q)
        /\ p \in Seq(H) /\ Len(p) = Len(q) - 1 /\ DOMAIN p = 1 .. Len(p)
        /\ \A i \in 1 .. Len(p) : p[i] = q[i + 1]
    BY <1>2, <1>3, HeadTailProperties, LenProperties, EmptySeq
  <1>5. Head(q) = q[1] /\ 1 \in DOMAIN q
    BY <1>3, <1>4
  <1>6. \A i \in DOMAIN p : i + 1 \in DOMAIN q /\ p[i] = q[i + 1] /\ i + 1 # 1 /\ i \in Nat
    BY <1>4
  <1>7. PICK A, Q, R, c : /\ A = HeldTokens /\ Q = QueuedTokens /\ R = QueuedTokens'
                          /\ c = CurrentToken
    OBVIOUS
  <1>8. Q = {Token("queued", i, q[i]) : i \in DOMAIN q} /\ R = {Token("queued", i, p[i]) : i \in DOMAIN p}
    BY <1>1, <1>2, <1>7 DEF QueuedTokens
  <1>9. \A t \in A : t.at = "held"
    BY <1>7, TokenParts DEF HeldTokens
  <1>10. \A t \in R : /\ t.at = "queued" /\ t.key \in DOMAIN p /\ t.state = p[t.key].state
                      /\ t.score = p[t.key].score /\ t = Token("queued", t.key, p[t.key])
    <2>1. ASSUME NEW i \in DOMAIN p
          PROVE  LET t == Token("queued", i, p[i]) IN
                 /\ t.at = "queued" /\ t.key \in DOMAIN p /\ t.state = p[t.key].state
                 /\ t.score = p[t.key].score /\ t = Token("queued", t.key, p[t.key])
      BY TokenParts
    <2> QED BY <1>8, <2>1
  <1>11. c.at = "current" /\ c.state = q[1].state /\ c.score = q[1].score
    BY <1>2, <1>5, <1>7, TokenParts DEF CurrentToken, Current
  <1>12. PICK f : f = [t \in A \cup R \cup {c} |->
                         IF t.at = "held" THEN t
                         ELSE IF t.at = "queued" THEN Token("queued", t.key + 1, q[t.key + 1])
                         ELSE Token("queued", 1, q[1])]
    OBVIOUS
  <1>13. \A t \in A : f[t] = t
    BY <1>9, <1>12
  <1>14. \A t \in R : f[t] = Token("queued", t.key + 1, q[t.key + 1])
    BY <1>10, <1>12
  <1>15. f[c] = Token("queued", 1, q[1])
    BY <1>11, <1>12
  <1>16. \A t \in A \cup R \cup {c} :
           f[t] \in A \cup Q /\ f[t].state = t.state /\ f[t].score = t.score
    <2>1. ASSUME NEW t \in R
          PROVE  f[t] \in Q /\ f[t].state = t.state /\ f[t].score = t.score
      <3>1. PICK i \in DOMAIN p : i = t.key
        BY <1>10
      <3>2. i + 1 \in DOMAIN q /\ p[i] = q[i + 1] /\ f[t] = Token("queued", i + 1, q[i + 1])
        BY <1>6, <1>14, <3>1
      <3>3. t.state = p[i].state /\ t.score = p[i].score
        BY <1>10, <3>1
      <3> QED BY <1>8, <3>2, <3>3, TokenParts
    <2>2. f[c] \in Q /\ f[c].state = c.state /\ f[c].score = c.score
      BY <1>5, <1>8, <1>11, <1>15, TokenParts
    <2> QED BY <1>13, <2>1, <2>2
  <1>17. ASSUME NEW t \in A \cup R \cup {c}, NEW u \in A \cup R \cup {c}, f[t] = f[u]
         PROVE  t = u
    <2>1. \A v \in A : f[v].at = "held"
      BY <1>9, <1>13
    <2>2. \A v \in R : f[v].at = "queued" /\ f[v].key = v.key + 1 /\ v.key + 1 # 1
      BY <1>6, <1>10, <1>14, TokenParts
    <2>3. f[c].at = "queued" /\ f[c].key = 1
      BY <1>15, TokenParts
    <2>4. CASE t \in R /\ u \in R
      <3>1. t.key + 1 = u.key + 1 /\ t.key \in Nat /\ u.key \in Nat
        BY <1>6, <1>10, <1>17, <2>2, <2>4
      <3>2. t.key = u.key
        BY <3>1
      <3> QED BY <1>10, <2>4, <3>2
    <2>5. CASE t \in A /\ u \in A
      BY <1>13, <1>17, <2>5
    <2> QED BY <1>17, <2>1, <2>2, <2>3, <2>4, <2>5
  <1>18. A \cup Q \subseteq Tokens
    BY <1>7 DEF Tokens
  <1>19. PICK T, r : T = Tokens /\ r = request
    OBVIOUS
  <1>20. PICK U : U = A \cup R \cup {c}
    OBVIOUS
  <1>21. \A t \in U : f[t] \in T /\ f[t].state = t.state /\ f[t].score = t.score
    BY <1>16, <1>18, <1>19, <1>20
  <1>22. \A t, u \in U : f[t] = f[u] => t = u
    BY <1>17, <1>20
  <1>23. Named(U, E, r)
    BY <1>19, <1>21, <1>22, Renamed
  <1> QED BY <1>7, <1>19, <1>20, <1>23

(* Iterations that are counted are not too many. *)
LEMMA CountedBounds ==
  ASSUME DecoderInv, NEW E \in SUBSET Lattice[request]
  PROVE  /\ Cardinality(E) \in Nat /\ Cardinality(E) <= Cardinality(Lattice[request])
         /\ Cardinality(Lattice[request]) \in Nat /\ iterNo \in Nat
  <1>1. request \in Requests /\ iterNo \in Nat
    BY Bounds DEF DecoderInv, ScalarTypes
  <1>2. PICK L : L = Lattice[request]
    OBVIOUS
  <1> QED BY <1>1, <1>2, LatticeFinite

(* A step within an iteration that leaves names for its tokens. *)
LEMMA CountedStep ==
  ASSUME NEW E, Counted(E), UNCHANGED <<request, phase, iterNo>>, Named(Tokens', E, request),
         phase = "expand" /\ ~end' /\ hypsToExpand' = <<>> => ~end /\ hypsToExpand = <<>>
  PROVE  Counted(E)'
  <1>1. Lattice' = Lattice /\ \A T : Named(T, E, request)' <=> Named(T, E, request)
    BY DEF Lattice, Named, Names
  <1> QED BY <1>1 DEF Counted

(* What a step does to the invariant that only moves tokens. *)
LEMMA IterKept ==
  ASSUME IterInv, UNCHANGED <<request, iterNo>>
  PROVE  IterationsBounded'
  BY DEF IterInv, IterationsBounded, Lattice

(* The calls begin with an iteration that has not expanded anything. *)
LEMMA IterCall ==
  ASSUME BaseInv, IterInv,
         \/ (\E r \in Requests : Translate(r)) \/ GetNextTrans \/ Clear
         \/ (\E n \in StackSizes : SetS(n)) \/ (\E n \in Expansions : SetI(n))
         \/ (\E b \in BOOLEAN : SetBreadthFirst(b) \/ UseBestScorePruning(b) \/ EnableWordGraph(b))
         \/ UNCHANGED vars
  PROVE  IterInv'
  <1>1. /\ maxStackSize \in Nat /\ request \in Requests /\ DecoderInv
        /\ phase = "idle" => expandedHyps = {} /\ hypsToExpand = <<>>
    BY DEF BaseInv, ContainerInv, DecoderInv, ScalarTypes, PhaseInv
  <1>2. ASSUME Stack!Clear
        PROVE  Stack!Live' = {}
    BY <1>1, <1>2, ClearContainer
  <1>3. ASSUME NEW r \in Requests
        PROVE  Cardinality(Lattice[r]) \in Nat /\ 1 <= Cardinality(Lattice[r]) + 2
    <2>1. PICK n : n = Cardinality(Lattice[r])
      OBVIOUS
    <2>2. n \in Nat
      BY <2>1, LatticeFinite
    <2>3. 1 <= n + 2
      BY <2>2
    <2> QED BY <2>1, <2>2, <2>3
  <1>4. ASSUME Stack!Live' = {}, hypsToExpand' = <<>>, expandedHyps' = {}, phase' = "idle",
               request' \in Requests
        PROVE  \E E : Counted(E)'
    <2>1. Tokens' = {}
      BY <1>4, NoTokens DEF Tokens, HeldTokens, QueuedTokens, ExpandedTokens
    <2>2. Named({}, {}, request')
      BY <1>4, NothingNamed
    <2>3. Counted({})'
      BY <1>4, <2>1, <2>2 DEF Counted, Named, Names, Lattice
    <2> QED BY <2>3
  <1>5. ASSUME NEW r \in Requests, Translate(r)
        PROVE  IterInv'
    <2>1. /\ Stack!Clear /\ hypsToExpand' = <<>> /\ expandedHyps' = {}
          /\ iterNo' = 1 /\ request' = r /\ phase' \in {"idle", "suggest"}
      BY <1>5 DEF Translate, StartDecode
    <2>2. Stack!Live' = {}
      BY <1>2, <2>1
    <2>3. IterationsBounded'
      BY <1>3, <2>1 DEF IterationsBounded, Lattice
    <2> QED BY <1>4, <2>1, <2>2, <2>3 DEF IterInv
  <1>6. CASE GetNextTrans
    <2>1. /\ UNCHANGED <<stack, request, breadthFirst, settled>> /\ settled /\ phase = "idle"
          /\ hypsToExpand' = <<>> /\ expandedHyps' = {} /\ iterNo' = 1 /\ phase' = "select"
      BY <1>6 DEF GetNextTrans, StartDecode, parameters
    <2>2. PICK E : Counted(E)
      BY <2>1 DEF IterInv
    <2>3. HeldTokens' = HeldTokens
      BY <2>1, HeldTokensKept
    <2>4. Tokens' = Tokens
      BY <1>1, <2>1, <2>3 DEF Tokens, QueuedTokens, ExpandedTokens
    <2>5. E \in SUBSET Lattice[request] /\ 1 <= Cardinality(E) + 1
      <3>1. E \in SUBSET Lattice[request]
        BY <2>2 DEF Counted
      <3>2. Cardinality(E) \in Nat
        BY <1>1, <3>1, CountedBounds
      <3> QED BY <3>1, <3>2
    <2>6. Counted(E)'
      BY <2>1, <2>2, <2>4, <2>5 DEF Counted, Named, Names, Lattice
    <2>7. IterationsBounded'
      BY <1>1, <1>3, <2>1 DEF IterationsBounded, Lattice
    <2> QED BY <2>1, <2>6, <2>7 DEF IterInv
  <1>7. CASE Clear
    <2>1. Stack!Clear /\ UNCHANGED <<expandedHyps, hypsToExpand, iterNo, request, phase>> /\ phase = "idle"
      BY <1>7 DEF Clear, locals
    <2>2. IterationsBounded'
      BY <2>1, IterKept
    <2> QED BY <1>1, <1>2, <1>4, <2>1, <2>2 DEF IterInv
  <1>8. CASE UNCHANGED vars
    <2>1. UNCHANGED <<request, breadthFirst, settled, phase, end, iterNo, expandedHyps, hypsToExpand, stack>>
      BY <1>8 DEF vars, parameters, task, locals
    <2>2. HeldTokens' = HeldTokens /\ Stack!Live' = Stack!Live
      BY <2>1, HeldTokensKept DEF stack, Stack!Live, Stack!Classes
    <2>3. Tokens' = Tokens
      BY <2>1, <2>2 DEF Tokens, QueuedTokens, ExpandedTokens
    <2>4. ASSUME NEW E, Counted(E)
          PROVE  Counted(E)'
      <3>1. Named(Tokens', E, request)
        BY <2>3, <2>4 DEF Counted
      <3> QED BY <2>1, <2>4, <3>1, CountedStep
    <2> QED BY <2>1, <2>2, <2>4, IterKept DEF IterInv
  <1>9. ASSUME settled' = FALSE, UNCHANGED <<request, phase, iterNo>>, phase = "idle"
        PROVE  IterInv'
    BY <1>9, IterKept DEF IterInv
  <1>10. ASSUME SetParameter
         PROVE  settled' = FALSE /\ UNCHANGED <<request, phase, iterNo>> /\ phase = "idle"
    BY <1>10 DEF SetParameter, task, locals
  <1> QED BY <1>5, <1>6, <1>7, <1>8, <1>9, <1>10
          DEF SetS, SetI, SetBreadthFirst, UseBestScorePruning, EnableWordGraph

(* The null hypothesis gets the derivation of nothing. *)
LEMMA IterSuggest ==
  ASSUME BaseInv, IterInv, SuggestNullHyp
  PROVE  IterInv'
  <1>1. /\ request \in Requests /\ phase = "suggest" /\ phase' = "select" /\ DecoderInv
        /\ hypsToExpand = <<>> /\ expandedHyps = {} /\ Stack!Live = {} /\ iterNo = 1
    BY DEF BaseInv, DecoderInv, ScalarTypes, PhaseInv, SuggestNullHyp, IterInv
  <1>2. UNCHANGED <<request, breadthFirst, hypsToExpand, expandedHyps, iterNo, end>>
    BY DEF SuggestNullHyp, parameters, task, locals
  <1>3. PICK h : h = NullHyp(request)
    OBVIOUS
  <1>4. PushHyp(h) /\ HypOK(h) /\ h.state = request.root /\ h.score = 0
    BY <1>1, <1>3, NullHypOK DEF SuggestNullHyp, NullHyp
  <1>5. HeldTokens = {}
    BY <1>1 DEF HeldTokens
  <1>6. /\ \A t \in HeldTokens' : t.state = request.root /\ t.score = 0
        /\ \A t, u \in HeldTokens' : t = u
    BY <1>2, <1>4, <1>5, PushToken
  <1>7. Tokens' = HeldTokens'
    BY <1>1, <1>2 DEF Tokens, QueuedTokens, ExpandedTokens
  <1>8. PICK r, T : r = request /\ T = Tokens'
    OBVIOUS
  <1>9. PICK d : d = [t \in T |-> NullDerivation]
    OBVIOUS
  <1>10. /\ NullDerivation \in Lattice[r] /\ EndOf(NullDerivation, r) = r.root
         /\ NullDerivation.score = 0
    BY <1>1, <1>8, NullInLattice, NullWellFormed
  <1>11. Names(T, {}, d, r)
    BY <1>6, <1>7, <1>8, <1>9, <1>10 DEF Names, Reached
  <1>12. Named(Tokens', {}, request)
    BY <1>8, <1>11 DEF Named
  <1>13. 1 <= Cardinality({}) + 1
    BY FS_EmptySet
  <1>14. Counted({})'
    BY <1>1, <1>2, <1>12, <1>13 DEF Counted, Named, Names, Lattice
  <1> QED BY <1>1, <1>2, <1>14, IterKept DEF IterInv

(* A pop moves a token. *)
LEMMA IterSelect ==
  ASSUME BaseInv, IterInv, Select
  PROVE  IterInv'
  <1>1. /\ phase = "select" /\ UNCHANGED <<request, phase, iterNo, settled>> /\ settled
    BY SelectEffect, StepFacts DEF BaseInv
  <1>2. PICK E : Counted(E)
    BY <1>1 DEF IterInv
  <1>3. Named(Tokens', E, request)
    BY <1>2, SelectTokens DEF Counted
  <1>4. Counted(E)'
    BY <1>1, <1>2, <1>3, CountedStep
  <1> QED BY <1>1, <1>4, IterKept DEF IterInv

(* The begin of an iteration finds something to expand, unless it is the last. *)
LEMMA IterBegin ==
  ASSUME BaseInv, IterInv, BeginIteration
  PROVE  IterInv'
  <1>1. /\ phase = "select" /\ phase' = "expand" /\ end' = NothingToExpand
        /\ UNCHANGED <<request, breadthFirst, iterNo, settled, hypsToExpand, expandedHyps, stack>>
    BY DEF BeginIteration, parameters, task
  <1>2. settled
    BY <1>1, StepFacts DEF BaseInv
  <1>3. PICK E : Counted(E)
    BY <1>1, <1>2 DEF IterInv
  <1>4. Tokens' = Tokens
    BY <1>1, HeldTokensKept DEF Tokens, QueuedTokens, ExpandedTokens
  <1>5. Counted(E)'
    BY ZenonT(60), <1>1, <1>3, <1>4 DEF Counted, NothingToExpand, Named, Names, Lattice
  <1> QED BY <1>1, <1>5, IterKept DEF IterInv

(* The end of an iteration that goes on has expanded something. *)
LEMMA IterEnd ==
  ASSUME BaseInv, IterInv, EndIteration
  PROVE  IterInv'
  <1>1. /\ phase = "expand" /\ phase' \in {"idle", "select"} /\ hypsToExpand = <<>>
        /\ iterNo' = iterNo + 1 /\ (phase' = "select" => ~end)
        /\ UNCHANGED <<request, breadthFirst, settled, hypsToExpand, expandedHyps, end, stack>>
    BY DEF EndIteration, parameters, task
  <1>2. settled /\ DecoderInv
    BY <1>1, StepFacts DEF BaseInv
  <1>3. PICK E : Counted(E)
    BY <1>1, <1>2 DEF IterInv
  <1>4. Tokens' = Tokens
    BY <1>1, HeldTokensKept DEF Tokens, QueuedTokens, ExpandedTokens
  <1>5. PICK n, m : n = Cardinality(E) /\ m = Cardinality(Lattice[request])
    OBVIOUS
  <1>6. E \in SUBSET Lattice[request] /\ iterNo <= n + 1 /\ (~end => iterNo <= n)
    BY <1>1, <1>3, <1>5 DEF Counted
  <1>7. n \in Nat /\ m \in Nat /\ n <= m /\ iterNo \in Nat
    BY <1>2, <1>5, <1>6, CountedBounds
  <1>8. iterNo' <= m + 2 /\ (~end => iterNo' <= n + 1)
    BY <1>1, <1>6, <1>7
  <1>9. Counted(E)'
    BY <1>1, <1>3, <1>4, <1>5, <1>8 DEF Counted, Named, Names, Lattice
  <1>10. IterationsBounded'
    BY <1>1, <1>5, <1>8 DEF IterationsBounded, Lattice
  <1> QED BY <1>1, <1>9, <1>10 DEF IterInv

(* What is taken from the queue is the result, goes back or is expanded. *)
LEMMA IterNext ==
  ASSUME BaseInv, IterInv, TakeComplete \/ ReturnComplete \/ Expand
  PROVE  IterInv'
  <1>1. NextHyp
    BY DEF TakeComplete, ReturnComplete, Expand
  <1>2. /\ phase = "expand" /\ expandedHyps = {} /\ HypOK(Current)
        /\ UNCHANGED <<breadthFirst, request, phase, iterNo, settled>>
        /\ settled /\ request \in Requests /\ hypsToExpand # <<>> /\ DecoderInv
    BY <1>1, NextHypEffect, StepFacts DEF BaseInv
  <1>3. PICK E : Counted(E)
    BY <1>2 DEF IterInv
  <1>4. PICK A, Q, c, h : A = HeldTokens /\ Q = QueuedTokens' /\ c = CurrentToken /\ h = Current
    OBVIOUS
  <1>5. Named(A \cup Q \cup {c}, E, request)
    BY <1>1, <1>3, <1>4, NextTokens DEF Counted
  <1>6. c.at = "current" /\ c.state = h.state /\ c.score = h.score
    BY <1>4, TokenParts DEF CurrentToken
  <1>7. (\A t \in A : t.at = "held") /\ (\A t \in Q : t.at = "queued")
    <2>1. \A t \in A : t.at = "held"
      BY <1>4, TokenParts DEF HeldTokens
    <2>2. QueuedTokens' = {Token("queued", i, hypsToExpand'[i]) : i \in DOMAIN hypsToExpand'}
      BY DEF QueuedTokens
    <2>3. \A t \in Q : t.at = "queued"
      BY <1>4, <2>2, TokenParts
    <2> QED BY <2>1, <2>3
  <1>8. c \notin A /\ c \notin Q
    BY <1>6, <1>7
  <1>9. PICK T : T = A \cup Q \cup {c}
    OBVIOUS
  <1>10. ASSUME NEW F, Counted(F)'
         PROVE  IterInv'
    BY <1>2, <1>10, IterKept DEF IterInv
  <1>11. CASE TakeComplete
    <2>1. UNCHANGED <<stack, expandedHyps>> /\ end'
      BY <1>11 DEF TakeComplete
    <2>2. Tokens' = A \cup Q
      BY <1>2, <1>4, <2>1, HeldTokensKept DEF Tokens, ExpandedTokens
    <2>3. Named(Tokens', E, request)
      BY <1>5, <2>2, Fewer
    <2>4. Counted(E)'
      BY <1>2, <1>3, <2>1, <2>3, CountedStep
    <2> QED BY <1>10, <2>4
  <1>12. CASE ReturnComplete
    <2>1. PushHyp(h) /\ UNCHANGED <<expandedHyps, end>> /\ end
      BY <1>4, <1>12 DEF ReturnComplete
    <2>2. Tokens' = HeldTokens' \cup Q
      BY <1>2, <1>4, <2>1 DEF Tokens, ExpandedTokens
    <2>3. \/ HeldTokens' = A
          \/ \E u : u.state = h.state /\ u.score = h.score /\ HeldTokens' \subseteq A \cup {u}
      BY <1>2, <1>4, <2>1, PushToken
    <2>4. PICK V, r : V = Tokens' /\ r = request
      OBVIOUS
    <2>5. Named(V, E, r)
      <3>1. CASE HeldTokens' = A
        <4>1. V \subseteq T
          BY <1>9, <2>2, <2>4, <3>1
        <4> QED BY <1>5, <1>9, <2>4, <4>1, Fewer
      <3>2. ASSUME NEW u, u.state = h.state, u.score = h.score, HeldTokens' \subseteq A \cup {u}
            PROVE  Named(V, E, r)
        <4>1. V \subseteq (T \ {c}) \cup {u}
          BY <1>8, <1>9, <2>2, <2>4, <3>2
        <4> QED BY <1>5, <1>6, <1>9, <2>4, <3>2, <4>1, Replaced
      <3> QED BY <2>3, <3>1, <3>2
    <2>6. Counted(E)'
      BY <1>2, <1>3, <2>1, <2>4, <2>5, CountedStep
    <2> QED BY <1>10, <2>6
  <1>13. CASE Expand
    <2>1. UNCHANGED <<stack, end>> /\ expandedHyps' = Successors(h)
      BY <1>4, <1>13 DEF Expand
    <2>2. PICK U : U = {Token("expanded", g, g) : g \in {x \in Successors(h) : x.score >= -FLT_MAX}}
      OBVIOUS
    <2>3. Tokens' = A \cup Q \cup U
      BY <1>2, <1>4, <2>1, <2>2, HeldTokensKept DEF Tokens, ExpandedTokens
    <2>4. PICK r : r = request
      OBVIOUS
    <2>5. PICK Of : Of = [a \in r.arcs |->
                            [cls   |-> 2 * Cov[a.to] + (IF a.jump = 1 THEN 1 ELSE h.cls % 2),
                             state |-> a.to, score |-> h.score + a.score]]
      OBVIOUS
    <2>6. PICK arc : arc = [u \in U |-> CHOOSE a \in r.arcs : a.from = h.state /\ u.key = Of[a]]
      OBVIOUS
    <2>7. ASSUME NEW u \in U
          PROVE  /\ arc[u] \in r.arcs /\ arc[u].from = h.state /\ u.key = Of[arc[u]]
                 /\ u = Token("expanded", u.key, u.key) /\ u.key.score >= -FLT_MAX
                 /\ u.at = "expanded"
      <3>1. PICK g \in Successors(h) : u = Token("expanded", g, g) /\ g.score >= -FLT_MAX
        BY <2>2
      <3>2. u.key = g /\ u.at = "expanded"
        BY <3>1, TokenParts
      <3>3. \E a \in r.arcs : a.from = h.state /\ g = Of[a]
        BY <2>4, <2>5 DEF Successors
      <3>4. arc[u] \in r.arcs /\ arc[u].from = h.state /\ u.key = Of[arc[u]]
        BY <2>6, <3>2, <3>3
      <3> QED BY <3>1, <3>2, <3>4
    <2>8. ASSUME NEW u \in U
          PROVE  /\ arc[u] \in r.arcs /\ arc[u].from = c.state
                 /\ u.state = arc[u].to /\ u.score = c.score + arc[u].score
                 /\ u.score >= -FLT_MAX
      <3>1. u.state = u.key.state /\ u.score = u.key.score
        BY <2>7, TokenParts
      <3>2. \A a \in r.arcs : Of[a].state = a.to /\ Of[a].score = h.score + a.score
        BY <2>5
      <3>3. PICK a : a = arc[u]
        OBVIOUS
      <3>4. a \in r.arcs /\ u.key = Of[a]
        BY <2>7, <3>3
      <3>5. u.key.state = a.to /\ u.key.score = h.score + a.score
        BY <3>2, <3>4
      <3> QED BY <1>6, <2>7, <3>1, <3>3, <3>5
    <2>9. \A u, v \in U : arc[u] = arc[v] => u = v
      BY <2>7
    <2>10. U \cap T = {} /\ Tokens' = (T \ {c}) \cup U
      <3>1. U \cap T = {}
        BY <1>6, <1>7, <1>9, <2>7
      <3> QED BY <1>8, <1>9, <2>3, <3>1
    <2>11. r \in Requests /\ Named(T, E, r) /\ c \in T
      BY <1>2, <1>5, <1>9, <2>4
    <2>12. PICK F : /\ F \in SUBSET Lattice[r] /\ Named(Tokens', F, r)
                    /\ Cardinality(F) = Cardinality(E) + 1
      <3>1. Follow(c, U, arc, r)
        BY <2>8, <2>9 DEF Follow
      <3>2. PICK V : V = Tokens'
        OBVIOUS
      <3>3. V = (T \ {c}) \cup U
        BY <2>10, <3>2
      <3>4. NamedByMore(V, E, r)
        BY <2>10, <2>11, <3>1, <3>3, NamesExpanded
      <3> QED BY <3>2, <3>4 DEF NamedByMore
    <2>13. iterNo <= Cardinality(E) + 1 /\ E \in SUBSET Lattice[request]
      BY <1>2, <1>3 DEF Counted
    <2>14. iterNo <= Cardinality(F) /\ iterNo <= Cardinality(F) + 1
      <3>1. PICK n : n = Cardinality(E)
        OBVIOUS
      <3>2. n \in Nat /\ iterNo \in Nat
        BY <1>2, <2>13, <3>1, CountedBounds
      <3> QED BY <2>12, <2>13, <3>1, <3>2
    <2>15. Named(Tokens', F, request) /\ F \in SUBSET Lattice[request]
      BY <2>4, <2>12
    <2>16. Counted(F)'
      BY <1>2, <2>14, <2>15 DEF Counted, Named, Names, Lattice
    <2> QED BY <1>10, <2>16
  <1> QED BY <1>11, <1>12, <1>13

(* What extends a hypothesis is pushed. *)
LEMMA IterPush ==
  ASSUME BaseInv, IterInv, NEW h \in expandedHyps, PushExpanded(h)
  PROVE  IterInv'
  <1>1. /\ phase = "expand" /\ PushHyp(h) /\ expandedHyps' = expandedHyps \ {h}
        /\ UNCHANGED <<breadthFirst, request, settled, phase, iterNo, end, hypsToExpand>>
    BY DEF PushExpanded, parameters, task
  <1>2. settled /\ HypOK(h)
    BY <1>1, StepFacts DEF BaseInv
  <1>3. PICK E : Counted(E)
    BY <1>1, <1>2 DEF IterInv
  <1>4. PICK T, V, r : T = Tokens /\ V = Tokens' /\ r = request
    OBVIOUS
  <1>5. PICK t : t = Token("expanded", h, h)
    OBVIOUS
  <1>6. t.state = h.state /\ t.score = h.score /\ t.at = "expanded" /\ t.key = h
    BY <1>5, TokenParts
  <1>7. ExpandedTokens' \subseteq ExpandedTokens \ {t} /\ QueuedTokens' = QueuedTokens
    <2>1. ExpandedTokens' = {Token("expanded", g, g) : g \in {x \in expandedHyps \ {h} : x.score >= -FLT_MAX}}
      BY <1>1 DEF ExpandedTokens
    <2>2. \A g : Token("expanded", g, g) = t => g = h
      BY <1>6, TokenParts
    <2> QED BY <1>1, <2>1, <2>2 DEF ExpandedTokens, QueuedTokens
  <1>8. t \notin HeldTokens /\ t \notin QueuedTokens
    <2>1. \A v \in HeldTokens : v.at = "held"
      BY TokenParts DEF HeldTokens
    <2>2. \A v \in QueuedTokens : v.at = "queued"
      BY TokenParts DEF QueuedTokens
    <2> QED BY <1>6, <2>1, <2>2
  <1>9. Named(T, E, r)
    BY <1>3, <1>4 DEF Counted
  <1>10. Named(V, E, r)
    <2>1. CASE HeldTokens' = HeldTokens
      <3>1. V \subseteq T
        BY <1>4, <1>7, <2>1 DEF Tokens
      <3> QED BY <1>9, <3>1, Fewer
    <2>2. ASSUME h.score >= -FLT_MAX, NEW u, u.state = h.state, u.score = h.score,
                 HeldTokens' \subseteq HeldTokens \cup {u}
          PROVE  Named(V, E, r)
      <3>1. t \in T
        BY <1>4, <1>5, <2>2 DEF Tokens, ExpandedTokens
      <3>2. V \subseteq (T \ {t}) \cup {u}
        BY <1>4, <1>7, <1>8, <2>2 DEF Tokens
      <3> QED BY SMTT(40), <1>6, <1>9, <2>2, <3>1, <3>2, Replaced
    <2> QED BY <1>1, <1>2, <2>1, <2>2, PushToken
  <1>11. Counted(E)'
    BY <1>1, <1>3, <1>4, <1>10, CountedStep
  <1> QED BY <1>1, <1>11, IterKept DEF IterInv

(* Every step keeps the invariant. *)
LEMMA IterStep ==
  ASSUME BaseInv, IterInv, [Next]_vars
  PROVE  IterInv'
  <1>1. CASE Step
    BY <1>1, IterSuggest, IterSelect, IterBegin, IterNext, IterPush, IterEnd DEF Step
  <1>2. CASE ~Step
    BY <1>2, IterCall DEF Next
  <1> QED BY <1>1, <1>2

(* It holds initially. *)
LEMMA IterInit ==
  ASSUME Init
  PROVE  IterInv
  <1>1. /\ request \in Requests /\ phase = "idle" /\ iterNo = 1
        /\ hypsToExpand = <<>> /\ expandedHyps = {}
    BY DEF Init
  <1>2. Stack!Live = {}
    BY DEF Init, Stack!Init, Stack!NoNodes, Stack!Live
  <1>3. Tokens = {}
    BY <1>1, <1>2, NoTokens
  <1>4. Counted({})
    BY <1>1, <1>3, NothingNamed DEF Counted
  <1>5. IterationsBounded
    <2>1. PICK n : n = Cardinality(Lattice[request])
      OBVIOUS
    <2>2. n \in Nat
      BY <1>1, <2>1, LatticeFinite
    <2>3. 1 <= n + 2
      BY <2>2
    <2> QED BY <1>1, <2>1, <2>3 DEF IterationsBounded
  <1> QED BY <1>1, <1>4, <1>5 DEF IterInv

(* A search never takes more iterations than there are hypotheses in the
   lattice and two: every iteration but the last expands one that was not
   expanded before.  The bound MAX_NUM_OF_ITER on the iterations of decode
   therefore ends no search of a lattice that is smaller. *)
THEOREM IterationInvariance == Spec => []IterationsBounded
  <1>1. Init => BaseInv /\ IterInv
    BY BaseInit, IterInit
  <1>2. BaseInv /\ IterInv /\ [Next]_vars => BaseInv' /\ IterInv'
    BY BaseStep, IterStep
  <1>3. IterInv => IterationsBounded
    BY DEF IterInv
  <1> QED BY <1>1, <1>2, <1>3, PTL DEF Spec

\* MAX_NUM_OF_ITER is above what a search of the lattice takes.
EnoughIterations == Cardinality(Lattice[request]) + 2 < MAX_NUM_OF_ITER

(* Of a lattice that is smaller than MAX_NUM_OF_ITER, translate therefore
   returns a translation however small the stacks are, and the best one when
   they hold everything and the heuristic is admissible: it never gives up. *)
THEOREM ResultInvariance ==
  Spec => [](EnoughIterations => BeamFindsTranslation /\ ResultIsOptimal)
  <1>1. DecoderInv /\ IterationsBounded => (EnoughIterations => NotGivenUp)
    <2>1. SUFFICES ASSUME DecoderInv, IterationsBounded, EnoughIterations
                   PROVE  NotGivenUp
      OBVIOUS
    <2>2. PICK n : n = Cardinality(Lattice[request])
      OBVIOUS
    <2>3. n \in Nat /\ iterNo \in Nat /\ MAX_NUM_OF_ITER \in Nat
      BY <2>1, <2>2, Bounds, LatticeFinite DEF DecoderInv, ScalarTypes
    <2>4. iterNo <= n + 2 /\ n + 2 < MAX_NUM_OF_ITER
      BY <2>1, <2>2 DEF IterationsBounded, EnoughIterations
    <2> QED BY <2>3, <2>4 DEF NotGivenUp
  <1> QED BY <1>1, DecoderInvariance, IterationInvariance, BeamInvariance, OptimalInvariance, PTL
=============================================================================
