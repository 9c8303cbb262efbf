-------------------------- MODULE SmtMultiStackRec --------------------------
(***************************************************************************)
(* The container of hypotheses of the stack decoder: SmtMultiStackRec with *)
(* its sub-stacks (SmtStack), the map of the non-empty ones, the map from  *)
(* states to the hypotheses that can be recombined, and the dictionary of  *)
(* hypothesis states (src/src/stack_dec/SmtMultiStackRec.h and the files   *)
(* it includes).                                                           *)
(*                                                                         *)
(* A hypothesis is its equivalence class, its state and its score.  A node *)
(* is a hypothesis stored in a sub-stack, and an iterator is the node it   *)
(* points to.  The index that the dictionary gives a state is the state    *)
(* itself.  Of equal scores the code takes the oldest first and the newest *)
(* last; here any may be taken.                                            *)
(***************************************************************************)
EXTENDS Integers, FiniteSets

CONSTANTS
  Hyps,         \* the hypotheses that are pushed
  Ids,          \* names for the nodes that are alive
  StackSizes    \* the maximum sizes that are set (parameter S)

Classes == {h.cls : h \in Hyps}
States  == {h.state : h \in Hyps}
Scores  == {h.score : h \in Hyps}
Nodes   == [id : Ids, hyp : Hyps]

ASSUME StackConstants ==
  /\ \A h \in Hyps : /\ h = [cls |-> h.cls, state |-> h.state, score |-> h.score]
                     /\ h.cls \in Int /\ h.score \in Int
  /\ StackSizes \subseteq Nat

VARIABLES
  maxStackSize,     \* of every sub-stack
  breadthFirst,     \* pop takes from the first sub-stack, not from the best
  multiContainer,   \* the nodes of each class
  sortedStacksMap,  \* the classes whose sub-stack is not empty
  recInfoMap,       \* from states to nodes
  hypStateDict,     \* from states to scores
  ready             \* the container was cleared after its size was last set

stacks == <<multiContainer, sortedStacksMap, recInfoMap, hypStateDict>>
vars == <<maxStackSize, breadthFirst, stacks, ready>>

EmptyMap == [s \in {} |-> 0]
With(f, s, v) == [r \in DOMAIN f \cup {s} |-> IF r = s THEN v ELSE f[r]]
Without(f, s) == [r \in DOMAIN f \ {s} |-> f[r]]

NoNodes == [c \in Classes |-> {}]

Init ==
  /\ maxStackSize \in StackSizes /\ breadthFirst = FALSE
  /\ multiContainer = NoNodes /\ sortedStacksMap = {}
  /\ recInfoMap = EmptyMap /\ hypStateDict = EmptyMap
  /\ ready = TRUE

Live == UNION {multiContainer[c] : c \in Classes}

\* Nodes that can be first and last of a sub-stack.
Tops(S)  == {n \in S : \A m \in S : m.hyp.score <= n.hyp.score}
Lasts(S) == {n \in S : \A m \in S : m.hyp.score >= n.hyp.score}

-----------------------------------------------------------------------------
(* push.                                                                   *)

\* mutant: the dictionary is only written.
WorseThanKnownNever(h) == FALSE

\* A hypothesis of the same state with a higher score was pushed before.
WorseThanKnown(h) ==
  h.state \in DOMAIN hypStateDict /\ hypStateDict[h.state] > h.score

\* mutant: recInfoMap has an entry for each class.
RecKeyOfClass(h) == h.cls

\* recInfoMap has an entry for each state.
RecKey(h) == h.state

\* mutant: the worse hypothesis of the state stays.
RecombinedNone(h) == {}

\* The node that h replaces: SmtStack::remove does nothing with an iterator
\* of another sub-stack.
Recombined(h) ==
  {n \in multiContainer[h.cls] : h.state \in DOMAIN recInfoMap /\ n = recInfoMap[h.state]}

\* SmtStack::pushIter refuses h in a sub-stack whose nodes are S.
Refused(S, h) ==
  \/ maxStackSize = 0
  \/ Cardinality(S) = maxStackSize /\ \A n \in S : n.hyp.score >= h.score

\* mutant: the entry of a pruned node stays.
RecInfoAfterPruneKept(f, n) == f

\* The entry of a node that is pruned because of the size is deleted.
RecInfoAfterPrune(f, n) == Without(f, n.hyp.state)

\* mutant: the sub-stack is pruned one insertion too late.
PrunedByInsertLate(S) == Cardinality(S) > maxStackSize

\* With one more node the sub-stack exceeds its maximum size.
PrunedByInsert(S) == Cardinality(S) + 1 > maxStackSize

\* Inserts h in a sub-stack whose nodes are S and prunes it.
Insert(S, h) ==
  \E i \in Ids \ {n.id : n \in Live} :
    LET node  == [id |-> i, hyp |-> h]
        entry == With(recInfoMap, RecKey(h), node)
    IN \/ /\ ~PrunedByInsert(S)
          /\ multiContainer' = [multiContainer EXCEPT ![h.cls] = S \cup {node}]
          /\ recInfoMap' = entry
       \/ /\ PrunedByInsert(S)
          /\ \E n \in Lasts(S) :
               /\ multiContainer' = [multiContainer EXCEPT ![h.cls] = (S \ {n}) \cup {node}]
               /\ recInfoMap' = RecInfoAfterPrune(entry, n)

\* mutant: a sub-stack that becomes non-empty is not listed again.
NonEmptyAfterPushForgotten(c) == sortedStacksMap

NonEmptyAfterPush(c) == sortedStacksMap \cup {c}

\* The classes of the map when the sub-stack of c is left with nodes S.
NonEmptyWith(c, S) == IF S = {} THEN sortedStacksMap \ {c} ELSE sortedStacksMap

Push(h) ==
  LET rest == multiContainer[h.cls] \ Recombined(h) IN
  /\ ready
  /\ \/ /\ WorseThanKnown(h)
        /\ sortedStacksMap' = NonEmptyWith(h.cls, multiContainer[h.cls])
        /\ UNCHANGED <<multiContainer, recInfoMap, hypStateDict>>
     \/ /\ ~WorseThanKnown(h)
        /\ hypStateDict' = With(hypStateDict, h.state, h.score)
        /\ \/ /\ Refused(rest, h)
              /\ multiContainer' = [multiContainer EXCEPT ![h.cls] = rest]
              /\ sortedStacksMap' = NonEmptyWith(h.cls, rest)
              /\ UNCHANGED recInfoMap
           \/ /\ ~Refused(rest, h)
              /\ Insert(rest, h)
              /\ sortedStacksMap' = NonEmptyAfterPush(h.cls)
  /\ UNCHANGED <<maxStackSize, breadthFirst, ready>>

-----------------------------------------------------------------------------
(* pop, clear and the parameters.                                          *)

\* mutant: pop takes the worst node of the sub-stack.
PopsFromLast(S) == Lasts(S)

PopsFrom(S) == Tops(S)

\* The sub-stack that pop takes a node n from: the first one, or the first
\* of those whose top has the highest score.
PopsStack(firstStack, c, n) ==
  IF firstStack THEN \A d \in sortedStacksMap : c <= d
  ELSE \A d \in sortedStacksMap : \A m \in multiContainer[d] :
         m.hyp.score < n.hyp.score \/ (m.hyp.score = n.hyp.score /\ c <= d)
              \/ (d = c /\ m.hyp.score <= n.hyp.score)

\* Node n of the sub-stack of c is popped.
PopNode(firstStack, c, n) ==
  /\ PopsStack(firstStack, c, n)
  /\ multiContainer' = [multiContainer EXCEPT ![c] = @ \ {n}]
  /\ sortedStacksMap' = NonEmptyWith(c, multiContainer[c] \ {n})
  /\ recInfoMap' = Without(recInfoMap, n.hyp.state)
  /\ UNCHANGED <<maxStackSize, hypStateDict, ready>>

\* The decoder pops only when the map of stacks is not empty.
Pop ==
  /\ ready
  /\ \E c \in sortedStacksMap : \E n \in PopsFrom(multiContainer[c]) :
       PopNode(breadthFirst, c, n)
  /\ UNCHANGED breadthFirst

\* _stackDecoderRec::clear clears the stacks and then the dictionary.
Clear ==
  /\ multiContainer' = NoNodes /\ sortedStacksMap' = {}
  /\ recInfoMap' = EmptyMap /\ hypStateDict' = EmptyMap
  /\ ready' = TRUE
  /\ UNCHANGED <<maxStackSize, breadthFirst>>

\* set_S_par; its callers clear the decoder before they use it again.
SetMaxStackSize(S) ==
  /\ maxStackSize' = S /\ ready' = FALSE
  /\ UNCHANGED <<breadthFirst, stacks>>

SetBf(b) ==
  /\ breadthFirst' = b
  /\ UNCHANGED <<maxStackSize, stacks, ready>>

Next ==
  \/ \E h \in Hyps : Push(h)
  \/ Pop \/ Clear
  \/ \E S \in StackSizes : SetMaxStackSize(S)
  \/ \E b \in BOOLEAN : SetBf(b)

Spec == Init /\ [][Next]_vars

-----------------------------------------------------------------------------
(* Properties.                                                             *)

TypeOK ==
  /\ maxStackSize \in Nat
  /\ breadthFirst \in BOOLEAN
  /\ multiContainer \in [Classes -> SUBSET Nodes]
  /\ sortedStacksMap \subseteq Classes
  /\ DOMAIN recInfoMap \subseteq States /\ recInfoMap \in [DOMAIN recInfoMap -> Nodes]
  /\ DOMAIN hypStateDict \subseteq States
  /\ hypStateDict \in [DOMAIN hypStateDict -> Scores]
  /\ ready \in BOOLEAN

\* The map that pop and empty look at lists exactly the sub-stacks that hold
\* a hypothesis: nothing is lost to the search, and top is never called on
\* an empty sub-stack.
SortedAreNonEmpty == sortedStacksMap = {c \in Classes : multiContainer[c] # {}}

\* No sub-stack exceeds the size set for it, at least since the last clear.
SizeRespected == ready => \A c \in Classes : Cardinality(multiContainer[c]) <= maxStackSize

\* No entry of recInfoMap is a dangling iterator: it points to a node that
\* is still in a sub-stack, and to a hypothesis of its own state.
NoDanglingIterator ==
  \A s \in DOMAIN recInfoMap : recInfoMap[s] \in Live /\ recInfoMap[s].hyp.state = s

\* The dictionary knows every state of the stacks, and no hypothesis of the
\* stacks beats the score it has for its state.
DictDominates ==
  \A n \in Live : /\ n.hyp.state \in DOMAIN hypStateDict
                  /\ n.hyp.score <= hypStateDict[n.hyp.state]

\* All hypotheses of the state are of one class.  With PhrHypEqClassF every
\* state is so; with PhrHypNumcovJumps01EqClassF, which the programs use and
\* which counts jumps, a state that is reached with different numbers of
\* jumps is not.
OneClass(s) == \A g, h \in Hyps : g.state = s /\ h.state = s => g.cls = h.cls

Alone(n) ==
  /\ \A m \in Live : m.hyp.state = n.hyp.state => m = n
  /\ n.hyp.state \in DOMAIN recInfoMap /\ recInfoMap[n.hyp.state] = n

\* Recombination: of a state of one class the stacks hold one hypothesis at
\* most, and it is the one that recInfoMap knows.
Recombines == \A n \in Live : OneClass(n.hyp.state) => Alone(n)

\* Recombination of every state, which pushOnSmtStackIdx comments on
\* ("remove hypothesis with lower score").
OneHypPerState == \A n \in Live : Alone(n)

\* The parts of the invariant that the proofs add: sub-stacks are finite and
\* hold hypotheses of their class.
StacksOfClass ==
  \A c \in Classes : /\ IsFiniteSet(multiContainer[c])
                     /\ \A n \in multiContainer[c] : n.hyp.cls = c

\* What makes each of the safety properties inductive is the others: that
\* remove leaves no dangling iterator needs SizeRespected, for instance.
StackInv ==
  /\ TypeOK /\ StacksOfClass /\ SortedAreNonEmpty /\ SizeRespected
  /\ NoDanglingIterator /\ DictDominates /\ Recombines

\* A push never lowers the best score of the stacks: neither recombination
\* nor pruning removes the best hypothesis for a worse one.
BestKept ==
  [][(\E h \in Hyps : Push(h)) =>
       \A n \in Live : \E m \in Live' : m.hyp.score >= n.hyp.score]_vars

-----------------------------------------------------------------------------
Abstract == INSTANCE Beam WITH
  limit <- maxStackSize, held <- Live, best <- hypStateDict

\* The container implements Beam.
ImplementsBeam == Abstract!BeamSpec
=============================================================================
