---------------------- MODULE SmtMultiStackRec_proofs ----------------------
(***************************************************************************)
(* Proofs about SmtMultiStackRec for any hypotheses and stack sizes: its   *)
(* types, the invariant StackInv with the safety properties it holds, that *)
(* a push keeps the best score, and that the container implements Beam.    *)
(***************************************************************************)
EXTENDS SmtMultiStackRec, FiniteSetTheorems, TLAPS

\* The nodes that compete with h in its sub-stack.
Rest(h) == multiContainer[h.cls] \ Recombined(h)

\* A push of h inserts node ...
Enters(h, node) ==
  /\ node \in Nodes /\ node.hyp = h /\ node.id \notin {m.id : m \in Live}
  /\ sortedStacksMap' = sortedStacksMap \cup {h.cls}
  /\ hypStateDict' = With(hypStateDict, h.state, h.score)

\* ... in a sub-stack with room for it, ...
FindsRoom(h, node) ==
  /\ Enters(h, node) /\ Cardinality(Rest(h)) < maxStackSize
  /\ multiContainer' = [multiContainer EXCEPT ![h.cls] = Rest(h) \cup {node}]
  /\ recInfoMap' = With(recInfoMap, h.state, node)

\* ... or in the place of the last node n.
Replaces(h, node, n) ==
  /\ Enters(h, node) /\ Cardinality(Rest(h)) = maxStackSize
  /\ n \in Lasts(Rest(h)) /\ n.hyp.score < h.score
  /\ multiContainer' = [multiContainer EXCEPT ![h.cls] = (Rest(h) \ {n}) \cup {node}]
  /\ recInfoMap' = Without(With(recInfoMap, h.state, node), n.hyp.state)

\* A push of h changes the dictionary only.
Bounces(h) ==
  /\ Recombined(h) = {} /\ Refused(multiContainer[h.cls], h)
  /\ UNCHANGED <<multiContainer, sortedStacksMap, recInfoMap>>
  /\ hypStateDict' = With(hypStateDict, h.state, h.score)

-----------------------------------------------------------------------------
(* A hypothesis has a class, a state and an integer score. *)
LEMMA HypParts ==
  ASSUME NEW h \in Hyps
  PROVE  h.cls \in Classes /\ h.state \in States /\ h.score \in Scores /\ h.score \in Int
  BY StackConstants DEF Classes, States, Scores

(* The live nodes are those of the sub-stacks. *)
LEMMA LiveNodes ==
  /\ \A n : n \in Live <=> \E c \in Classes : n \in multiContainer[c]
  /\ TypeOK => \A n \in Live : n \in Nodes /\ n.hyp \in Hyps
  /\ StacksOfClass => \A n \in Live : n.hyp.cls \in Classes /\ n \in multiContainer[n.hyp.cls]
  BY DEF Live, TypeOK, Nodes, StacksOfClass

(* What competes with h is finite and within the size of its sub-stack. *)
LEMMA RestBounded ==
  ASSUME StackInv, ready, NEW h \in Hyps
  PROVE  /\ Rest(h) \subseteq multiContainer[h.cls] /\ Rest(h) \subseteq Live
         /\ IsFiniteSet(Rest(h)) /\ Cardinality(Rest(h)) \in Nat
         /\ Cardinality(Rest(h)) <= maxStackSize
         /\ Recombined(h) # {} => Cardinality(Rest(h)) < maxStackSize
  <1> DEFINE S == multiContainer[h.cls]
  <1>1. h.cls \in Classes /\ Rest(h) \subseteq S /\ Rest(h) \subseteq Live
    BY HypParts, LiveNodes DEF Rest
  <1>2. IsFiniteSet(S) /\ Cardinality(S) <= maxStackSize /\ maxStackSize \in Nat
    BY <1>1 DEF StackInv, StacksOfClass, SizeRespected, TypeOK
  <1>3. /\ IsFiniteSet(Rest(h)) /\ Cardinality(Rest(h)) <= Cardinality(S)
        /\ Cardinality(S) = Cardinality(Rest(h)) => S = Rest(h)
    BY <1>1, <1>2, FS_Subset
  <1>4. Cardinality(S) \in Nat /\ Cardinality(Rest(h)) \in Nat
    BY <1>2, <1>3, FS_CardinalityType
  <1>5. Recombined(h) # {} => Rest(h) # S
    BY DEF Recombined, Rest
  <1> QED BY <1>1, <1>2, <1>3, <1>4, <1>5

(* What a push does: nothing, because the state is known with a better      *)
(* score; only an update of the dictionary, and then remove has erased      *)
(* nothing; an insertion; or an insertion and the removal of the last node. *)
LEMMA PushKinds ==
  ASSUME StackInv, NEW h \in Hyps, Push(h)
  PROVE  \/ WorseThanKnown(h) /\ UNCHANGED stacks
         \/ ~WorseThanKnown(h) /\ Bounces(h)
         \/ ~WorseThanKnown(h) /\ \E node \in Nodes : FindsRoom(h, node)
         \/ ~WorseThanKnown(h) /\ \E node, n \in Nodes : Replaces(h, node, n)
  <1> DEFINE S == multiContainer[h.cls]
  <1>0. ready /\ h.cls \in Classes
    BY HypParts DEF Push
  <1>1. /\ Rest(h) \subseteq S /\ Cardinality(Rest(h)) \in Nat /\ maxStackSize \in Nat
        /\ Cardinality(Rest(h)) <= maxStackSize
        /\ Recombined(h) # {} => Cardinality(Rest(h)) < maxStackSize
    BY <1>0, RestBounded DEF StackInv, TypeOK
  <1>2. CASE WorseThanKnown(h)
    <2>1. sortedStacksMap' = sortedStacksMap
      BY <1>0, <1>2 DEF Push, NonEmptyWith, StackInv, SortedAreNonEmpty
    <2> QED BY <1>2, <2>1 DEF Push, stacks
  <1>3. CASE ~WorseThanKnown(h) /\ Refused(Rest(h), h)
    <2>1. Recombined(h) = {}
      BY <1>1, <1>3 DEF Refused
    <2>2. Rest(h) = S
      BY <2>1 DEF Rest
    <2>3. /\ multiContainer' = [multiContainer EXCEPT ![h.cls] = S]
          /\ sortedStacksMap' = NonEmptyWith(h.cls, S)
          /\ recInfoMap' = recInfoMap
          /\ hypStateDict' = With(hypStateDict, h.state, h.score)
      BY <1>3, <2>2 DEF Push, Rest, Insert
    <2>4. multiContainer' = multiContainer /\ sortedStacksMap' = sortedStacksMap
      BY <1>0, <2>3 DEF NonEmptyWith, StackInv, SortedAreNonEmpty, TypeOK
    <2> QED BY <1>3, <2>1, <2>2, <2>3, <2>4 DEF Bounces
  <1>4. CASE ~WorseThanKnown(h) /\ ~Refused(Rest(h), h)
    <2>1. /\ hypStateDict' = With(hypStateDict, h.state, h.score)
          /\ Insert(Rest(h), h) /\ sortedStacksMap' = sortedStacksMap \cup {h.cls}
      BY <1>4 DEF Push, Rest, NonEmptyAfterPush
    <2>2. PICK i \in Ids \ {n.id : n \in Live} :
            LET node == [id |-> i, hyp |-> h]
                entry == With(recInfoMap, h.state, node)
            IN \/ /\ ~PrunedByInsert(Rest(h))
                  /\ multiContainer' = [multiContainer EXCEPT ![h.cls] = Rest(h) \cup {node}]
                  /\ recInfoMap' = entry
               \/ /\ PrunedByInsert(Rest(h))
                  /\ \E n \in Lasts(Rest(h)) :
                       /\ multiContainer' = [multiContainer EXCEPT
                                               ![h.cls] = (Rest(h) \ {n}) \cup {node}]
                       /\ recInfoMap' = Without(entry, n.hyp.state)
      BY <2>1 DEF Insert, RecKey, RecInfoAfterPrune
    <2> DEFINE node == [id |-> i, hyp |-> h]
    <2>3. node \in Nodes /\ Enters(h, node)
      BY <2>1 DEF Enters, Nodes
    <2>4. CASE ~PrunedByInsert(Rest(h))
      <3>1. FindsRoom(h, node)
        BY <1>1, <2>2, <2>3, <2>4 DEF FindsRoom, PrunedByInsert
      <3> QED BY <1>4, <2>3, <3>1
    <2>5. CASE PrunedByInsert(Rest(h))
      <3>1. PICK n \in Lasts(Rest(h)) :
              /\ multiContainer' = [multiContainer EXCEPT ![h.cls] = (Rest(h) \ {n}) \cup {node}]
              /\ recInfoMap' = Without(With(recInfoMap, h.state, node), n.hyp.state)
        BY <2>2, <2>5
      <3>2. Cardinality(Rest(h)) = maxStackSize
        BY <1>1, <2>5 DEF PrunedByInsert
      <3>3. Rest(h) \subseteq Nodes /\ n \in Nodes /\ n.hyp \in Hyps
        BY <1>0, <1>1 DEF StackInv, TypeOK, Lasts, Nodes
      <3>4. PICK m \in Rest(h) : ~(m.hyp.score >= h.score)
        BY <1>4, <3>2 DEF Refused
      <3>5. n.hyp.score \in Int /\ m.hyp.score \in Int /\ h.score \in Int
        BY <3>3, HypParts DEF Nodes
      <3>6. n.hyp.score <= m.hyp.score
        BY <3>5 DEF Lasts
      <3>7. Replaces(h, node, n)
        BY <2>3, <3>1, <3>2, <3>4, <3>5, <3>6 DEF Replaces
      <3> QED BY <1>4, <2>3, <3>3, <3>7
    <2> QED BY <2>4, <2>5
  <1> QED BY <1>2, <1>3, <1>4

(* The nodes that a pop takes are in a sub-stack and known to the decoder. *)
LEMMA PopTakes ==
  ASSUME StackInv, Pop
  PROVE  \E c \in Classes : \E n \in multiContainer[c] :
           /\ n \in Nodes /\ n.hyp \in Hyps /\ n \in Tops(multiContainer[c])
           /\ c \in sortedStacksMap /\ PopsStack(breadthFirst, c, n)
           /\ multiContainer' = [multiContainer EXCEPT ![c] = @ \ {n}]
           /\ sortedStacksMap' = NonEmptyWith(c, multiContainer[c] \ {n})
           /\ recInfoMap' = Without(recInfoMap, n.hyp.state)
           /\ UNCHANGED hypStateDict
  <1>1. PICK c \in sortedStacksMap : \E n \in PopsFrom(multiContainer[c]) :
          /\ PopsStack(breadthFirst, c, n)
          /\ multiContainer' = [multiContainer EXCEPT ![c] = @ \ {n}]
          /\ sortedStacksMap' = NonEmptyWith(c, multiContainer[c] \ {n})
          /\ recInfoMap' = Without(recInfoMap, n.hyp.state)
    BY DEF Pop, PopNode
  <1>2. c \in Classes /\ multiContainer[c] \subseteq Nodes
    BY <1>1 DEF StackInv, TypeOK
  <1> QED BY <1>1, <1>2 DEF PopsFrom, Tops, Nodes, Pop, PopNode

(* Maps from states keep their types when an entry is set or erased. *)
LEMMA MapTypes ==
  ASSUME NEW A, NEW B, NEW f, DOMAIN f \subseteq A, f \in [DOMAIN f -> B],
         NEW s \in A, NEW v \in B
  PROVE  /\ DOMAIN With(f, s, v) \subseteq A
         /\ With(f, s, v) \in [DOMAIN With(f, s, v) -> B]
         /\ DOMAIN Without(f, s) \subseteq A
         /\ Without(f, s) \in [DOMAIN Without(f, s) -> B]
  BY DEF With, Without

(* After a push that is inserted, a node is the new one or was there before,
   in its class and not the one that was replaced. *)
LEMMA LiveAfterInsert ==
  ASSUME StackInv, NEW h \in Hyps, NEW node \in Nodes, ready,
         \/ FindsRoom(h, node)
         \/ \E n \in Nodes : Replaces(h, node, n)
  PROVE  /\ node \in Live' /\ node \notin Live
         /\ \A m \in Live' : m = node \/ (m \in Live /\ m \notin Recombined(h))
         /\ \A n \in Nodes : Replaces(h, node, n) =>
              /\ n \in Rest(h) /\ n \notin Live'
              /\ \A m \in Live : m \in Live' \/ m = n \/ m \in Recombined(h)
         /\ FindsRoom(h, node) => \A m \in Live : m \in Live' \/ m \in Recombined(h)
  <1>1. h.cls \in Classes /\ Rest(h) \subseteq multiContainer[h.cls]
    BY HypParts, RestBounded
  <1>2. multiContainer \in [Classes -> SUBSET Nodes] /\ StacksOfClass
    BY DEF StackInv, TypeOK
  <1>3. Recombined(h) \subseteq multiContainer[h.cls]
    BY DEF Recombined
  <1>4. /\ node \notin Live /\ node.hyp = h
        /\ \A c \in Classes : c # h.cls => multiContainer'[c] = multiContainer[c]
        /\ node \in multiContainer'[h.cls]
        /\ multiContainer'[h.cls] \subseteq Rest(h) \cup {node}
    BY <1>1, <1>2 DEF FindsRoom, Replaces, Enters
  <1>5. \A n : n \in Live' <=> \E c \in Classes : n \in multiContainer'[c]
    BY DEF Live
  <1>6. \A m \in Live' : m = node \/ (m \in Live /\ m \notin Recombined(h))
    <2> SUFFICES ASSUME NEW m \in Live', m # node
                 PROVE  m \in Live /\ m \notin Recombined(h)
      OBVIOUS
    <2>1. PICK c \in Classes : m \in multiContainer'[c]
      BY <1>5
    <2>2. CASE c = h.cls
      BY <1>1, <1>4, <2>1, <2>2, LiveNodes DEF Rest
    <2>3. CASE c # h.cls
      <3>1. m \in multiContainer[c] /\ m.hyp.cls = c
        BY <1>2, <1>4, <2>1, <2>3 DEF StacksOfClass
      <3>2. m \notin multiContainer[h.cls]
        BY <1>1, <1>2, <2>3, <3>1 DEF StacksOfClass
      <3> QED BY <1>3, <3>1, <3>2, LiveNodes
    <2> QED BY <2>2, <2>3
  <1>7. ASSUME NEW n \in Nodes, Replaces(h, node, n)
        PROVE  /\ n \in Rest(h) /\ n \notin Live'
               /\ \A m \in Live : m \in Live' \/ m = n \/ m \in Recombined(h)
    <2>1. n \in Rest(h) /\ n \in Live /\ n # node /\ n.hyp.cls = h.cls
      BY <1>1, <1>2, <1>4, <1>7, LiveNodes DEF Replaces, Lasts, StacksOfClass
    <2>2. multiContainer'[h.cls] = (Rest(h) \ {n}) \cup {node}
      BY <1>1, <1>2, <1>7 DEF Replaces
    <2>3. n \notin Live'
      BY <1>1, <1>2, <1>4, <1>5, <2>1, <2>2 DEF StacksOfClass
    <2>4. \A m \in Live : m \in Live' \/ m = n \/ m \in Recombined(h)
      BY <1>1, <1>4, <1>5, <2>2, LiveNodes DEF Rest
    <2> QED BY <2>1, <2>3, <2>4
  <1>8. ASSUME FindsRoom(h, node)
        PROVE  \A m \in Live : m \in Live' \/ m \in Recombined(h)
    <2>1. multiContainer'[h.cls] = Rest(h) \cup {node}
      BY <1>1, <1>2, <1>8 DEF FindsRoom
    <2> QED BY <1>1, <1>4, <1>5, <2>1, LiveNodes DEF Rest
  <1> QED BY <1>1, <1>4, <1>5, <1>6, <1>7, <1>8

(* After a pop of n the nodes are the others. *)
LEMMA LiveAfterPop ==
  ASSUME StackInv, NEW c \in Classes, NEW n \in multiContainer[c],
         multiContainer' = [multiContainer EXCEPT ![c] = @ \ {n}]
  PROVE  Live' = Live \ {n}
  <1>1. multiContainer \in [Classes -> SUBSET Nodes] /\ StacksOfClass
    BY DEF StackInv, TypeOK
  <1>2. n.hyp.cls = c
    BY <1>1 DEF StacksOfClass
  <1>3. \A m : m \in Live' <=> \E d \in Classes : m \in multiContainer'[d]
    BY DEF Live
  <1>4. \A d \in Classes : n \notin multiContainer'[d]
    BY <1>1, <1>2 DEF StacksOfClass
  <1>5. \A d \in Classes : \A m : m # n => (m \in multiContainer'[d] <=> m \in multiContainer[d])
    BY <1>1
  <1> QED BY <1>3, <1>4, <1>5, LiveNodes

-----------------------------------------------------------------------------
(* Sub-stacks keep their type and class, the map of stacks lists those that
   are not empty, and their size stays in bounds: a push. *)
LEMMA PushStacks ==
  ASSUME StackInv, NEW h \in Hyps, Push(h)
  PROVE  TypeOK' /\ StacksOfClass' /\ SortedAreNonEmpty' /\ SizeRespected'
  <1>0. /\ ready /\ UNCHANGED <<maxStackSize, breadthFirst, ready>>
        /\ h.cls \in Classes /\ h.state \in States /\ h.score \in Scores
    BY HypParts DEF Push
  <1>1. TypeOK /\ StacksOfClass /\ SortedAreNonEmpty /\ SizeRespected
    BY DEF StackInv
  <1>2. ASSUME UNCHANGED <<multiContainer, sortedStacksMap>>
        PROVE  StacksOfClass' /\ SortedAreNonEmpty' /\ SizeRespected'
    BY <1>0, <1>1, <1>2 DEF StacksOfClass, SortedAreNonEmpty, SizeRespected
  <1>3. /\ DOMAIN With(hypStateDict, h.state, h.score) \subseteq States
        /\ With(hypStateDict, h.state, h.score)
             \in [DOMAIN With(hypStateDict, h.state, h.score) -> Scores]
    BY <1>0, <1>1 DEF TypeOK, With
  <1>4. CASE UNCHANGED stacks
    BY <1>0, <1>1, <1>2, <1>4 DEF TypeOK, stacks
  <1>5. CASE Bounces(h)
    BY <1>0, <1>1, <1>2, <1>3, <1>5 DEF TypeOK, Bounces
  <1>6. ASSUME NEW node \in Nodes, NEW T, T \subseteq Rest(h), Enters(h, node),
               Cardinality(T) < maxStackSize,
               multiContainer' = [multiContainer EXCEPT ![h.cls] = T \cup {node}],
               /\ DOMAIN recInfoMap' \subseteq States
               /\ recInfoMap' \in [DOMAIN recInfoMap' -> Nodes]
        PROVE  TypeOK' /\ StacksOfClass' /\ SortedAreNonEmpty' /\ SizeRespected'
    <2>1. /\ T \subseteq multiContainer[h.cls] /\ IsFiniteSet(T)
          /\ T \subseteq Nodes /\ \A n \in T : n.hyp.cls = h.cls
      BY <1>0, <1>1, <1>6, RestBounded, FS_Subset DEF TypeOK, StacksOfClass
    <2>2. IsFiniteSet(T \cup {node}) /\ Cardinality(T \cup {node}) <= maxStackSize
      <3>1. /\ IsFiniteSet(T \cup {node}) /\ Cardinality(T) \in Nat
            /\ Cardinality(T \cup {node}) =
                 IF node \in T THEN Cardinality(T) ELSE Cardinality(T) + 1
        BY <2>1, FS_AddElement, FS_CardinalityType
      <3>2. maxStackSize \in Nat
        BY <1>0, <1>1 DEF TypeOK
      <3> QED BY <1>6, <3>1, <3>2
    <2>3. /\ node.hyp = h /\ multiContainer'[h.cls] = T \cup {node}
          /\ \A c \in Classes : c # h.cls => multiContainer'[c] = multiContainer[c]
      BY <1>0, <1>1, <1>6 DEF TypeOK, Enters
    <2>4. TypeOK'
      BY <1>0, <1>1, <1>3, <1>6, <2>1 DEF TypeOK, Enters
    <2>5. StacksOfClass'
      BY <1>1, <2>1, <2>2, <2>3 DEF StacksOfClass
    <2>6. SortedAreNonEmpty'
      BY <1>0, <1>1, <1>6, <2>3 DEF SortedAreNonEmpty, Enters
    <2>7. SizeRespected'
      BY <1>0, <1>1, <2>2, <2>3 DEF SizeRespected
    <2> QED BY <2>4, <2>5, <2>6, <2>7
  <1>7. ASSUME NEW node \in Nodes
        PROVE  LET f == With(recInfoMap, h.state, node) IN
               /\ DOMAIN f \subseteq States /\ f \in [DOMAIN f -> Nodes]
    BY ZenonT(60), <1>0, <1>1, MapTypes DEF TypeOK
  <1>8. ASSUME NEW node \in Nodes, FindsRoom(h, node)
        PROVE  TypeOK' /\ StacksOfClass' /\ SortedAreNonEmpty' /\ SizeRespected'
    BY <1>6, <1>7, <1>8 DEF FindsRoom
  <1>9. ASSUME NEW node \in Nodes, NEW n \in Nodes, Replaces(h, node, n)
        PROVE  TypeOK' /\ StacksOfClass' /\ SortedAreNonEmpty' /\ SizeRespected'
    <2>1. n \in Rest(h) /\ n.hyp.state \in States
      BY <1>9, HypParts DEF Replaces, Lasts, Nodes
    <2>2. /\ IsFiniteSet(Rest(h)) /\ Cardinality(Rest(h)) = maxStackSize
          /\ Cardinality(Rest(h)) \in Nat
      BY <1>0, <1>9, RestBounded DEF Replaces
    <2>3. Cardinality(Rest(h) \ {n}) < maxStackSize
      <3>1. Cardinality(Rest(h) \ {n}) = Cardinality(Rest(h)) - 1
        BY <2>1, <2>2, FS_RemoveElement
      <3> QED BY <2>2, <3>1
    <2>4. /\ DOMAIN recInfoMap' \subseteq States
          /\ recInfoMap' \in [DOMAIN recInfoMap' -> Nodes]
      BY ZenonT(60), <1>7, <1>9, <2>1, MapTypes DEF Replaces
    <2> QED BY <1>6, <1>9, <2>3, <2>4 DEF Replaces
  <1> QED BY <1>4, <1>5, <1>8, <1>9, PushKinds

(* The same of a pop. *)
LEMMA PopStacks ==
  ASSUME StackInv, Pop
  PROVE  TypeOK' /\ StacksOfClass' /\ SortedAreNonEmpty' /\ SizeRespected'
  <1>0. /\ TypeOK /\ StacksOfClass /\ SortedAreNonEmpty /\ SizeRespected
        /\ ready /\ UNCHANGED <<maxStackSize, breadthFirst, ready>>
    BY DEF StackInv, Pop, PopNode
  <1>1. PICK c \in Classes : \E n \in multiContainer[c] :
          /\ n \in Nodes /\ n.hyp \in Hyps
          /\ multiContainer' = [multiContainer EXCEPT ![c] = @ \ {n}]
          /\ sortedStacksMap' = NonEmptyWith(c, multiContainer[c] \ {n})
          /\ recInfoMap' = Without(recInfoMap, n.hyp.state)
          /\ UNCHANGED hypStateDict
    BY PopTakes
  <1>1a. PICK n \in multiContainer[c] :
          /\ n \in Nodes /\ n.hyp \in Hyps
          /\ multiContainer' = [multiContainer EXCEPT ![c] = @ \ {n}]
          /\ sortedStacksMap' = NonEmptyWith(c, multiContainer[c] \ {n})
          /\ recInfoMap' = Without(recInfoMap, n.hyp.state)
          /\ UNCHANGED hypStateDict
    BY <1>1
  <1>2. /\ multiContainer'[c] = multiContainer[c] \ {n}
        /\ \A d \in Classes : d # c => multiContainer'[d] = multiContainer[d]
    BY <1>0, <1>1a DEF TypeOK
  <1>3. IsFiniteSet(multiContainer[c] \ {n}) /\ Cardinality(multiContainer[c] \ {n}) <= maxStackSize
    <2>1. IsFiniteSet(multiContainer[c]) /\ Cardinality(multiContainer[c]) <= maxStackSize
      BY <1>0 DEF StacksOfClass, SizeRespected
    <2>2. /\ IsFiniteSet(multiContainer[c] \ {n}) /\ Cardinality(multiContainer[c]) \in Nat
          /\ Cardinality(multiContainer[c] \ {n}) = Cardinality(multiContainer[c]) - 1
      BY <1>1a, <2>1, FS_RemoveElement, FS_CardinalityType
    <2> QED BY <1>0, <2>1, <2>2 DEF TypeOK
  <1>4. TypeOK'
    <2>1. /\ DOMAIN recInfoMap' \subseteq States /\ recInfoMap' \in [DOMAIN recInfoMap' -> Nodes]
      BY <1>0, <1>1a DEF TypeOK, Without
    <2> QED BY <1>0, <1>1a, <2>1 DEF TypeOK, NonEmptyWith
  <1>5. StacksOfClass'
    BY <1>0, <1>2, <1>3 DEF StacksOfClass
  <1>6. SortedAreNonEmpty'
    BY <1>0, <1>1a, <1>2 DEF SortedAreNonEmpty, NonEmptyWith
  <1>7. SizeRespected'
    BY <1>0, <1>2, <1>3 DEF SizeRespected
  <1> QED BY <1>4, <1>5, <1>6, <1>7

-----------------------------------------------------------------------------
(* recInfoMap never dangles, the dictionary knows the best scores, and a
   state of one class has one hypothesis: a push. *)
LEMMA PushIndexes ==
  ASSUME StackInv, NEW h \in Hyps, Push(h)
  PROVE  NoDanglingIterator' /\ DictDominates' /\ Recombines'
  <1>0. /\ ready /\ TypeOK /\ NoDanglingIterator /\ DictDominates /\ Recombines
        /\ StacksOfClass
    BY DEF Push, StackInv
  <1>1. CASE WorseThanKnown(h) /\ UNCHANGED stacks
    BY <1>0, <1>1 DEF stacks, NoDanglingIterator, DictDominates, Recombines, Alone, Live
  <1>2. ASSUME ~WorseThanKnown(h), hypStateDict' = With(hypStateDict, h.state, h.score),
               \A m \in Live' : m.hyp = h \/ m \in Live
        PROVE  DictDominates'
    <2> SUFFICES ASSUME NEW m \in Live'
                 PROVE  /\ m.hyp.state \in DOMAIN hypStateDict'
                        /\ m.hyp.score <= hypStateDict'[m.hyp.state]
      BY DEF DictDominates
    <2>1. /\ h.score \in Int
          /\ h.state \in DOMAIN hypStateDict => /\ hypStateDict[h.state] \in Int
                                                /\ hypStateDict[h.state] <= h.score
      BY <1>0, <1>2, HypParts, StackConstants DEF TypeOK, WorseThanKnown, Scores
    <2>2. CASE m.hyp = h
      BY <1>2, <2>1, <2>2 DEF With
    <2>3. CASE m \in Live
      <3>1. /\ m.hyp.state \in DOMAIN hypStateDict
            /\ m.hyp.score <= hypStateDict[m.hyp.state]
            /\ m.hyp.score \in Int
        BY <1>0, <2>3, LiveNodes, HypParts DEF DictDominates
      <3> QED BY <1>2, <2>1, <3>1 DEF With
    <2> QED BY <1>2, <2>2, <2>3
  <1>3. CASE ~WorseThanKnown(h) /\ Bounces(h)
    <2>1. Live' = Live /\ recInfoMap' = recInfoMap
      BY <1>3 DEF Bounces, Live
    <2>2. DictDominates'
      BY <1>2, <1>3, <2>1 DEF Bounces
    <2> QED BY <1>0, <2>1, <2>2 DEF NoDanglingIterator, Recombines, Alone
  <1>4. ASSUME NEW node \in Nodes, NEW gone, ~WorseThanKnown(h), Enters(h, node),
               node \in Live',
               \A m \in Live' : m = node \/ (m \in Live /\ m \notin Recombined(h) /\ m \notin gone),
               \A m \in Live : m \in Live' \/ m \in gone \/ m \in Recombined(h),
               gone \subseteq Rest(h),
               /\ DOMAIN recInfoMap' = {s \in DOMAIN recInfoMap \cup {h.state} :
                                         \A n \in gone : n.hyp.state # s}
               /\ \A s \in DOMAIN recInfoMap' :
                    recInfoMap'[s] = IF s = h.state THEN node ELSE recInfoMap[s]
        PROVE  NoDanglingIterator' /\ DictDominates' /\ Recombines'
    <2>1. node.hyp = h
      BY <1>4 DEF Enters
    <2>2. \A m \in Recombined(h) : m.hyp.state = h.state
      BY <1>0 DEF Recombined, NoDanglingIterator
    <2>3. NoDanglingIterator'
      <3> SUFFICES ASSUME NEW s \in DOMAIN recInfoMap'
                   PROVE  recInfoMap'[s] \in Live' /\ recInfoMap'[s].hyp.state = s
        BY DEF NoDanglingIterator
      <3>1. CASE s = h.state
        BY <1>4, <2>1, <3>1
      <3>2. CASE s # h.state
        <4>1. /\ s \in DOMAIN recInfoMap /\ recInfoMap'[s] = recInfoMap[s]
              /\ recInfoMap[s] \in Live /\ recInfoMap[s].hyp.state = s
          BY <1>0, <1>4, <3>2 DEF NoDanglingIterator
        <4>2. recInfoMap[s] \notin gone
          BY <1>4, <4>1
        <4> QED BY <1>4, <2>2, <3>2, <4>1, <4>2
      <3> QED BY <3>1, <3>2
    <2>4. DictDominates'
      BY <1>2, <1>4, <2>1 DEF Enters
    <2>5. Recombines'
      <3> SUFFICES ASSUME NEW m \in Live', OneClass(m.hyp.state)
                   PROVE  /\ \A k \in Live' : k.hyp.state = m.hyp.state => k = m
                          /\ m.hyp.state \in DOMAIN recInfoMap'
                          /\ recInfoMap'[m.hyp.state] = m
        BY DEF Recombines, Alone, OneClass
      <3>1. ASSUME NEW k \in Live, k.hyp.state = h.state, OneClass(h.state)
            PROVE  k \in Recombined(h)
        <4>1. k.hyp \in Hyps /\ k \in multiContainer[k.hyp.cls]
          BY <1>0, LiveNodes
        <4>2. k.hyp.cls = h.cls
          BY <3>1, <4>1 DEF OneClass
        <4>3. h.state \in DOMAIN recInfoMap /\ recInfoMap[h.state] = k
          BY <1>0, <3>1 DEF Recombines, Alone
        <4> QED BY <4>1, <4>2, <4>3 DEF Recombined
      <3>2. CASE m = node
        <4>1. \A k \in Live' : k.hyp.state = h.state => k = node
          BY <1>4, <2>1, <3>1, <3>2
        <4>2. \A n \in gone : n.hyp.state # h.state
          <5>1. \A n \in gone : n \in Live /\ n \notin Recombined(h)
            BY <1>0, <1>4, RestBounded DEF Rest
          <5> QED BY <2>1, <3>1, <3>2, <5>1
        <4> QED BY <1>4, <2>1, <3>2, <4>1, <4>2
      <3>3. CASE m # node
        <4>1. m \in Live /\ m \notin Recombined(h) /\ m \notin gone
          BY <1>4, <3>3
        <4>2. m.hyp.state # h.state
          BY <3>1, <4>1
        <4>3. /\ \A k \in Live : k.hyp.state = m.hyp.state => k = m
              /\ m.hyp.state \in DOMAIN recInfoMap /\ recInfoMap[m.hyp.state] = m
          BY <1>0, <4>1 DEF Recombines, Alone
        <4>4. \A n \in gone : n.hyp.state # m.hyp.state
          BY <1>0, <1>4, <4>1, <4>3, RestBounded
        <4>5. m.hyp.state \in DOMAIN recInfoMap' /\ recInfoMap'[m.hyp.state] = m
          BY <1>4, <4>2, <4>3, <4>4
        <4> QED BY <1>4, <2>1, <4>2, <4>3, <4>5
      <3> QED BY <3>2, <3>3
    <2> QED BY <2>3, <2>4, <2>5
  <1>5. ASSUME NEW node \in Nodes, ~WorseThanKnown(h), FindsRoom(h, node)
        PROVE  NoDanglingIterator' /\ DictDominates' /\ Recombines'
    <2>1. /\ node \in Live' /\ \A m \in Live' : m = node \/ (m \in Live /\ m \notin Recombined(h))
          /\ \A m \in Live : m \in Live' \/ m \in Recombined(h)
      BY <1>0, <1>5, LiveAfterInsert
    <2>2. /\ DOMAIN recInfoMap' = DOMAIN recInfoMap \cup {h.state}
          /\ \A s \in DOMAIN recInfoMap' :
               recInfoMap'[s] = IF s = h.state THEN node ELSE recInfoMap[s]
      BY <1>5 DEF FindsRoom, With
    <2>3. Enters(h, node)
      BY <1>5 DEF FindsRoom
    <2> DEFINE none == {}
    <2>4. /\ \A m \in Live' : m = node \/ (m \in Live /\ m \notin Recombined(h) /\ m \notin none)
          /\ \A m \in Live : m \in Live' \/ m \in none \/ m \in Recombined(h)
          /\ none \subseteq Rest(h)
          /\ DOMAIN recInfoMap' = {s \in DOMAIN recInfoMap \cup {h.state} :
                                    \A k \in none : k.hyp.state # s}
      BY <2>1, <2>2
    <2> HIDE DEF none
    <2> QED BY <1>4, <1>5, <2>1, <2>2, <2>3, <2>4
  <1>6. ASSUME NEW node \in Nodes, NEW n \in Nodes, ~WorseThanKnown(h), Replaces(h, node, n)
        PROVE  NoDanglingIterator' /\ DictDominates' /\ Recombines'
    <2>1. /\ node \in Live' /\ n \in Rest(h) /\ n \notin Live'
          /\ \A m \in Live' : m = node \/ (m \in Live /\ m \notin Recombined(h))
          /\ \A m \in Live : m \in Live' \/ m = n \/ m \in Recombined(h)
      BY <1>0, <1>6, LiveAfterInsert
    <2>2. /\ DOMAIN recInfoMap' = (DOMAIN recInfoMap \cup {h.state}) \ {n.hyp.state}
          /\ \A s \in DOMAIN recInfoMap' :
               recInfoMap'[s] = IF s = h.state THEN node ELSE recInfoMap[s]
      BY <1>6 DEF Replaces, With, Without
    <2>3. /\ Enters(h, node) /\ {n} \subseteq Rest(h)
          /\ DOMAIN recInfoMap' = {s \in DOMAIN recInfoMap \cup {h.state} :
                                    \A k \in {n} : k.hyp.state # s}
      BY <1>6, <2>1, <2>2 DEF Replaces
    <2>4. \A m \in Live' : m = node \/ (m \in Live /\ m \notin Recombined(h) /\ m \notin {n})
      BY <2>1
    <2>5. \A m \in Live : m \in Live' \/ m \in {n} \/ m \in Recombined(h)
      BY <2>1
    <2> QED BY <1>4, <1>6, <2>1, <2>2, <2>3, <2>4, <2>5
  <1> QED BY <1>1, <1>3, <1>5, <1>6, PushKinds

(* The same of a pop. *)
LEMMA PopIndexes ==
  ASSUME StackInv, Pop
  PROVE  NoDanglingIterator' /\ DictDominates' /\ Recombines'
  <1>0. NoDanglingIterator /\ DictDominates /\ Recombines /\ UNCHANGED hypStateDict
    BY DEF StackInv, Pop, PopNode
  <1>1. PICK c \in Classes : \E n \in multiContainer[c] :
          /\ multiContainer' = [multiContainer EXCEPT ![c] = @ \ {n}]
          /\ recInfoMap' = Without(recInfoMap, n.hyp.state)
    BY PopTakes
  <1>1a. PICK n \in multiContainer[c] :
          /\ multiContainer' = [multiContainer EXCEPT ![c] = @ \ {n}]
          /\ recInfoMap' = Without(recInfoMap, n.hyp.state)
    BY <1>1
  <1>2. Live' = Live \ {n} /\ n \in Live
    BY <1>1a, LiveAfterPop, LiveNodes
  <1>3. /\ DOMAIN recInfoMap' = DOMAIN recInfoMap \ {n.hyp.state}
        /\ \A s \in DOMAIN recInfoMap' : recInfoMap'[s] = recInfoMap[s]
    BY <1>1a DEF Without
  <1>4. NoDanglingIterator'
    BY <1>0, <1>2, <1>3 DEF NoDanglingIterator
  <1>5. DictDominates'
    BY <1>0, <1>2 DEF DictDominates
  <1>6. Recombines'
    BY <1>0, <1>2, <1>3 DEF Recombines, Alone, OneClass
  <1> QED BY <1>4, <1>5, <1>6

-----------------------------------------------------------------------------
(* The invariant holds initially. *)
LEMMA StackInvInit ==
  ASSUME Init
  PROVE  StackInv
  <1>1. maxStackSize \in Nat /\ \A c \in Classes : multiContainer[c] = {}
    BY StackConstants DEF Init, NoNodes
  <1>2. Live = {} /\ DOMAIN recInfoMap = {} /\ DOMAIN hypStateDict = {}
    BY <1>1 DEF Live, Init, EmptyMap
  <1>3. TypeOK
    BY <1>1, <1>2 DEF Init, TypeOK, NoNodes, EmptyMap
  <1>4. StacksOfClass /\ SortedAreNonEmpty /\ SizeRespected
    BY <1>1, FS_EmptySet DEF Init, StacksOfClass, SortedAreNonEmpty, SizeRespected
  <1>5. NoDanglingIterator /\ DictDominates /\ Recombines
    BY <1>2 DEF NoDanglingIterator, DictDominates, Recombines
  <1> QED BY <1>3, <1>4, <1>5 DEF StackInv

(* Clearing empties all indexes at once. *)
LEMMA ClearInv ==
  ASSUME StackInv, Clear
  PROVE  StackInv'
  <1>1. /\ maxStackSize' \in Nat /\ breadthFirst' \in BOOLEAN
        /\ \A c \in Classes : multiContainer'[c] = {}
    BY DEF StackInv, TypeOK, Clear, NoNodes
  <1>2. Live' = {} /\ DOMAIN recInfoMap' = {} /\ DOMAIN hypStateDict' = {}
    BY <1>1 DEF Live, Clear, EmptyMap
  <1>3. TypeOK'
    BY <1>1, <1>2 DEF Clear, TypeOK, NoNodes, EmptyMap
  <1>4. StacksOfClass' /\ SortedAreNonEmpty' /\ SizeRespected'
    BY <1>1, FS_EmptySet DEF Clear, StacksOfClass, SortedAreNonEmpty, SizeRespected
  <1>5. NoDanglingIterator' /\ DictDominates' /\ Recombines'
    BY <1>2 DEF NoDanglingIterator, DictDominates, Recombines
  <1> QED BY <1>3, <1>4, <1>5 DEF StackInv

(* Steps that leave the stacks alone; the size may change when no push or pop
   can follow before a clear. *)
LEMMA ParameterInv ==
  ASSUME StackInv, UNCHANGED stacks, maxStackSize' \in Nat,
         breadthFirst' \in BOOLEAN, ready' \in BOOLEAN,
         ready' => ready /\ maxStackSize' = maxStackSize
  PROVE  StackInv'
  <1>1. Live' = Live
    BY DEF stacks, Live
  <1>2. TypeOK' /\ StacksOfClass' /\ SortedAreNonEmpty' /\ SizeRespected'
    BY DEF StackInv, stacks, TypeOK, StacksOfClass, SortedAreNonEmpty, SizeRespected
  <1>3. NoDanglingIterator' /\ DictDominates' /\ Recombines'
    BY <1>1 DEF StackInv, stacks, NoDanglingIterator, DictDominates, Recombines, Alone
  <1> QED BY <1>2, <1>3 DEF StackInv

(* The invariant is inductive. *)
LEMMA StackInvStep ==
  ASSUME StackInv, [Next]_vars
  PROVE  StackInv'
  <1>0. TypeOK
    BY DEF StackInv
  <1>1. ASSUME NEW h \in Hyps, Push(h)
        PROVE  StackInv'
    BY <1>1, PushStacks, PushIndexes DEF StackInv
  <1>2. CASE Pop
    BY <1>2, PopStacks, PopIndexes DEF StackInv
  <1>3. CASE Clear
    BY <1>3, ClearInv
  <1>4. ASSUME NEW S \in StackSizes, SetMaxStackSize(S)
        PROVE  StackInv'
    <2>1. maxStackSize' \in Nat /\ UNCHANGED <<breadthFirst, stacks>> /\ ready' = FALSE
      BY <1>4, StackConstants DEF SetMaxStackSize
    <2> QED BY <1>0, <2>1, ParameterInv DEF TypeOK
  <1>5. ASSUME NEW b \in BOOLEAN, SetBf(b)
        PROVE  StackInv'
    BY <1>0, <1>5, ParameterInv DEF SetBf, TypeOK
  <1>6. CASE UNCHANGED vars
    BY <1>0, <1>6, ParameterInv DEF vars, TypeOK
  <1> QED BY <1>1, <1>2, <1>3, <1>4, <1>5, <1>6 DEF Next

(* The invariant, with the safety properties that are its parts, holds for
   any hypotheses, states, classes and sizes. *)
THEOREM StackInvariance == Spec => []StackInv
  <1>1. Init => StackInv
    BY StackInvInit
  <1>2. StackInv /\ [Next]_vars => StackInv'
    BY StackInvStep
  <1> QED BY <1>1, <1>2, PTL DEF Spec

(* Variables keep their types. *)
THEOREM StackTypes == Spec => []TypeOK
  <1>1. StackInv => TypeOK
    BY DEF StackInv
  <1> QED BY <1>1, StackInvariance, PTL

(* The map that pop and empty look at lists the sub-stacks that are not
   empty. *)
THEOREM SortedMapExact == Spec => []SortedAreNonEmpty
  <1>1. StackInv => SortedAreNonEmpty
    BY DEF StackInv
  <1> QED BY <1>1, StackInvariance, PTL

(* Sub-stacks keep to their size. *)
THEOREM StackSizeBound == Spec => []SizeRespected
  <1>1. StackInv => SizeRespected
    BY DEF StackInv
  <1> QED BY <1>1, StackInvariance, PTL

(* No iterator of recInfoMap dangles. *)
THEOREM IteratorsValid == Spec => []NoDanglingIterator
  <1>1. StackInv => NoDanglingIterator
    BY DEF StackInv
  <1> QED BY <1>1, StackInvariance, PTL

(* The dictionary of states knows the best score of each state. *)
THEOREM DictionaryBest == Spec => []DictDominates
  <1>1. StackInv => DictDominates
    BY DEF StackInv
  <1> QED BY <1>1, StackInvariance, PTL

(* Of a state of one class at most one hypothesis is in the stacks. *)
THEOREM OneHypOfClassState == Spec => []Recombines
  <1>1. StackInv => Recombines
    BY DEF StackInv
  <1> QED BY <1>1, StackInvariance, PTL

(* When states determine classes, recombination is complete. *)
THEOREM RecombinationComplete ==
  ASSUME \A s \in States : OneClass(s)
  PROVE  Spec => []OneHypPerState
  <1>1. StackInv => OneHypPerState
    <2>1. StackInv => \A n \in Live : n.hyp.state \in States
      BY LiveNodes, HypParts DEF StackInv
    <2> QED BY <2>1 DEF StackInv, Recombines, OneHypPerState
  <1> QED BY <1>1, StackInvariance, PTL

-----------------------------------------------------------------------------
(* What a push removes from the stacks is replaced by something as good. *)
LEMMA PushKeepsBest ==
  ASSUME StackInv, NEW h \in Hyps, Push(h)
  PROVE  \A n \in Live : \E m \in Live' : m.hyp.score >= n.hyp.score
  <1>0. TypeOK /\ ready /\ NoDanglingIterator /\ DictDominates /\ h.score \in Int
    BY HypParts DEF StackInv, Push
  <1>1. \A n \in Live : n.hyp.score \in Int
    BY <1>0, LiveNodes, HypParts
  <1>2. CASE Live' = Live
    BY <1>1, <1>2
  <1>3. ASSUME ~WorseThanKnown(h), NEW n \in Recombined(h)
        PROVE  n.hyp.score <= h.score
    <2>1. n \in Live /\ n.hyp.state = h.state
      BY <1>0, <1>3, HypParts, LiveNodes DEF Recombined, NoDanglingIterator
    <2>2. hypStateDict[h.state] \in Int
      BY <1>0, <2>1, StackConstants DEF TypeOK, DictDominates, Scores
    <2> QED BY <1>0, <1>1, <1>3, <2>1, <2>2 DEF DictDominates, WorseThanKnown
  <1>4. ASSUME NEW node \in Nodes, ~WorseThanKnown(h), FindsRoom(h, node)
        PROVE  \A n \in Live : \E m \in Live' : m.hyp.score >= n.hyp.score
    <2>1. node \in Live' /\ \A m \in Live : m \in Live' \/ m \in Recombined(h)
      BY <1>0, <1>4, LiveAfterInsert
    <2>2. node.hyp = h
      BY <1>4 DEF FindsRoom, Enters
    <2> QED BY <1>0, <1>1, <1>3, <1>4, <2>1, <2>2
  <1>5. ASSUME NEW node \in Nodes, NEW k \in Nodes, ~WorseThanKnown(h), Replaces(h, node, k)
        PROVE  \A n \in Live : \E m \in Live' : m.hyp.score >= n.hyp.score
    <2>1. node \in Live' /\ \A m \in Live : m \in Live' \/ m = k \/ m \in Recombined(h)
      BY <1>0, <1>5, LiveAfterInsert
    <2>2. node.hyp = h /\ k.hyp.score < h.score
      BY <1>5 DEF Replaces, Enters
    <2> QED BY <1>0, <1>1, <1>3, <1>5, <2>1, <2>2
  <1> QED BY <1>2, <1>4, <1>5, PushKinds DEF Bounces, stacks, Live

(* A push never lowers the best score of the stacks. *)
THEOREM PushesKeepBest == Spec => BestKept
  <1>1. StackInv /\ [Next]_vars =>
          [(\E h \in Hyps : Push(h)) =>
             \A n \in Live : \E m \in Live' : m.hyp.score >= n.hyp.score]_vars
    BY PushKeepsBest
  <1> QED BY <1>1, StackInvariance, PTL DEF Spec, BestKept

-----------------------------------------------------------------------------
(* The sub-stack of a class is the class of Beam, and what recombination
   removes from it is what Beam may or must remove. *)
LEMMA ClassOfBeam ==
  ASSUME StackInv, NEW h \in Hyps
  PROVE  /\ {n \in Live : n.hyp.cls = h.cls} = multiContainer[h.cls]
         /\ Recombined(h) \subseteq {n \in multiContainer[h.cls] : n.hyp.state = h.state}
         /\ OneClass(h.state) =>
              Recombined(h) = {n \in multiContainer[h.cls] : n.hyp.state = h.state}
         /\ Rest(h) = multiContainer[h.cls] \ Recombined(h)
  <1>1. h.cls \in Classes /\ StacksOfClass /\ NoDanglingIterator /\ Recombines
    BY HypParts DEF StackInv
  <1>2. {n \in Live : n.hyp.cls = h.cls} = multiContainer[h.cls]
    BY <1>1, LiveNodes DEF StacksOfClass
  <1>3. Recombined(h) \subseteq {n \in multiContainer[h.cls] : n.hyp.state = h.state}
    BY <1>1 DEF Recombined, NoDanglingIterator
  <1>4. ASSUME OneClass(h.state), NEW n \in multiContainer[h.cls], n.hyp.state = h.state
        PROVE  n \in Recombined(h)
    BY <1>1, <1>4, LiveNodes DEF Recombines, Alone, Recombined
  <1> QED BY <1>2, <1>3, <1>4 DEF Rest

(* Beam measures sets as this module does. *)
LEMMA SizeOfBeam ==
  ASSUME NEW S
  PROVE  Abstract!Cardinality(S) = Cardinality(S)
  BY DEF Cardinality, Abstract!Cardinality

(* A push is an offer of Beam. *)
LEMMA PushOffers ==
  ASSUME StackInv, NEW h \in Hyps, Push(h)
  PROVE  Abstract!Offer(h)
  <1> DEFINE class == {n \in Live : n.hyp.cls = h.cls}
             same  == {n \in class : n.hyp.state = h.state}
             gone  == Recombined(h)
  <1>0. /\ TypeOK /\ DictDominates /\ ready /\ h.score \in Int /\ h.cls \in Classes
        /\ UNCHANGED maxStackSize /\ maxStackSize \in Nat
    BY HypParts DEF StackInv, Push, TypeOK
  <1>1. /\ class = multiContainer[h.cls] /\ gone \in SUBSET same
        /\ Abstract!Unique(h.state) => gone = same
        /\ Rest(h) = class \ gone
    BY ClassOfBeam DEF Abstract!Unique, OneClass
  <1>2. CASE WorseThanKnown(h) /\ UNCHANGED stacks
    <2>1. Live' = Live
      BY <1>2 DEF stacks, Live
    <2>2. UNCHANGED <<maxStackSize, Live, hypStateDict>>
      BY <1>0, <1>2, <2>1 DEF stacks
    <2> QED BY <1>2, <2>2 DEF Abstract!Offer, Abstract!vars, WorseThanKnown
  <1>3. ASSUME ~WorseThanKnown(h), hypStateDict' = With(hypStateDict, h.state, h.score),
               \/ Abstract!NoRoom(class, class \ gone, h)
               \/ Abstract!Improves(class, class \ gone, h)
        PROVE  Abstract!Offer(h)
    <2>1. h.state \in DOMAIN hypStateDict => hypStateDict[h.state] <= h.score
      BY <1>0, <1>3, StackConstants DEF WorseThanKnown, TypeOK, Scores
    <2>2. hypStateDict' = [s \in DOMAIN hypStateDict \cup {h.state} |->
                              IF s = h.state THEN h.score ELSE hypStateDict[s]]
      BY <1>3 DEF With
    <2>3. \E g \in SUBSET same :
            /\ Abstract!Unique(h.state) => g = same
            /\ Abstract!NoRoom(class, class \ g, h) \/ Abstract!Improves(class, class \ g, h)
      BY <1>1, <1>3
    <2> QED BY <1>0, <2>1, <2>2, <2>3 DEF Abstract!Offer
  <1>4. CASE ~WorseThanKnown(h) /\ Bounces(h)
    <2>1. Live' = Live /\ gone = {} /\ class \subseteq Live
      BY <1>4 DEF Bounces, Live
    <2>2. /\ \A n \in class : n.hyp.score >= h.score
          /\ Cardinality(class) >= maxStackSize
      <3>1. \/ Cardinality(class) = maxStackSize /\ \A n \in class : n.hyp.score >= h.score
            \/ maxStackSize = 0
        BY <1>1, <1>4 DEF Bounces, Refused
      <3>2. CASE maxStackSize = 0
        <4>1. IsFiniteSet(class) /\ Cardinality(class) \in Nat /\ Cardinality(class) <= 0
          BY <1>0, <1>1, <2>1, <3>2, RestBounded
        <4>2. Cardinality(class) = 0
          BY <4>1
        <4>3. class = {}
          BY <4>1, <4>2, FS_EmptySet
        <4> QED BY <3>2, <4>2, <4>3
      <3> QED BY <1>0, <3>1, <3>2
    <2>3. class \ gone = class /\ (Live \ class) \cup class = Live
      BY <2>1
    <2>4. Abstract!NoRoom(class, class \ gone, h)
      BY <2>1, <2>2, <2>3, SizeOfBeam DEF Abstract!NoRoom
    <2> QED BY <1>3, <1>4, <2>4 DEF Bounces
  <1>5. ASSUME NEW node \in Nodes, NEW kept, ~WorseThanKnown(h), Enters(h, node),
               kept \in SUBSET (Rest(h) \cup {node}),
               Abstract!IsCut(kept, Rest(h) \cup {node}),
               multiContainer' = [multiContainer EXCEPT ![h.cls] = kept]
        PROVE  Abstract!Offer(h)
    <2>1. /\ node = [id |-> node.id, hyp |-> h]
          /\ node.id \in Ids \ {n.id : n \in Live}
      BY <1>5 DEF Enters, Nodes
    <2>2. Live' = (Live \ class) \cup kept
      <3>1. /\ multiContainer'[h.cls] = kept
            /\ \A c \in Classes : c # h.cls => multiContainer'[c] = multiContainer[c]
        BY <1>0, <1>5 DEF TypeOK
      <3>2. \A n : n \in Live' <=> \E c \in Classes : n \in multiContainer'[c]
        BY DEF Live
      <3>3. \A c \in Classes : c # h.cls => \A n \in multiContainer[c] : n \notin class
        BY DEF StackInv, StacksOfClass
      <3> QED BY <1>0, <1>1, <3>1, <3>2, <3>3, LiveNodes
    <2>3. Abstract!Improves(class, class \ gone, h)
      BY <1>1, <1>5, <2>1, <2>2 DEF Abstract!Improves
    <2> QED BY <1>3, <1>5, <2>3 DEF Enters
  <1>6. /\ IsFiniteSet(Rest(h)) /\ Cardinality(Rest(h)) \in Nat /\ Rest(h) \subseteq Live
        /\ \A n \in Rest(h) : n.hyp.score \in Int
    BY <1>0, RestBounded, LiveNodes, HypParts
  <1>7. ASSUME NEW node \in Nodes, Enters(h, node)
        PROVE  /\ node \notin Rest(h) /\ node.hyp = h
               /\ IsFiniteSet(Rest(h) \cup {node})
               /\ Cardinality(Rest(h) \cup {node}) = Cardinality(Rest(h)) + 1
    BY <1>6, <1>7, FS_AddElement DEF Enters
  <1>8. ASSUME NEW node \in Nodes, ~WorseThanKnown(h), FindsRoom(h, node)
        PROVE  Abstract!Offer(h)
    <2>1. Enters(h, node) /\ Cardinality(Rest(h) \cup {node}) <= maxStackSize
      BY <1>0, <1>6, <1>7, <1>8 DEF FindsRoom
    <2>2. Abstract!IsCut(Rest(h) \cup {node}, Rest(h) \cup {node})
      BY <2>1, SizeOfBeam DEF Abstract!IsCut
    <2> QED BY <1>5, <1>8, <2>1, <2>2 DEF FindsRoom
  <1>9. ASSUME NEW node \in Nodes, NEW n \in Nodes, ~WorseThanKnown(h), Replaces(h, node, n)
        PROVE  Abstract!Offer(h)
    <2> DEFINE cand == Rest(h) \cup {node}
               kept == (Rest(h) \ {n}) \cup {node}
    <2>1. /\ Enters(h, node) /\ n \in Rest(h) /\ Cardinality(Rest(h)) = maxStackSize
          /\ n.hyp.score < h.score /\ \A m \in Rest(h) : n.hyp.score <= m.hyp.score
      BY <1>6, <1>9 DEF Replaces, Lasts
    <2>2. /\ kept \subseteq cand /\ cand \ kept = {n} /\ kept = cand \ {n} /\ n \in cand
          /\ IsFiniteSet(cand) /\ Cardinality(cand) = maxStackSize + 1
      BY <1>7, <2>1
    <2>3. Cardinality(kept) = maxStackSize
      <3>1. Cardinality(kept) = Cardinality(cand) - 1
        BY ZenonT(60), <2>2, FS_RemoveElement
      <3> QED BY <1>0, <2>2, <3>1
    <2>4. \A k \in kept, d \in cand \ kept : d.hyp.score <= k.hyp.score
      BY <1>0, <1>6, <1>7, <2>1, <2>2
    <2>5. Abstract!IsCut(kept, cand)
      <3>1. ~(Cardinality(cand) <= maxStackSize)
        BY <1>0, <2>2
      <3> QED BY <2>2, <2>3, <2>4, <3>1, SizeOfBeam DEF Abstract!IsCut
    <2>6. kept \in SUBSET (Rest(h) \cup {node})
      BY <2>2
    <2>7. multiContainer' = [multiContainer EXCEPT ![h.cls] = kept]
      BY <1>9 DEF Replaces
    <2> HIDE DEF kept
    <2> QED BY <1>5, <1>9, <2>1, <2>5, <2>6, <2>7
  <1> QED BY <1>2, <1>4, <1>8, <1>9, PushKinds

(* A pop takes a node as Beam allows. *)
LEMMA PopTakesBest ==
  ASSUME StackInv, Pop
  PROVE  Abstract!Take
  <1>0. TypeOK /\ StacksOfClass /\ SortedAreNonEmpty /\ UNCHANGED <<maxStackSize, hypStateDict>>
    BY DEF StackInv, Pop, PopNode
  <1>1. PICK c \in Classes : \E n \in multiContainer[c] :
          /\ n \in Nodes /\ n.hyp \in Hyps /\ n \in Tops(multiContainer[c])
          /\ c \in sortedStacksMap /\ PopsStack(breadthFirst, c, n)
          /\ multiContainer' = [multiContainer EXCEPT ![c] = @ \ {n}]
    BY PopTakes
  <1>2. PICK n \in multiContainer[c] :
          /\ n \in Nodes /\ n.hyp \in Hyps /\ n \in Tops(multiContainer[c])
          /\ c \in sortedStacksMap /\ PopsStack(breadthFirst, c, n)
          /\ multiContainer' = [multiContainer EXCEPT ![c] = @ \ {n}]
    BY <1>1
  <1>3. n \in Live /\ Live' = Live \ {n} /\ n.hyp.cls = c
    BY <1>0, <1>2, LiveAfterPop, LiveNodes DEF StacksOfClass
  <1>4. \A m \in Live : /\ m.hyp.cls \in sortedStacksMap /\ m.hyp.cls \in Int
                        /\ m \in multiContainer[m.hyp.cls] /\ m.hyp.score \in Int
    BY <1>0, LiveNodes, HypParts, StackConstants DEF SortedAreNonEmpty
  <1>5. \/ \A m \in Live : m.hyp.score <= n.hyp.score
        \/ \A m \in Live : \/ n.hyp.cls < m.hyp.cls
                           \/ n.hyp.cls = m.hyp.cls /\ m.hyp.score <= n.hyp.score
    <2>1. CASE breadthFirst
      <3> SUFFICES ASSUME NEW m \in Live
                   PROVE  \/ n.hyp.cls < m.hyp.cls
                          \/ n.hyp.cls = m.hyp.cls /\ m.hyp.score <= n.hyp.score
        OBVIOUS
      <3>1. n.hyp.cls <= m.hyp.cls
        BY <1>2, <1>3, <1>4, <2>1 DEF PopsStack
      <3>2. n.hyp.cls = m.hyp.cls => m.hyp.score <= n.hyp.score
        BY <1>2, <1>3, <1>4 DEF Tops
      <3> QED BY <1>3, <1>4, <3>1, <3>2
    <2>2. CASE ~breadthFirst
      BY <1>2, <1>3, <1>4, <2>2 DEF PopsStack
    <2> QED BY <2>1, <2>2
  <1> QED BY <1>0, <1>3, <1>5 DEF Abstract!Take

(* Initially, and at every step, the container does what Beam allows. *)
THEOREM BeamRefinement == Spec => ImplementsBeam
  <1>1. Init => Abstract!BeamInit
    <2> SUFFICES ASSUME Init PROVE Abstract!BeamInit
      OBVIOUS
    <2>1. Live = {}
      BY HypParts DEF Init, Live, NoNodes
    <2> QED BY <2>1, StackConstants DEF Init, Abstract!BeamInit, EmptyMap
  <1>2. StackInv /\ [Next]_vars => [Abstract!BeamNext]_(Abstract!vars)
    <2> SUFFICES ASSUME StackInv, [Next]_vars
                 PROVE  [Abstract!BeamNext]_(Abstract!vars)
      OBVIOUS
    <2>1. ASSUME NEW h \in Hyps, Push(h)
          PROVE  Abstract!BeamNext
      BY <2>1, PushOffers DEF Abstract!BeamNext
    <2>2. CASE Pop
      BY <2>2, PopTakesBest DEF Abstract!BeamNext
    <2>3. CASE Clear
      <3>1. Live' = {}
        BY <2>3 DEF Clear, Live, NoNodes
      <3> QED BY <2>3, <3>1 DEF Clear, EmptyMap, Abstract!BeamNext, Abstract!Reset
    <2>4. ASSUME NEW S \in StackSizes, SetMaxStackSize(S)
          PROVE  Abstract!BeamNext
      <3>1. Live' = Live /\ hypStateDict' = hypStateDict /\ maxStackSize' \in Nat
        BY <2>4, StackConstants DEF SetMaxStackSize, stacks, Live
      <3> QED BY <3>1 DEF Abstract!BeamNext, Abstract!SetLimit
    <2>5. ASSUME NEW b \in BOOLEAN, SetBf(b)
          PROVE  UNCHANGED Abstract!vars
      BY <2>5 DEF SetBf, stacks, Live, Abstract!vars
    <2>6. CASE UNCHANGED vars
      BY <2>6 DEF vars, stacks, Live, Abstract!vars
    <2> QED BY <2>1, <2>2, <2>3, <2>4, <2>5, <2>6 DEF Next
  <1> QED BY <1>1, <1>2, StackInvariance, PTL DEF Spec, ImplementsBeam, Abstract!BeamSpec

=============================================================================
