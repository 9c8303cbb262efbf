------------------------- MODULE ThotDecoder_proofs -------------------------
(***************************************************************************)
(* Proofs about ThotDecoder for any set of calls and users: its types, the *)
(* inductive invariant IndInv and the safety properties that follow from   *)
(* it; then UsersInv and what holds of the tables of the users.            *)
(***************************************************************************)
EXTENDS ThotDecoder, FiniteSetTheorems, SequenceTheorems, TLAPS

(* Creating or finding a user keeps the types of the tables
   (get_vecidx_for_user_id). *)
LEMMA TablesTyped ==
  ASSUME TypeOK, NEW u \in Users
  PROVE  /\ DOMAIN MapWith(u) \subseteq Users
         /\ MapWith(u) \in [DOMAIN MapWith(u) -> Nat]
         /\ VarsWith(u) \in Seq([released : BOOLEAN, parsSet : BOOLEAN])
         /\ MutsWith(u) \in Seq(Threads \cup {None})
         /\ IdxFor(u) \in Nat
  <1>1. IdxFor(u) \in Nat
    BY DEF TypeOK, IdxFor, Known
  <1>2. NewUserVars \in [released : BOOLEAN, parsSet : BOOLEAN]
    BY DEF NewUserVars
  <1>3. /\ DOMAIN MapWith(u) \subseteq Users
        /\ MapWith(u) \in [DOMAIN MapWith(u) -> Nat]
    BY <1>1 DEF TypeOK, MapWith
  <1>4. VarsWith(u) \in Seq([released : BOOLEAN, parsSet : BOOLEAN])
    BY <1>2, AppendProperties DEF TypeOK, VarsWith
  <1>5. MutsWith(u) \in Seq(Threads \cup {None})
    BY AppendProperties DEF TypeOK, MutsWith
  <1> QED BY <1>1, <1>3, <1>4, <1>5

(* The index of a call that has read it, or of a known user, is inside both
   vectors. *)
LEMMA IdxInRange ==
  ASSUME TypeOK, UsersHaveOwnPlace, IdxIsCurrent
  PROVE  /\ \A u \in DOMAIN userIdToIdx :
              userIdToIdx[u] \in 1..Len(perUserVars) /\ userIdToIdx[u] \in 1..Len(per_user_mut)
         /\ \A t \in Threads : pc[t] \in {"lockuser", "body", "work"} =>
              idx[t] \in 1..Len(perUserVars) /\ idx[t] \in 1..Len(per_user_mut)
  <1>1. Len(perUserVars) \in Nat /\ Len(per_user_mut) \in Nat
    BY LenProperties DEF TypeOK
  <1> QED BY <1>1 DEF UsersHaveOwnPlace, IdxIsCurrent, Known

(* The counter is positive while a call is counted. *)
LEMMA CounterPositive ==
  ASSUME TypeOK, CounterCountsOps, NEW t \in Threads, pc[t] \in Counted
  PROVE  non_atomic_ops_running >= 1
  <1>1. IsFiniteSet(CountedThreads)
    BY ConstantsAssumption, FS_Subset DEF CountedThreads
  <1>2. CountedThreads # {}
    BY DEF CountedThreads
  <1>3. Cardinality(CountedThreads) # 0
    BY <1>1, <1>2, FS_EmptySet
  <1> QED BY <1>3 DEF CounterCountsOps, TypeOK

(* A step keeps the types, given the invariant. *)
LEMMA TypeStep ==
  ASSUME TypeOK, IndInv, [Next]_vars
  PROVE  TypeOK'
  <1> USE ConstantsAssumption
  <1>1. CASE UNCHANGED vars
    BY <1>1 DEF TypeOK, vars, mutexes, tables
  <1> SUFFICES ASSUME NEW t \in Threads,
                      \/ \E op \in Ops, u \in Users : Invoke(t, op, u)
                      \/ RejectEmptyPair(t) \/ SpuriousWakeup(t)
                      \/ Step(t)
               PROVE  TypeOK'
    BY <1>1 DEF Next
  <1>2. ASSUME NEW op \in Ops, NEW u \in Users, Invoke(t, op, u) PROVE TypeOK'
    BY <1>2 DEF TypeOK, Invoke, Enter, Goto, FirstPlace, Places, AllOps, mutexes, tables
  <1>3. CASE RejectEmptyPair(t)
    BY <1>3 DEF TypeOK, RejectEmptyPair, Return, Goto, Places, Results, mutexes, tables
  <1>4. CASE SpuriousWakeup(t)
    BY <1>4 DEF TypeOK, SpuriousWakeup, Goto, Places, mutexes, tables
  <1>5. CASE LockAtomicOp(t)
    BY <1>5 DEF TypeOK, LockAtomicOp, Goto, Places, tables
  <1>6. CASE AwaitNonAtomicOps(t)
    BY <1>6 DEF TypeOK, AwaitNonAtomicOps, OwnerAfterWait, Goto, Places, tables
  <1>7. CASE InitUserPars(t)
    <2>1. pc[t] = "work"
      BY <1>7 DEF InitUserPars
    <2>2. idx[t] \in 1..Len(perUserVars)
      BY <2>1, IdxInRange DEF IndInv
    <2>3. WithPars(perUserVars[idx[t]]) \in [released : BOOLEAN, parsSet : BOOLEAN]
      BY ZenonT(60), <2>2, ElementOfSeq DEF TypeOK, WithPars
    <2>4. \/ perUserVars' = perUserVars
          \/ perUserVars' = [perUserVars EXCEPT ![idx[t]] = WithPars(perUserVars[idx[t]])]
      BY <1>7 DEF InitUserPars
    <2>5. [perUserVars EXCEPT ![idx[t]] = WithPars(perUserVars[idx[t]])]
            \in Seq([released : BOOLEAN, parsSet : BOOLEAN])
      BY <2>2, <2>3, ExceptSeq DEF TypeOK
    <2>6. perUserVars' \in Seq([released : BOOLEAN, parsSet : BOOLEAN])
      BY <2>4, <2>5 DEF TypeOK
    <2> QED BY <1>7, <2>6 DEF TypeOK, InitUserPars, Return, Goto, Places, Results, mutexes
  <1>8. CASE Train(t)
    BY <1>8 DEF TypeOK, Train, Goto, Places, Results, mutexes, tables
  <1>9. CASE ClearTrans(t)
    BY <1>9 DEF TypeOK, ClearTrans, NoUsers, Goto, Places, Results, mutexes
  <1>10. CASE PrintModels(t)
    BY <1>10 DEF TypeOK, PrintModels, Goto, Places, Results, mutexes, tables
  <1>11. CASE UnlockNonAtomicOp(t)
    BY <1>11 DEF TypeOK, UnlockNonAtomicOp, Goto, Places, tables
  <1>12. CASE UnlockAtomicOp(t)
    BY <1>12 DEF TypeOK, UnlockAtomicOp, Goto, Places, tables
  <1>13. CASE IncreaseNonAtomicOps(t)
    BY <1>13 DEF TypeOK, IncreaseNonAtomicOps, Goto, Places, mutexes, tables
  <1>14. CASE GetVecIdx(t)
    <2>1. call[t].user \in Users
      BY <1>14 DEF TypeOK, IndInv, PlacesFitOps, GetVecIdx
    <2>2. pc' \in [Threads -> Places]
      BY ZenonT(60), <1>14 DEF TypeOK, GetVecIdx, Goto, Places
    <2> QED BY <1>14, <2>1, <2>2, TablesTyped DEF TypeOK, GetVecIdx
  <1>15. CASE LockUser(t)
    <2>1. idx[t] \in 1..Len(per_user_mut)
      BY <1>15, IdxInRange DEF IndInv, LockUser
    <2>2. per_user_mut' \in Seq(Threads \cup {None})
      BY <1>15, <2>1, ExceptSeq DEF TypeOK, LockUser
    <2> QED BY <1>15, <2>2 DEF TypeOK, LockUser, Goto, Places, tables
  <1>16. CASE UnlockUser(t)
    <2>1. idx[t] \in 1..Len(per_user_mut)
      BY <1>16, IdxInRange DEF IndInv, UnlockUser
    <2>2. per_user_mut' \in Seq(Threads \cup {None})
      BY <1>16, <2>1, ExceptSeq DEF TypeOK, UnlockUser
    <2> QED BY <1>16, <2>2 DEF TypeOK, UnlockUser, Goto, Places, tables
  <1>17. CASE DecreaseNonAtomicOps(t)
    <2>1. non_atomic_ops_running >= 1
      BY <1>17, CounterPositive DEF IndInv, DecreaseNonAtomicOps, Counted
    <2>2. non_atomic_ops_running' \in Nat
      BY <1>17, <2>1 DEF TypeOK, DecreaseNonAtomicOps
    <2>3. pc' \in [Threads -> Places]
      BY <1>17 DEF TypeOK, DecreaseNonAtomicOps, Places
    <2> QED BY <1>17, <2>2, <2>3 DEF TypeOK, DecreaseNonAtomicOps, Results, mutexes, tables
  <1>18. CASE ReleaseUserData(t)
    <2> DEFINE u == call[t].user
    <2>1. perUserVars' \in Seq([released : BOOLEAN, parsSet : BOOLEAN])
      <3>1. CASE ~Known(u)
        BY <1>18, <3>1 DEF TypeOK, ReleaseUserData
      <3>2. CASE Known(u)
        <4>1. userIdToIdx[u] \in 1..Len(perUserVars)
          BY <3>2, IdxInRange DEF IndInv, Known
        <4>2. Freed(perUserVars[userIdToIdx[u]]) \in [released : BOOLEAN, parsSet : BOOLEAN]
          BY ZenonT(60), <4>1, ElementOfSeq DEF TypeOK, Freed
        <4> QED BY <1>18, <3>2, <4>1, <4>2, ExceptSeq DEF TypeOK, ReleaseUserData, ReleasedIdx
      <3> QED BY <3>1, <3>2
    <2> QED BY <1>18, <2>1 DEF TypeOK, ReleaseUserData, Return, Goto, Places, Results, mutexes
  <1> QED BY <1>2, <1>3, <1>4, <1>5, <1>6, <1>7, <1>8, <1>9, <1>10, <1>11, <1>12,
             <1>13, <1>14, <1>15, <1>16, <1>17, <1>18 DEF Step
(* A call that runs alone shuts every other call out of the gate and out of
   atomic_op_mut. *)
LEMMA AloneExcludes ==
  ASSUME TypeOK, IndInv, NEW t \in Threads,
         pc[t] \in {"alone", "work", "unlocknonatomic"}
  PROVE  /\ non_atomic_op_mut = t
         /\ \A s \in Threads : pc[s] \notin Counted
         /\ \A s \in Threads \ {t} : ~HoldsAtomicOp(s) /\ ~HoldsNonAtomicOp(s)
  <1>1. atomic_op_mut = t /\ non_atomic_op_mut = t
    BY DEF IndInv, AtomicOpOwner, NonAtomicOpOwner, HoldsAtomicOp, HoldsNonAtomicOp
  <1>2. CountedThreads = {}
    BY <1>1, ConstantsAssumption DEF IndInv, GateClosed
  <1>3. \A s \in Threads \ {t} : ~HoldsAtomicOp(s) /\ ~HoldsNonAtomicOp(s)
    BY <1>1 DEF IndInv, AtomicOpOwner, NonAtomicOpOwner
  <1> QED BY <1>1, <1>2, <1>3 DEF CountedThreads

(* atomic_op_mut belongs to the call that is between taking and
   releasing it. *)
LEMMA AtomicOpOwnerStep ==
  ASSUME TypeOK, TypeOK', IndInv, [Next]_vars
  PROVE  AtomicOpOwner'
  <1> USE ConstantsAssumption DEF TypeOK, AtomicOpOwner, HoldsAtomicOp, Leaked, Places
  <1>1. CASE UNCHANGED vars
    BY <1>1 DEF vars, mutexes, tables, IndInv
  <1> SUFFICES ASSUME NEW t \in Threads,
                      \/ \E op \in Ops, u \in Users : Invoke(t, op, u)
                      \/ RejectEmptyPair(t) \/ SpuriousWakeup(t)
                      \/ Step(t)
               PROVE  AtomicOpOwner'
    BY <1>1 DEF Next
  <1>2. ASSUME NEW op \in Ops, NEW u \in Users, Invoke(t, op, u) PROVE AtomicOpOwner'
    BY <1>2 DEF IndInv, Invoke, Enter, FirstPlace, Goto, mutexes, tables
  <1>3. CASE RejectEmptyPair(t)
    BY <1>3 DEF IndInv, RejectEmptyPair, EmptyCheckPlace, Return, Goto, mutexes, tables
  <1>4. CASE SpuriousWakeup(t)
    BY <1>4 DEF IndInv, SpuriousWakeup, Goto, mutexes, tables
  <1>5. CASE LockAtomicOp(t)
    BY <1>5 DEF IndInv, LockAtomicOp, Goto, mutexes, tables
  <1>6. CASE AwaitNonAtomicOps(t)
    BY <1>6 DEF IndInv, AwaitNonAtomicOps, OwnerAfterWait, Goto, mutexes, tables
  <1>7. CASE InitUserPars(t)
    BY <1>7 DEF IndInv, InitUserPars, Return, Goto, mutexes, tables
  <1>8. CASE Train(t)
    BY <1>8 DEF IndInv, Train, Goto, mutexes, tables
  <1>9. CASE ClearTrans(t)
    BY <1>9 DEF IndInv, ClearTrans, Goto, mutexes, tables
  <1>10. CASE PrintModels(t)
    BY <1>10 DEF IndInv, PrintModels, Goto, mutexes, tables
  <1>11. CASE UnlockNonAtomicOp(t)
    BY <1>11 DEF IndInv, UnlockNonAtomicOp, Goto, mutexes, tables
  <1>12. CASE UnlockAtomicOp(t)
    BY <1>12 DEF IndInv, PlacesFitOps, UnlockAtomicOp, Goto, mutexes, tables
  <1>13. CASE IncreaseNonAtomicOps(t)
    BY <1>13 DEF IndInv, IncreaseNonAtomicOps, Goto, mutexes, tables
  <1>14. CASE GetVecIdx(t)
    BY <1>14 DEF IndInv, GetVecIdx, Goto, mutexes, tables
  <1>15. CASE LockUser(t)
    BY <1>15 DEF IndInv, LockUser, UserFree, Goto, mutexes, tables
  <1>16. CASE UnlockUser(t)
    BY <1>16 DEF IndInv, UnlockUser, Goto, mutexes, tables
  <1>17. CASE DecreaseNonAtomicOps(t)
    BY <1>17 DEF IndInv, DecreaseNonAtomicOps, mutexes, tables
  <1>18. CASE ReleaseUserData(t)
    BY <1>18 DEF IndInv, ReleaseUserData, Return, Goto, mutexes, tables
  <1> QED BY <1>2, <1>3, <1>4, <1>5, <1>6, <1>7, <1>8, <1>9,
             <1>10, <1>11, <1>12, <1>13, <1>14, <1>15, <1>16, <1>17, <1>18 DEF Step

(* non_atomic_op_mut likewise. *)
LEMMA NonAtomicOpOwnerStep ==
  ASSUME TypeOK, TypeOK', IndInv, [Next]_vars
  PROVE  NonAtomicOpOwner'
  <1> USE ConstantsAssumption DEF TypeOK, NonAtomicOpOwner, HoldsNonAtomicOp, Leaked, Places
  <1>1. CASE UNCHANGED vars
    BY <1>1 DEF vars, mutexes, tables, IndInv
  <1> SUFFICES ASSUME NEW t \in Threads,
                      \/ \E op \in Ops, u \in Users : Invoke(t, op, u)
                      \/ RejectEmptyPair(t) \/ SpuriousWakeup(t)
                      \/ Step(t)
               PROVE  NonAtomicOpOwner'
    BY <1>1 DEF Next
  <1>2. ASSUME NEW op \in Ops, NEW u \in Users, Invoke(t, op, u) PROVE NonAtomicOpOwner'
    BY <1>2 DEF IndInv, Invoke, Enter, FirstPlace, Goto, mutexes, tables
  <1>3. CASE RejectEmptyPair(t)
    BY <1>3 DEF IndInv, RejectEmptyPair, EmptyCheckPlace, Return, Goto, mutexes, tables
  <1>4. CASE SpuriousWakeup(t)
    BY <1>4 DEF IndInv, SpuriousWakeup, Goto, mutexes, tables
  <1>5. CASE LockAtomicOp(t)
    BY <1>5 DEF IndInv, LockAtomicOp, Goto, mutexes, tables
  <1>6. CASE AwaitNonAtomicOps(t)
    BY <1>6 DEF IndInv, AwaitNonAtomicOps, OwnerAfterWait, Goto, mutexes, tables
  <1>7. CASE InitUserPars(t)
    BY <1>7 DEF IndInv, InitUserPars, Return, Goto, mutexes, tables
  <1>8. CASE Train(t)
    BY <1>8 DEF IndInv, Train, Goto, mutexes, tables
  <1>9. CASE ClearTrans(t)
    BY <1>9 DEF IndInv, ClearTrans, Goto, mutexes, tables
  <1>10. CASE PrintModels(t)
    BY <1>10 DEF IndInv, PrintModels, Goto, mutexes, tables
  <1>11. CASE UnlockNonAtomicOp(t)
    BY <1>11 DEF IndInv, UnlockNonAtomicOp, Goto, mutexes, tables
  <1>12. CASE UnlockAtomicOp(t)
    BY <1>12 DEF IndInv, PlacesFitOps, UnlockAtomicOp, Goto, mutexes, tables
  <1>13. CASE IncreaseNonAtomicOps(t)
    BY <1>13 DEF IndInv, IncreaseNonAtomicOps, Goto, mutexes, tables
  <1>14. CASE GetVecIdx(t)
    BY <1>14 DEF IndInv, GetVecIdx, Goto, mutexes, tables
  <1>15. CASE LockUser(t)
    BY <1>15 DEF IndInv, LockUser, UserFree, Goto, mutexes, tables
  <1>16. CASE UnlockUser(t)
    BY <1>16 DEF IndInv, UnlockUser, Goto, mutexes, tables
  <1>17. CASE DecreaseNonAtomicOps(t)
    BY <1>17 DEF IndInv, DecreaseNonAtomicOps, mutexes, tables
  <1>18. CASE ReleaseUserData(t)
    BY <1>18 DEF IndInv, ReleaseUserData, Return, Goto, mutexes, tables
  <1> QED BY <1>2, <1>3, <1>4, <1>5, <1>6, <1>7, <1>8, <1>9,
             <1>10, <1>11, <1>12, <1>13, <1>14, <1>15, <1>16, <1>17, <1>18 DEF Step

(* Calls stay at the places of their operation. *)
LEMMA PlacesFitOpsStep ==
  ASSUME TypeOK, TypeOK', IndInv, [Next]_vars
  PROVE  PlacesFitOps'
  <1> USE ConstantsAssumption DEF TypeOK, PlacesFitOps, Counted, ExclusiveOps, NonAtomicOps, AllOps
  <1>1. CASE UNCHANGED vars
    BY <1>1 DEF vars, mutexes, tables, IndInv
  <1> SUFFICES ASSUME NEW t \in Threads,
                      \/ \E op \in Ops, u \in Users : Invoke(t, op, u)
                      \/ RejectEmptyPair(t) \/ SpuriousWakeup(t)
                      \/ Step(t)
               PROVE  PlacesFitOps'
    BY <1>1 DEF Next
  <1>2. ASSUME NEW op \in Ops, NEW u \in Users, Invoke(t, op, u) PROVE PlacesFitOps'
    BY <1>2 DEF IndInv, Invoke, Enter, FirstPlace, Goto, mutexes, tables
  <1>3. CASE RejectEmptyPair(t)
    BY <1>3 DEF IndInv, RejectEmptyPair, EmptyCheckPlace, Return, Goto, mutexes, tables
  <1>4. CASE SpuriousWakeup(t)
    BY <1>4 DEF IndInv, SpuriousWakeup, Goto, mutexes, tables
  <1>5. CASE LockAtomicOp(t)
    BY <1>5 DEF IndInv, LockAtomicOp, Goto, mutexes, tables
  <1>6. CASE AwaitNonAtomicOps(t)
    BY <1>6 DEF IndInv, AwaitNonAtomicOps, OwnerAfterWait, Goto, mutexes, tables
  <1>7. CASE InitUserPars(t)
    <2>1. /\ call' = call /\ pc[t] = "work"
          /\ \/ pc' = [pc EXCEPT ![t] = "unlocknonatomic"] /\ ret' = [ret EXCEPT ![t] = "THOT_OK"]
             \/ pc' = [pc EXCEPT ![t] = "done"] /\ ret' = [ret EXCEPT ![t] = "THOT_ERROR"]
      BY <1>7 DEF InitUserPars, Return, Goto
    <2>2. CASE pc' = [pc EXCEPT ![t] = "unlocknonatomic"] /\ ret' = [ret EXCEPT ![t] = "THOT_OK"]
      BY <2>1, <2>2 DEF IndInv
    <2>3. CASE pc' = [pc EXCEPT ![t] = "done"] /\ ret' = [ret EXCEPT ![t] = "THOT_ERROR"]
      BY <2>1, <2>3 DEF IndInv
    <2> QED BY <2>1, <2>2, <2>3
  <1>8. CASE Train(t)
    BY <1>8 DEF IndInv, Train, Goto, mutexes, tables
  <1>9. CASE ClearTrans(t)
    BY <1>9 DEF IndInv, ClearTrans, Goto, mutexes, tables
  <1>10. CASE PrintModels(t)
    BY <1>10 DEF IndInv, PrintModels, Goto, mutexes, tables
  <1>11. CASE UnlockNonAtomicOp(t)
    BY <1>11 DEF IndInv, UnlockNonAtomicOp, Goto, mutexes, tables
  <1>12. CASE UnlockAtomicOp(t)
    BY <1>12 DEF IndInv, UnlockAtomicOp, Goto, mutexes, tables
  <1>13. CASE IncreaseNonAtomicOps(t)
    BY <1>13 DEF IndInv, IncreaseNonAtomicOps, Goto, mutexes, tables
  <1>14. CASE GetVecIdx(t)
    BY <1>14 DEF IndInv, GetVecIdx, Goto, mutexes, tables
  <1>15. CASE LockUser(t)
    BY <1>15 DEF IndInv, LockUser, UserFree, Goto, mutexes, tables
  <1>16. CASE UnlockUser(t)
    BY <1>16 DEF IndInv, UnlockUser, Goto, mutexes, tables
  <1>17. CASE DecreaseNonAtomicOps(t)
    BY <1>17 DEF IndInv, DecreaseNonAtomicOps, mutexes, tables
  <1>18. CASE ReleaseUserData(t)
    BY <1>18 DEF IndInv, ReleaseUserData, Return, Goto, mutexes, tables
  <1> QED BY <1>2, <1>3, <1>4, <1>5, <1>6, <1>7, <1>8, <1>9,
             <1>10, <1>11, <1>12, <1>13, <1>14, <1>15, <1>16, <1>17, <1>18 DEF Step

(* Nobody changes the models while an operation is in its body. *)
LEMMA SeenIsCurrentStep ==
  ASSUME TypeOK, TypeOK', IndInv, [Next]_vars
  PROVE  SeenIsCurrent'
  <1> USE ConstantsAssumption DEF TypeOK, SeenIsCurrent
  <1>1. CASE UNCHANGED vars
    BY <1>1 DEF vars, mutexes, tables, IndInv
  <1> SUFFICES ASSUME NEW t \in Threads,
                      \/ \E op \in Ops, u \in Users : Invoke(t, op, u)
                      \/ RejectEmptyPair(t) \/ SpuriousWakeup(t)
                      \/ Step(t)
               PROVE  SeenIsCurrent'
    BY <1>1 DEF Next
  <1>2. ASSUME NEW op \in Ops, NEW u \in Users, Invoke(t, op, u) PROVE SeenIsCurrent'
    BY <1>2 DEF IndInv, Invoke, Enter, FirstPlace, Goto, mutexes, tables
  <1>3. CASE RejectEmptyPair(t)
    BY <1>3 DEF IndInv, RejectEmptyPair, EmptyCheckPlace, Return, Goto, mutexes, tables
  <1>4. CASE SpuriousWakeup(t)
    BY <1>4 DEF IndInv, SpuriousWakeup, Goto, mutexes, tables
  <1>5. CASE LockAtomicOp(t)
    BY <1>5 DEF IndInv, LockAtomicOp, Goto, mutexes, tables
  <1>6. CASE AwaitNonAtomicOps(t)
    BY <1>6 DEF IndInv, AwaitNonAtomicOps, OwnerAfterWait, Goto, mutexes, tables
  <1>7. CASE InitUserPars(t)
    BY <1>7 DEF IndInv, InitUserPars, Return, Goto, mutexes, tables
  <1>8. CASE Train(t)
    <2>1. \A s \in Threads \ {t} : pc[s] \notin {"alone", "work", "body", "print"}
      BY <1>8, AloneExcludes DEF Train, Counted, HoldsAtomicOp
    <2> QED BY <1>8, <2>1 DEF IndInv, Train, Goto, mutexes, tables
  <1>9. CASE ClearTrans(t)
    <2>1. \A s \in Threads \ {t} : pc[s] \notin {"alone", "work", "body", "print"}
      BY <1>9, AloneExcludes DEF ClearTrans, Counted, HoldsAtomicOp
    <2> QED BY <1>9, <2>1 DEF IndInv, ClearTrans, Goto, mutexes, tables
  <1>10. CASE PrintModels(t)
    BY <1>10 DEF IndInv, PrintModels, Goto, mutexes, tables
  <1>11. CASE UnlockNonAtomicOp(t)
    BY <1>11 DEF IndInv, UnlockNonAtomicOp, Goto, mutexes, tables
  <1>12. CASE UnlockAtomicOp(t)
    BY <1>12 DEF IndInv, UnlockAtomicOp, Goto, mutexes, tables
  <1>13. CASE IncreaseNonAtomicOps(t)
    BY <1>13 DEF IndInv, IncreaseNonAtomicOps, Goto, mutexes, tables
  <1>14. CASE GetVecIdx(t)
    BY <1>14 DEF IndInv, GetVecIdx, Goto, mutexes, tables
  <1>15. CASE LockUser(t)
    BY <1>15 DEF IndInv, LockUser, UserFree, Goto, mutexes, tables
  <1>16. CASE UnlockUser(t)
    BY <1>16 DEF IndInv, UnlockUser, Goto, mutexes, tables
  <1>17. CASE DecreaseNonAtomicOps(t)
    BY <1>17 DEF IndInv, DecreaseNonAtomicOps, mutexes, tables
  <1>18. CASE ReleaseUserData(t)
    BY <1>18 DEF IndInv, ReleaseUserData, Return, Goto, mutexes, tables
  <1> QED BY <1>2, <1>3, <1>4, <1>5, <1>6, <1>7, <1>8, <1>9,
             <1>10, <1>11, <1>12, <1>13, <1>14, <1>15, <1>16, <1>17, <1>18 DEF Step

(* The counted calls before and after a step of t that moves no other call
   into or out of the counted places. *)
LEMMA CountedAfter ==
  ASSUME TypeOK, TypeOK', NEW t \in Threads,
         \A s \in Threads \ {t} : pc'[s] \in Counted <=> pc[s] \in Counted
  PROVE  /\ IsFiniteSet(CountedThreads)
         /\ (pc'[t] \in Counted /\ pc[t] \in Counted) => CountedThreads' = CountedThreads
         /\ (pc'[t] \notin Counted /\ pc[t] \notin Counted) => CountedThreads' = CountedThreads
         /\ (pc'[t] \in Counted /\ pc[t] \notin Counted) =>
              /\ CountedThreads' = CountedThreads \cup {t}
              /\ Cardinality(CountedThreads') = Cardinality(CountedThreads) + 1
         /\ (pc'[t] \notin Counted /\ pc[t] \in Counted) =>
              /\ CountedThreads' = CountedThreads \ {t}
              /\ Cardinality(CountedThreads') = Cardinality(CountedThreads) - 1
  <1>1. IsFiniteSet(CountedThreads)
    BY ConstantsAssumption, FS_Subset DEF CountedThreads
  <1>2. CASE pc'[t] \in Counted /\ pc[t] \notin Counted
    <2>1. CountedThreads' = CountedThreads \cup {t} /\ t \notin CountedThreads
      BY <1>2 DEF CountedThreads
    <2> QED BY <1>1, <1>2, <2>1, FS_AddElement
  <1>3. CASE pc'[t] \notin Counted /\ pc[t] \in Counted
    <2>1. CountedThreads' = CountedThreads \ {t} /\ t \in CountedThreads
      BY <1>3 DEF CountedThreads
    <2> QED BY <1>1, <1>3, <2>1, FS_RemoveElement
  <1>4. CASE pc'[t] \in Counted <=> pc[t] \in Counted
    <2>1. CountedThreads' = CountedThreads
      BY <1>4 DEF CountedThreads
    <2> QED BY <1>1, <1>4, <2>1
  <1> QED BY <1>2, <1>3, <1>4

(* A step that keeps every call inside or outside the counted places keeps
   the counter's meaning and the gate, if it also leaves the counter and does
   not take non_atomic_op_mut. *)
LEMMA GateFrame ==
  ASSUME IndInv,
         \A s \in Threads : pc'[s] \in Counted <=> pc[s] \in Counted,
         non_atomic_ops_running' = non_atomic_ops_running,
         non_atomic_op_mut' # None => non_atomic_op_mut # None
  PROVE  CounterCountsOps' /\ GateClosed'
  <1>1. CountedThreads' = CountedThreads
    BY DEF CountedThreads
  <1> QED BY <1>1 DEF IndInv, CounterCountsOps, GateClosed

(* The counter counts the calls inside the gate, and none is inside while
   non_atomic_op_mut is kept. *)
LEMMA GateStep ==
  ASSUME TypeOK, TypeOK', IndInv, [Next]_vars
  PROVE  CounterCountsOps' /\ GateClosed'
  <1> USE ConstantsAssumption DEF TypeOK, Places
  <1>1. CASE UNCHANGED vars
    BY <1>1, GateFrame DEF vars, mutexes
  <1> SUFFICES ASSUME NEW t \in Threads,
                      \/ \E op \in Ops, u \in Users : Invoke(t, op, u)
                      \/ RejectEmptyPair(t) \/ SpuriousWakeup(t)
                      \/ Step(t)
               PROVE  CounterCountsOps' /\ GateClosed'
    BY <1>1 DEF Next
  <1>2. ASSUME NEW op \in Ops, NEW u \in Users, Invoke(t, op, u) PROVE CounterCountsOps' /\ GateClosed'
    <2>1. \A s \in Threads : pc'[s] \in Counted <=> pc[s] \in Counted
      BY <1>2 DEF Invoke, Enter, FirstPlace, Goto, Counted
    <2>2. non_atomic_ops_running' = non_atomic_ops_running
      BY <1>2 DEF Invoke, Enter
    <2>3. non_atomic_op_mut' # None => non_atomic_op_mut # None
      BY <1>2 DEF Invoke, Enter, mutexes
    <2> QED BY <2>1, <2>2, <2>3, GateFrame
  <1>3. CASE RejectEmptyPair(t)
    <2>1. \A s \in Threads : pc'[s] \in Counted <=> pc[s] \in Counted
      BY <1>3 DEF RejectEmptyPair, EmptyCheckPlace, Return, Goto, Counted
    <2>2. non_atomic_ops_running' = non_atomic_ops_running
      BY <1>3 DEF RejectEmptyPair
    <2>3. non_atomic_op_mut' # None => non_atomic_op_mut # None
      BY <1>3 DEF RejectEmptyPair, mutexes
    <2> QED BY <2>1, <2>2, <2>3, GateFrame
  <1>4. CASE SpuriousWakeup(t)
    <2>1. \A s \in Threads : pc'[s] \in Counted <=> pc[s] \in Counted
      BY <1>4 DEF SpuriousWakeup, Goto, Counted
    <2>2. non_atomic_ops_running' = non_atomic_ops_running
      BY <1>4 DEF SpuriousWakeup
    <2>3. non_atomic_op_mut' # None => non_atomic_op_mut # None
      BY <1>4 DEF SpuriousWakeup, mutexes
    <2> QED BY <2>1, <2>2, <2>3, GateFrame
  <1>5. CASE LockAtomicOp(t)
    <2>1. \A s \in Threads : pc'[s] \in Counted <=> pc[s] \in Counted
      BY <1>5 DEF LockAtomicOp, Goto, Counted
    <2>2. non_atomic_ops_running' = non_atomic_ops_running
      BY <1>5 DEF LockAtomicOp
    <2>3. non_atomic_op_mut' # None => non_atomic_op_mut # None
      BY <1>5 DEF LockAtomicOp, mutexes
    <2> QED BY <2>1, <2>2, <2>3, GateFrame
  <1>6. CASE AwaitNonAtomicOps(t)
    <2>1. \A s \in Threads : pc'[s] \in Counted <=> pc[s] \in Counted
      BY <1>6 DEF AwaitNonAtomicOps, Goto, Counted
    <2>2. CountedThreads' = CountedThreads
      BY <2>1 DEF CountedThreads
    <2>3. CounterCountsOps'
      BY <1>6, <2>2 DEF IndInv, CounterCountsOps, AwaitNonAtomicOps
    <2>4. ASSUME non_atomic_op_mut' # None PROVE CountedThreads = {}
      <3>1. non_atomic_ops_running = 0
        BY <1>6, <2>4 DEF AwaitNonAtomicOps, NonAtomicOpsRunning
      <3>2. IsFiniteSet(CountedThreads)
        BY ConstantsAssumption, FS_Subset DEF CountedThreads
      <3> QED BY <3>1, <3>2, FS_EmptySet DEF IndInv, CounterCountsOps
    <2> QED BY <2>2, <2>3, <2>4 DEF GateClosed
  <1>7. CASE InitUserPars(t)
    <2>1. \A s \in Threads : pc'[s] \in Counted <=> pc[s] \in Counted
      BY SMTT(40), <1>7 DEF InitUserPars, Return, Goto, Counted
    <2>2. non_atomic_ops_running' = non_atomic_ops_running
      BY <1>7 DEF InitUserPars
    <2>3. non_atomic_op_mut' # None => non_atomic_op_mut # None
      BY <1>7 DEF InitUserPars, mutexes
    <2> QED BY <2>1, <2>2, <2>3, GateFrame
  <1>8. CASE Train(t)
    <2>1. \A s \in Threads : pc'[s] \in Counted <=> pc[s] \in Counted
      BY <1>8 DEF Train, Goto, Counted
    <2>2. non_atomic_ops_running' = non_atomic_ops_running
      BY <1>8 DEF Train
    <2>3. non_atomic_op_mut' # None => non_atomic_op_mut # None
      BY <1>8 DEF Train, mutexes
    <2> QED BY <2>1, <2>2, <2>3, GateFrame
  <1>9. CASE ClearTrans(t)
    <2>1. \A s \in Threads : pc'[s] \in Counted <=> pc[s] \in Counted
      BY <1>9 DEF ClearTrans, Goto, Counted
    <2>2. non_atomic_ops_running' = non_atomic_ops_running
      BY <1>9 DEF ClearTrans
    <2>3. non_atomic_op_mut' # None => non_atomic_op_mut # None
      BY <1>9 DEF ClearTrans, mutexes
    <2> QED BY <2>1, <2>2, <2>3, GateFrame
  <1>10. CASE PrintModels(t)
    <2>1. \A s \in Threads : pc'[s] \in Counted <=> pc[s] \in Counted
      BY <1>10 DEF PrintModels, Goto, Counted
    <2>2. non_atomic_ops_running' = non_atomic_ops_running
      BY <1>10 DEF PrintModels
    <2>3. non_atomic_op_mut' # None => non_atomic_op_mut # None
      BY <1>10 DEF PrintModels, mutexes
    <2> QED BY <2>1, <2>2, <2>3, GateFrame
  <1>11. CASE UnlockNonAtomicOp(t)
    <2>1. \A s \in Threads : pc'[s] \in Counted <=> pc[s] \in Counted
      BY <1>11 DEF UnlockNonAtomicOp, Goto, Counted
    <2>2. non_atomic_ops_running' = non_atomic_ops_running
      BY <1>11 DEF UnlockNonAtomicOp
    <2>3. non_atomic_op_mut' # None => non_atomic_op_mut # None
      BY <1>11 DEF UnlockNonAtomicOp, mutexes
    <2> QED BY <2>1, <2>2, <2>3, GateFrame
  <1>12. CASE UnlockAtomicOp(t)
    <2>1. \A s \in Threads : pc'[s] \in Counted <=> pc[s] \in Counted
      BY <1>12 DEF UnlockAtomicOp, Goto, Counted
    <2>2. non_atomic_ops_running' = non_atomic_ops_running
      BY <1>12 DEF UnlockAtomicOp
    <2>3. non_atomic_op_mut' # None => non_atomic_op_mut # None
      BY <1>12 DEF UnlockAtomicOp, mutexes
    <2> QED BY <2>1, <2>2, <2>3, GateFrame
  <1>13. CASE IncreaseNonAtomicOps(t)
    <2>1. /\ pc[t] \notin Counted /\ pc'[t] \in Counted
          /\ \A s \in Threads \ {t} : pc'[s] \in Counted <=> pc[s] \in Counted
      BY <1>13 DEF IncreaseNonAtomicOps, Goto, Counted
    <2>2. Cardinality(CountedThreads') = Cardinality(CountedThreads) + 1
      BY <2>1, CountedAfter
    <2>3. CounterCountsOps'
      BY <1>13, <2>2 DEF IndInv, CounterCountsOps, IncreaseNonAtomicOps
    <2>4. GateClosed'
      BY <1>13 DEF GateClosed, IncreaseNonAtomicOps, mutexes
    <2> QED BY <2>3, <2>4
  <1>14. CASE GetVecIdx(t)
    <2>1. \A s \in Threads : pc'[s] \in Counted <=> pc[s] \in Counted
      BY <1>14 DEF GetVecIdx, Goto, Counted
    <2>2. non_atomic_ops_running' = non_atomic_ops_running
      BY <1>14 DEF GetVecIdx
    <2>3. non_atomic_op_mut' # None => non_atomic_op_mut # None
      BY <1>14 DEF GetVecIdx, mutexes
    <2> QED BY <2>1, <2>2, <2>3, GateFrame
  <1>15. CASE LockUser(t)
    <2>1. \A s \in Threads : pc'[s] \in Counted <=> pc[s] \in Counted
      BY <1>15 DEF LockUser, UserFree, Goto, Counted
    <2>2. non_atomic_ops_running' = non_atomic_ops_running
      BY <1>15 DEF LockUser
    <2>3. non_atomic_op_mut' # None => non_atomic_op_mut # None
      BY <1>15 DEF LockUser, mutexes
    <2> QED BY <2>1, <2>2, <2>3, GateFrame
  <1>16. CASE UnlockUser(t)
    <2>1. \A s \in Threads : pc'[s] \in Counted <=> pc[s] \in Counted
      BY <1>16 DEF UnlockUser, Goto, Counted
    <2>2. non_atomic_ops_running' = non_atomic_ops_running
      BY <1>16 DEF UnlockUser
    <2>3. non_atomic_op_mut' # None => non_atomic_op_mut # None
      BY <1>16 DEF UnlockUser, mutexes
    <2> QED BY <2>1, <2>2, <2>3, GateFrame
  <1>17. CASE DecreaseNonAtomicOps(t)
    <2>1. /\ pc[t] \in Counted /\ pc'[t] \notin Counted
          /\ \A s \in Threads \ {t} : pc'[s] \in Counted <=> pc[s] \in Counted
      BY <1>17 DEF DecreaseNonAtomicOps, Counted
    <2>2. Cardinality(CountedThreads') = Cardinality(CountedThreads) - 1
      BY <2>1, CountedAfter
    <2>3. CounterCountsOps'
      BY <1>17, <2>2 DEF IndInv, CounterCountsOps, DecreaseNonAtomicOps
    <2>4. GateClosed'
      BY <1>17 DEF GateClosed, DecreaseNonAtomicOps, mutexes
    <2> QED BY <2>3, <2>4
  <1>18. CASE ReleaseUserData(t)
    <2>1. \A s \in Threads : pc'[s] \in Counted <=> pc[s] \in Counted
      BY <1>18 DEF ReleaseUserData, Return, Goto, Counted
    <2>2. non_atomic_ops_running' = non_atomic_ops_running
      BY <1>18 DEF ReleaseUserData
    <2>3. non_atomic_op_mut' # None => non_atomic_op_mut # None
      BY <1>18 DEF ReleaseUserData, mutexes
    <2> QED BY <2>1, <2>2, <2>3, GateFrame
  <1> QED BY <1>2, <1>3, <1>4, <1>5, <1>6, <1>7, <1>8, <1>9,
             <1>10, <1>11, <1>12, <1>13, <1>14, <1>15, <1>16, <1>17, <1>18 DEF Step

(* What finding or creating a user does to the tables: old users keep their
   places, a new one gets the next, and mutexes are only added. *)
LEMMA TablesGrow ==
  ASSUME TypeOK, UsersHaveOwnPlace, NEW u \in Users
  PROVE  /\ Len(VarsWith(u)) >= Len(perUserVars)
         /\ Len(MutsWith(u)) >= Len(per_user_mut)
         /\ Len(VarsWith(u)) <= Len(MutsWith(u))
         /\ DOMAIN MapWith(u) = DOMAIN userIdToIdx \cup {u}
         /\ MapWith(u)[u] = IdxFor(u)
         /\ IdxFor(u) \in 1..Len(VarsWith(u))
         /\ ~Known(u) => IdxFor(u) = Len(perUserVars) + 1
         /\ \A v \in DOMAIN userIdToIdx : MapWith(u)[v] = userIdToIdx[v]
         /\ \A i \in 1..Len(perUserVars) : VarsWith(u)[i] = perUserVars[i]
         /\ ~Known(u) => VarsWith(u)[IdxFor(u)] = NewUserVars
         /\ \A i \in 1..Len(MutsWith(u)) :
              MutsWith(u)[i] = IF i <= Len(per_user_mut) THEN per_user_mut[i] ELSE None
  <1>1. Len(perUserVars) \in Nat /\ Len(per_user_mut) \in Nat
    BY LenProperties DEF TypeOK
  <1>2. NewUserVars \in [released : BOOLEAN, parsSet : BOOLEAN]
    BY DEF NewUserVars
  <1>3. /\ DOMAIN MapWith(u) = DOMAIN userIdToIdx \cup {u}
        /\ MapWith(u)[u] = IdxFor(u)
        /\ \A v \in DOMAIN userIdToIdx : MapWith(u)[v] = userIdToIdx[v]
    BY DEF MapWith, IdxFor, Known
  <1>4. CASE Known(u)
    <2>1. IdxFor(u) = userIdToIdx[u] /\ IdxFor(u) \in 1..Len(perUserVars)
      BY <1>4 DEF UsersHaveOwnPlace, IdxFor, Known
    <2>2. VarsWith(u) = perUserVars
      BY <1>4 DEF VarsWith
    <2>3. MutsWith(u) = per_user_mut
      BY <1>1, <2>1 DEF UsersHaveOwnPlace, MutsWith
    <2> QED BY <1>1, <1>3, <1>4, <2>1, <2>2, <2>3 DEF UsersHaveOwnPlace
  <1>5. CASE ~Known(u)
    <2>1. IdxFor(u) = Len(perUserVars) + 1
      BY <1>5 DEF IdxFor
    <2>2. /\ Len(VarsWith(u)) = Len(perUserVars) + 1
          /\ \A i \in 1..Len(perUserVars) : VarsWith(u)[i] = perUserVars[i]
          /\ VarsWith(u)[Len(perUserVars) + 1] = NewUserVars
      BY <1>2, <1>5, AppendProperties DEF TypeOK, VarsWith
    <2>3. CASE IdxFor(u) <= Len(per_user_mut)
      <3>1. MutsWith(u) = per_user_mut
        BY <2>3 DEF MutsWith
      <3> QED BY <1>1, <1>3, <1>5, <2>1, <2>2, <2>3, <3>1
    <2>4. CASE ~(IdxFor(u) <= Len(per_user_mut))
      <3>1. Len(per_user_mut) = Len(perUserVars)
        BY <1>1, <2>1, <2>4 DEF UsersHaveOwnPlace
      <3>2. MutsWith(u) = Append(per_user_mut, None)
        BY <2>4 DEF MutsWith
      <3>3. /\ Len(MutsWith(u)) = Len(per_user_mut) + 1
            /\ \A i \in 1..Len(per_user_mut) : MutsWith(u)[i] = per_user_mut[i]
            /\ MutsWith(u)[Len(per_user_mut) + 1] = None
        BY <3>2, AppendProperties DEF TypeOK
      <3> QED BY <1>1, <1>3, <1>5, <2>1, <2>2, <3>1, <3>3
    <2> QED BY <2>3, <2>4
  <1> QED BY <1>4, <1>5

(* Taking or giving back a user's mutex changes one owner. *)
LEMMA UserMutexUpdate ==
  ASSUME TypeOK, NEW i \in 1..Len(per_user_mut), NEW o \in Threads \cup {None}
  PROVE  /\ Len([per_user_mut EXCEPT ![i] = o]) = Len(per_user_mut)
         /\ \A j \in 1..Len(per_user_mut) :
              [per_user_mut EXCEPT ![i] = o][j] = IF j = i THEN o ELSE per_user_mut[j]
  BY SMTT(40), ExceptSeq DEF TypeOK

(* A user's mutex belongs to the call that is in its body for that user. *)
LEMMA UserOwnersStep ==
  ASSUME TypeOK, TypeOK', IndInv, [Next]_vars
  PROVE  UserOwners'
  <1> USE ConstantsAssumption DEF TypeOK, UserOwners
  <1>1. CASE UNCHANGED vars
    BY <1>1 DEF vars, mutexes, tables, IndInv
  <1> SUFFICES ASSUME NEW t \in Threads,
                      \/ \E op \in Ops, u \in Users : Invoke(t, op, u)
                      \/ RejectEmptyPair(t) \/ SpuriousWakeup(t)
                      \/ Step(t)
               PROVE  UserOwners'
    BY <1>1 DEF Next
  <1>2. ASSUME NEW op \in Ops, NEW u \in Users, Invoke(t, op, u) PROVE UserOwners'
    BY <1>2 DEF IndInv, Invoke, Enter, FirstPlace, Goto, mutexes, tables
  <1>3. CASE RejectEmptyPair(t)
    BY <1>3 DEF IndInv, RejectEmptyPair, EmptyCheckPlace, Return, Goto, mutexes, tables
  <1>4. CASE SpuriousWakeup(t)
    BY <1>4 DEF IndInv, SpuriousWakeup, Goto, mutexes, tables
  <1>5. CASE LockAtomicOp(t)
    BY <1>5 DEF IndInv, LockAtomicOp, Goto, mutexes, tables
  <1>6. CASE AwaitNonAtomicOps(t)
    BY <1>6 DEF IndInv, AwaitNonAtomicOps, OwnerAfterWait, Goto, mutexes, tables
  <1>7. CASE InitUserPars(t)
    BY SMTT(40), <1>7 DEF IndInv, InitUserPars, Return, Goto, mutexes, tables
  <1>8. CASE Train(t)
    BY <1>8 DEF IndInv, Train, Goto, mutexes, tables
  <1>9. CASE ClearTrans(t)
    BY <1>9 DEF IndInv, ClearTrans, Goto, mutexes, tables
  <1>10. CASE PrintModels(t)
    BY <1>10 DEF IndInv, PrintModels, Goto, mutexes, tables
  <1>11. CASE UnlockNonAtomicOp(t)
    BY <1>11 DEF IndInv, UnlockNonAtomicOp, Goto, mutexes, tables
  <1>12. CASE UnlockAtomicOp(t)
    BY <1>12 DEF IndInv, UnlockAtomicOp, Goto, mutexes, tables
  <1>13. CASE IncreaseNonAtomicOps(t)
    BY SMTT(40), <1>13 DEF IndInv, IncreaseNonAtomicOps, Goto, mutexes, tables
  <1>14. CASE GetVecIdx(t)
    <2>1. call[t].user \in Users
      BY <1>14 DEF IndInv, PlacesFitOps, GetVecIdx
    <2>2. ASSUME NEW s \in Threads, NEW i \in 1..Len(per_user_mut')
          PROVE  per_user_mut'[i] = s <=> pc'[s] = "body" /\ idx'[s] = i
      <3> DEFINE u == call[t].user
      <3>0. per_user_mut' = MutsWith(u)
        BY <1>14 DEF GetVecIdx
      <3>1. per_user_mut'[i] = IF i <= Len(per_user_mut) THEN per_user_mut[i] ELSE None
        <4>1. i \in 1..Len(MutsWith(u))
          BY <3>0
        <4>2. UsersHaveOwnPlace
          BY DEF IndInv
        <4>3. MutsWith(u)[i] = IF i <= Len(per_user_mut) THEN per_user_mut[i] ELSE None
          BY <2>1, <4>1, <4>2, TablesGrow
        <4> QED BY <3>0, <4>3
      <3>2. (pc'[s] = "body" /\ idx'[s] = i) <=> (pc[s] = "body" /\ idx[s] = i)
        BY SMTT(40), <1>14 DEF GetVecIdx, Goto
      <3>3. CASE i <= Len(per_user_mut)
        <4>1. i \in 1..Len(per_user_mut)
          BY <3>3, LenProperties
        <4> QED BY SMTT(40), <3>1, <3>2, <3>3, <4>1 DEF IndInv
      <3>4. CASE ~(i <= Len(per_user_mut))
        <4>1. ASSUME pc[s] = "body", idx[s] = i PROVE FALSE
          <5>1. i \in 1..Len(per_user_mut)
            BY <4>1, IdxInRange DEF IndInv
          <5> QED BY <3>4, <5>1
        <4> QED BY <3>1, <3>2, <3>4, <4>1
      <3> QED BY <3>3, <3>4
    <2> QED BY <2>2
  <1>15. CASE LockUser(t)
    <2>1. idx[t] \in 1..Len(per_user_mut)
      BY <1>15, IdxInRange DEF IndInv, LockUser
    <2>2. /\ Len(per_user_mut') = Len(per_user_mut)
          /\ \A j \in 1..Len(per_user_mut) :
               per_user_mut'[j] = IF j = idx[t] THEN t ELSE per_user_mut[j]
      BY SMTT(40), <1>15, <2>1, UserMutexUpdate DEF LockUser
    <2> QED BY <1>15, <2>1, <2>2 DEF IndInv, LockUser, UserFree, Goto
  <1>16. CASE UnlockUser(t)
    <2>1. idx[t] \in 1..Len(per_user_mut)
      BY <1>16, IdxInRange DEF IndInv, UnlockUser
    <2>2. /\ Len(per_user_mut') = Len(per_user_mut)
          /\ \A j \in 1..Len(per_user_mut) :
               per_user_mut'[j] = IF j = idx[t] THEN None ELSE per_user_mut[j]
      BY SMTT(40), <1>16, <2>1, UserMutexUpdate DEF UnlockUser
    <2> QED BY <1>16, <2>1, <2>2 DEF IndInv, UnlockUser, Goto
  <1>17. CASE DecreaseNonAtomicOps(t)
    BY SMTT(40), <1>17 DEF IndInv, DecreaseNonAtomicOps, mutexes, tables
  <1>18. CASE ReleaseUserData(t)
    BY <1>18 DEF IndInv, ReleaseUserData, Return, Goto, mutexes, tables
  <1> QED BY <1>2, <1>3, <1>4, <1>5, <1>6, <1>7, <1>8, <1>9,
             <1>10, <1>11, <1>12, <1>13, <1>14, <1>15, <1>16, <1>17, <1>18 DEF Step

(* Replacing one entry of the user vector, with the two values the code
   writes there, changes nothing else. *)
LEMMA UserVarsUpdate ==
  ASSUME TypeOK, NEW i \in 1..Len(perUserVars)
  PROVE  /\ Len([perUserVars EXCEPT ![i] = WithPars(perUserVars[i])]) = Len(perUserVars)
         /\ \A j \in 1..Len(perUserVars) :
              [perUserVars EXCEPT ![i] = WithPars(perUserVars[i])][j].released
                = perUserVars[j].released
         /\ Len([perUserVars EXCEPT ![i] = Freed(perUserVars[i])]) = Len(perUserVars)
         /\ \A j \in 1..Len(perUserVars) \ {i} :
              [perUserVars EXCEPT ![i] = Freed(perUserVars[i])][j] = perUserVars[j]
  <1>1. perUserVars[i] \in [released : BOOLEAN, parsSet : BOOLEAN]
    BY ElementOfSeq DEF TypeOK
  <1>2. /\ WithPars(perUserVars[i]) \in [released : BOOLEAN, parsSet : BOOLEAN]
        /\ Freed(perUserVars[i]) \in [released : BOOLEAN, parsSet : BOOLEAN]
        /\ WithPars(perUserVars[i]).released = perUserVars[i].released
    BY <1>1 DEF WithPars, Freed
  <1> QED BY <1>2, ExceptSeq DEF TypeOK

(* Every known user keeps a place of its own. *)
LEMMA UsersHaveOwnPlaceStep ==
  ASSUME TypeOK, TypeOK', IndInv, [Next]_vars
  PROVE  UsersHaveOwnPlace'
  <1> USE ConstantsAssumption DEF UsersHaveOwnPlace
  <1>1. CASE UNCHANGED vars
    BY <1>1 DEF vars, mutexes, tables, IndInv
  <1> SUFFICES ASSUME NEW t \in Threads,
                      \/ \E op \in Ops, u \in Users : Invoke(t, op, u)
                      \/ RejectEmptyPair(t) \/ SpuriousWakeup(t)
                      \/ Step(t)
               PROVE  UsersHaveOwnPlace'
    BY <1>1 DEF Next
  <1>2. ASSUME NEW op \in Ops, NEW u \in Users, Invoke(t, op, u) PROVE UsersHaveOwnPlace'
    BY <1>2 DEF IndInv, Invoke, Enter, FirstPlace, Goto, mutexes, tables
  <1>3. CASE RejectEmptyPair(t)
    BY <1>3 DEF IndInv, RejectEmptyPair, EmptyCheckPlace, Return, Goto, mutexes, tables
  <1>4. CASE SpuriousWakeup(t)
    BY <1>4 DEF IndInv, SpuriousWakeup, Goto, mutexes, tables
  <1>5. CASE LockAtomicOp(t)
    BY <1>5 DEF IndInv, LockAtomicOp, Goto, mutexes, tables
  <1>6. CASE AwaitNonAtomicOps(t)
    BY <1>6 DEF IndInv, AwaitNonAtomicOps, OwnerAfterWait, Goto, mutexes, tables
  <1>7. CASE InitUserPars(t)
    <2>1. idx[t] \in 1..Len(perUserVars)
      BY <1>7, IdxInRange DEF IndInv, InitUserPars
    <2>2. Len(perUserVars') = Len(perUserVars)
      BY <1>7, <2>1, UserVarsUpdate DEF InitUserPars
    <2> QED BY <1>7, <2>2 DEF IndInv, InitUserPars, mutexes
  <1>8. CASE Train(t)
    BY <1>8 DEF IndInv, Train, Goto, mutexes, tables
  <1>9. CASE ClearTrans(t)
    <2>1. DOMAIN userIdToIdx' = {} /\ Len(perUserVars') = 0 /\ per_user_mut' = per_user_mut
      BY <1>9 DEF ClearTrans, NoUsers, mutexes
    <2>2. Len(per_user_mut) \in Nat
      BY LenProperties DEF TypeOK
    <2> QED BY <2>1, <2>2
  <1>10. CASE PrintModels(t)
    BY <1>10 DEF IndInv, PrintModels, Goto, mutexes, tables
  <1>11. CASE UnlockNonAtomicOp(t)
    BY <1>11 DEF IndInv, UnlockNonAtomicOp, Goto, mutexes, tables
  <1>12. CASE UnlockAtomicOp(t)
    BY <1>12 DEF IndInv, UnlockAtomicOp, Goto, mutexes, tables
  <1>13. CASE IncreaseNonAtomicOps(t)
    BY <1>13 DEF IndInv, IncreaseNonAtomicOps, Goto, mutexes, tables
  <1>14. CASE GetVecIdx(t)
    <2> DEFINE u == call[t].user
    <2>1. u \in Users
      BY <1>14 DEF TypeOK, IndInv, PlacesFitOps, GetVecIdx
    <2>2. /\ userIdToIdx' = MapWith(u) /\ perUserVars' = VarsWith(u)
          /\ per_user_mut' = MutsWith(u)
      BY <1>14 DEF GetVecIdx
    <2>3. Len(perUserVars) \in Nat
      BY LenProperties DEF TypeOK
    <2>4. /\ Len(perUserVars') >= Len(perUserVars)
          /\ Len(perUserVars') <= Len(per_user_mut')
          /\ DOMAIN userIdToIdx' = DOMAIN userIdToIdx \cup {u}
          /\ userIdToIdx'[u] \in 1..Len(perUserVars')
          /\ ~Known(u) => userIdToIdx'[u] = Len(perUserVars) + 1
          /\ \A v \in DOMAIN userIdToIdx : userIdToIdx'[v] = userIdToIdx[v]
      BY ZenonT(60), <2>1, <2>2, TablesGrow DEF IndInv
    <2>5. /\ Len(perUserVars') \in Nat
          /\ \A v \in DOMAIN userIdToIdx :
               /\ userIdToIdx[v] \in 1..Len(perUserVars)
               /\ \A w \in DOMAIN userIdToIdx : userIdToIdx[v] = userIdToIdx[w] => v = w
      BY LenProperties DEF TypeOK, IndInv
    <2>6. ASSUME NEW v \in DOMAIN userIdToIdx'
          PROVE  userIdToIdx'[v] \in 1..Len(perUserVars')
      <3>1. CASE v = u
        BY <2>4, <3>1
      <3>2. CASE v \in DOMAIN userIdToIdx
        BY <2>3, <2>4, <2>5, <3>2
      <3> QED BY <2>4, <3>1, <3>2
    <2>7. ASSUME NEW v \in DOMAIN userIdToIdx', NEW w \in DOMAIN userIdToIdx',
                 userIdToIdx'[v] = userIdToIdx'[w]
          PROVE  v = w
      <3>1. CASE Known(u)
        BY <2>4, <2>5, <2>7, <3>1 DEF Known
      <3>2. CASE ~Known(u)
        <4>1. \A x \in DOMAIN userIdToIdx : userIdToIdx'[x] # Len(perUserVars) + 1
          BY <2>3, <2>4, <2>5
        <4> QED BY <2>4, <2>5, <2>7, <3>2, <4>1
      <3> QED BY <3>1, <3>2
    <2> QED BY <2>4, <2>6, <2>7
  <1>15. CASE LockUser(t)
    <2>1. idx[t] \in 1..Len(per_user_mut)
      BY <1>15, IdxInRange DEF IndInv, LockUser
    <2>2. Len(per_user_mut') = Len(per_user_mut)
      BY <1>15, <2>1, UserMutexUpdate DEF LockUser
    <2> QED BY <1>15, <2>2 DEF IndInv, LockUser, tables
  <1>16. CASE UnlockUser(t)
    <2>1. idx[t] \in 1..Len(per_user_mut)
      BY <1>16, IdxInRange DEF IndInv, UnlockUser
    <2>2. Len(per_user_mut') = Len(per_user_mut)
      BY <1>16, <2>1, UserMutexUpdate DEF UnlockUser
    <2> QED BY <1>16, <2>2 DEF IndInv, UnlockUser, tables
  <1>17. CASE DecreaseNonAtomicOps(t)
    BY <1>17 DEF IndInv, DecreaseNonAtomicOps, mutexes, tables
  <1>18. CASE ReleaseUserData(t)
    <2>1. Len(perUserVars') = Len(perUserVars)
      BY <1>18, IdxInRange, UserVarsUpdate DEF IndInv, ReleaseUserData, ReleasedIdx, Known
    <2> QED BY <1>18, <2>1 DEF IndInv, ReleaseUserData, mutexes
  <1> QED BY <1>2, <1>3, <1>4, <1>5, <1>6, <1>7, <1>8, <1>9,
             <1>10, <1>11, <1>12, <1>13, <1>14, <1>15, <1>16, <1>17, <1>18 DEF Step

(* The index a call has read stays the index of its user. *)
LEMMA IdxIsCurrentStep ==
  ASSUME TypeOK, TypeOK', IndInv, [Next]_vars
  PROVE  IdxIsCurrent'
  <1> USE ConstantsAssumption DEF TypeOK, IdxIsCurrent, Known
  <1>1. CASE UNCHANGED vars
    BY <1>1 DEF vars, mutexes, tables, IndInv
  <1> SUFFICES ASSUME NEW t \in Threads,
                      \/ \E op \in Ops, u \in Users : Invoke(t, op, u)
                      \/ RejectEmptyPair(t) \/ SpuriousWakeup(t)
                      \/ Step(t)
               PROVE  IdxIsCurrent'
    BY <1>1 DEF Next
  <1>2. ASSUME NEW op \in Ops, NEW u \in Users, Invoke(t, op, u) PROVE IdxIsCurrent'
    BY <1>2 DEF IndInv, Invoke, Enter, FirstPlace, Goto, mutexes, tables
  <1>3. CASE RejectEmptyPair(t)
    BY <1>3 DEF IndInv, RejectEmptyPair, EmptyCheckPlace, Return, Goto, mutexes, tables
  <1>4. CASE SpuriousWakeup(t)
    BY <1>4 DEF IndInv, SpuriousWakeup, Goto, mutexes, tables
  <1>5. CASE LockAtomicOp(t)
    BY <1>5 DEF IndInv, LockAtomicOp, Goto, mutexes, tables
  <1>6. CASE AwaitNonAtomicOps(t)
    BY <1>6 DEF IndInv, AwaitNonAtomicOps, OwnerAfterWait, Goto, mutexes, tables
  <1>7. CASE InitUserPars(t)
    BY SMTT(40), <1>7 DEF IndInv, InitUserPars, Return, Goto, mutexes, tables
  <1>8. CASE Train(t)
    BY <1>8 DEF IndInv, Train, Goto, mutexes, tables
  <1>9. CASE ClearTrans(t)
    <2>1. \A s \in Threads \ {t} : pc[s] \notin {"lockuser", "body", "work"}
      BY <1>9, AloneExcludes DEF ClearTrans, Counted, HoldsAtomicOp
    <2> QED BY <1>9, <2>1 DEF TypeOK, ClearTrans, Goto
  <1>10. CASE PrintModels(t)
    BY <1>10 DEF IndInv, PrintModels, Goto, mutexes, tables
  <1>11. CASE UnlockNonAtomicOp(t)
    BY <1>11 DEF IndInv, UnlockNonAtomicOp, Goto, mutexes, tables
  <1>12. CASE UnlockAtomicOp(t)
    BY <1>12 DEF IndInv, UnlockAtomicOp, Goto, mutexes, tables
  <1>13. CASE IncreaseNonAtomicOps(t)
    BY <1>13 DEF IndInv, IncreaseNonAtomicOps, Goto, mutexes, tables
  <1>14. CASE GetVecIdx(t)
    <2> DEFINE u == call[t].user
    <2>1. u \in Users
      BY <1>14 DEF TypeOK, IndInv, PlacesFitOps, GetVecIdx
    <2>2. userIdToIdx' = MapWith(u) /\ idx' = [idx EXCEPT ![t] = IdxFor(u)] /\ call' = call
      BY <1>14 DEF GetVecIdx
    <2>3. \A s \in Threads \ {t} : pc'[s] = pc[s]
      BY SMTT(40), <1>14 DEF GetVecIdx, Goto
    <2>4. /\ DOMAIN userIdToIdx' = DOMAIN userIdToIdx \cup {u}
          /\ userIdToIdx'[u] = IdxFor(u)
          /\ \A v \in DOMAIN userIdToIdx : userIdToIdx'[v] = userIdToIdx[v]
      BY ZenonT(60), <2>1, <2>2, TablesGrow DEF IndInv
    <2>5. idx'[t] = IdxFor(u) /\ \A s \in Threads \ {t} : idx'[s] = idx[s]
      BY <2>2 DEF TypeOK
    <2>6. ASSUME NEW s \in Threads, pc'[s] \in {"lockuser", "body", "work"}
          PROVE  /\ call'[s].user \in DOMAIN userIdToIdx'
                 /\ idx'[s] = userIdToIdx'[call'[s].user]
      <3>1. CASE s = t
        BY <2>2, <2>4, <2>5, <3>1
      <3>2. CASE s # t
        BY SMTT(40), <2>2, <2>3, <2>4, <2>5, <2>6, <3>2 DEF IndInv
      <3> QED BY <3>1, <3>2
    <2> QED BY <2>6
  <1>15. CASE LockUser(t)
    BY <1>15 DEF IndInv, LockUser, UserFree, Goto, mutexes, tables
  <1>16. CASE UnlockUser(t)
    BY <1>16 DEF IndInv, UnlockUser, Goto, mutexes, tables
  <1>17. CASE DecreaseNonAtomicOps(t)
    BY <1>17 DEF IndInv, DecreaseNonAtomicOps, mutexes, tables
  <1>18. CASE ReleaseUserData(t)
    BY <1>18 DEF IndInv, ReleaseUserData, Return, Goto, mutexes, tables
  <1> QED BY <1>2, <1>3, <1>4, <1>5, <1>6, <1>7, <1>8, <1>9,
             <1>10, <1>11, <1>12, <1>13, <1>14, <1>15, <1>16, <1>17, <1>18 DEF Step

(* Released data belong to users whose calls have all returned. *)
LEMMA ReleasedLastStep ==
  ASSUME TypeOK, TypeOK', IndInv, [Next]_vars
  PROVE  ReleasedLast'
  <1> USE ConstantsAssumption DEF ReleasedLast
  <1>1. CASE UNCHANGED vars
    BY <1>1 DEF vars, mutexes, tables, IndInv
  <1> SUFFICES ASSUME NEW t \in Threads,
                      \/ \E op \in Ops, u \in Users : Invoke(t, op, u)
                      \/ RejectEmptyPair(t) \/ SpuriousWakeup(t)
                      \/ Step(t)
               PROVE  ReleasedLast'
    BY <1>1 DEF Next
  <1>2. ASSUME NEW op \in Ops, NEW u \in Users, Invoke(t, op, u) PROVE ReleasedLast'
    <2>1. /\ pc[t] = "idle" /\ call' = [call EXCEPT ![t] = [op |-> op, user |-> u]]
          /\ UNCHANGED tables
          /\ \A s \in Threads \ {t} : pc'[s] = pc[s]
      BY <1>2 DEF TypeOK, Invoke, Enter, Goto
    <2>2. /\ call[t].op = "none" /\ call[t].user = None
          /\ call'[t].op = op /\ call'[t].user = u
          /\ \A s \in Threads \ {t} : call'[s] = call[s]
      BY <2>1 DEF TypeOK, IndInv, PlacesFitOps
    <2>3. ASSUME NEW v \in DOMAIN userIdToIdx', perUserVars'[userIdToIdx'[v]].released
          PROVE  \E s \in Threads : call'[s] = [op |-> "release_user_data", user |-> v]
      <3>1. PICK s \in Threads : call[s] = [op |-> "release_user_data", user |-> v]
        BY <2>1, <2>3 DEF IndInv, tables
      <3>2. s # t
        BY <2>2, <3>1
      <3> QED BY <2>2, <3>1, <3>2
    <2>4. ASSUME NEW s \in Threads, NEW r \in Threads, s # r,
                 call'[s].op = "release_user_data", call'[r].user = call'[s].user
          PROVE  pc'[r] = "done"
      <3>1. CASE s = t
        BY <1>2, <2>1, <2>2, <2>4, <3>1 DEF Invoke, MayCall
      <3>2. CASE r = t
        BY <1>2, <2>2, <2>4, <3>2 DEF Invoke, MayCall
      <3>3. CASE s # t /\ r # t
        BY <2>1, <2>2, <2>4, <3>3 DEF IndInv
      <3> QED BY <3>1, <3>2, <3>3
    <2> QED BY <2>3, <2>4
  <1>3. CASE RejectEmptyPair(t)
    BY SMTT(40), <1>3 DEF TypeOK, IndInv, RejectEmptyPair, EmptyCheckPlace, Return, Goto, mutexes, tables
  <1>4. CASE SpuriousWakeup(t)
    BY <1>4 DEF TypeOK, IndInv, SpuriousWakeup, Goto, mutexes, tables
  <1>5. CASE LockAtomicOp(t)
    BY <1>5 DEF TypeOK, IndInv, LockAtomicOp, Goto, mutexes, tables
  <1>6. CASE AwaitNonAtomicOps(t)
    BY SMTT(40), <1>6 DEF TypeOK, IndInv, AwaitNonAtomicOps, OwnerAfterWait, Goto, mutexes, tables
  <1>7. CASE InitUserPars(t)
    <2>1. idx[t] \in 1..Len(perUserVars)
      BY <1>7, IdxInRange DEF IndInv, InitUserPars
    <2>2. \A i \in 1..Len(perUserVars) : perUserVars'[i].released = perUserVars[i].released
      BY <1>7, <2>1, UserVarsUpdate DEF InitUserPars
    <2>3. \A u \in DOMAIN userIdToIdx : userIdToIdx[u] \in 1..Len(perUserVars)
      BY DEF IndInv, UsersHaveOwnPlace
    <2>4. /\ userIdToIdx' = userIdToIdx /\ call' = call
          /\ \A s \in Threads : pc[s] = "done" => pc'[s] = "done"
      BY <1>7 DEF TypeOK, InitUserPars, Return, Goto
    <2>5. \A u \in DOMAIN userIdToIdx :
            perUserVars'[userIdToIdx[u]].released => perUserVars[userIdToIdx[u]].released
      BY <2>2, <2>3
    <2> QED BY <2>4, <2>5 DEF IndInv
  <1>8. CASE Train(t)
    BY <1>8 DEF TypeOK, IndInv, Train, Goto, mutexes, tables
  <1>9. CASE ClearTrans(t)
    BY SMTT(40), <1>9 DEF TypeOK, IndInv, ClearTrans, NoUsers, Goto
  <1>10. CASE PrintModels(t)
    BY <1>10 DEF TypeOK, IndInv, PrintModels, Goto, mutexes, tables
  <1>11. CASE UnlockNonAtomicOp(t)
    BY <1>11 DEF TypeOK, IndInv, UnlockNonAtomicOp, Goto, mutexes, tables
  <1>12. CASE UnlockAtomicOp(t)
    BY <1>12 DEF TypeOK, IndInv, UnlockAtomicOp, Goto, mutexes, tables
  <1>13. CASE IncreaseNonAtomicOps(t)
    BY SMTT(40), <1>13 DEF TypeOK, IndInv, IncreaseNonAtomicOps, Goto, mutexes, tables
  <1>14. CASE GetVecIdx(t)
    <2> DEFINE u == call[t].user
    <2>1. u \in Users
      BY <1>14 DEF TypeOK, IndInv, PlacesFitOps, GetVecIdx
    <2>2. userIdToIdx' = MapWith(u) /\ perUserVars' = VarsWith(u) /\ call' = call
      BY <1>14 DEF GetVecIdx
    <2>3. \A s \in Threads : pc[s] = "done" => pc'[s] = "done"
      BY <1>14 DEF TypeOK, GetVecIdx, Goto
    <2>4. /\ DOMAIN userIdToIdx' = DOMAIN userIdToIdx \cup {u}
          /\ userIdToIdx'[u] = IdxFor(u)
          /\ \A v \in DOMAIN userIdToIdx : userIdToIdx'[v] = userIdToIdx[v]
          /\ \A i \in 1..Len(perUserVars) : perUserVars'[i] = perUserVars[i]
          /\ ~Known(u) => perUserVars'[IdxFor(u)] = NewUserVars
      <3>1. UsersHaveOwnPlace
        BY DEF IndInv
      <3>2. /\ DOMAIN MapWith(u) = DOMAIN userIdToIdx \cup {u}
            /\ MapWith(u)[u] = IdxFor(u)
            /\ \A v \in DOMAIN userIdToIdx : MapWith(u)[v] = userIdToIdx[v]
            /\ \A i \in 1..Len(perUserVars) : VarsWith(u)[i] = perUserVars[i]
            /\ ~Known(u) => VarsWith(u)[IdxFor(u)] = NewUserVars
        BY <2>1, <3>1, TablesGrow
      <3> QED BY <2>2, <3>2
    <2>5. \A v \in DOMAIN userIdToIdx : userIdToIdx[v] \in 1..Len(perUserVars)
      BY DEF IndInv, UsersHaveOwnPlace
    <2>6. ASSUME NEW v \in DOMAIN userIdToIdx', perUserVars'[userIdToIdx'[v]].released
          PROVE  v \in DOMAIN userIdToIdx /\ perUserVars[userIdToIdx[v]].released
      <3>1. CASE v \in DOMAIN userIdToIdx
        BY <2>4, <2>5, <2>6, <3>1
      <3>2. CASE v \notin DOMAIN userIdToIdx
        <4>1. v = u /\ ~Known(u)
          BY <2>4, <3>2 DEF Known
        <4> QED BY <2>4, <2>6, <4>1 DEF NewUserVars
      <3> QED BY <3>1, <3>2
    <2> QED BY <2>2, <2>3, <2>6 DEF IndInv
  <1>15. CASE LockUser(t)
    BY <1>15 DEF TypeOK, IndInv, LockUser, UserFree, Goto, mutexes, tables
  <1>16. CASE UnlockUser(t)
    BY <1>16 DEF TypeOK, IndInv, UnlockUser, Goto, mutexes, tables
  <1>17. CASE DecreaseNonAtomicOps(t)
    <2>1. \A s \in Threads : pc[s] = "done" => pc'[s] = "done"
      BY <1>17 DEF DecreaseNonAtomicOps
    <2> QED BY <1>17, <2>1 DEF IndInv, DecreaseNonAtomicOps, tables
  <1>18. CASE ReleaseUserData(t)
    <2> DEFINE u == call[t].user
    <2>1. call[t] = [op |-> "release_user_data", user |-> u]
      BY <1>18 DEF TypeOK, IndInv, PlacesFitOps, ReleaseUserData
    <2>2. /\ userIdToIdx' = userIdToIdx /\ call' = call
          /\ \A s \in Threads : pc[s] = "done" => pc'[s] = "done"
      BY <1>18 DEF TypeOK, ReleaseUserData, Return, Goto
    <2>3. \A v \in DOMAIN userIdToIdx : userIdToIdx[v] \in 1..Len(perUserVars)
      BY DEF IndInv, UsersHaveOwnPlace
    <2>4. ASSUME NEW v \in DOMAIN userIdToIdx, perUserVars'[userIdToIdx[v]].released, v # u
          PROVE  perUserVars[userIdToIdx[v]].released
      <3>1. CASE ~Known(u)
        BY <1>18, <2>4, <3>1 DEF ReleaseUserData
      <3>2. CASE Known(u)
        <4>1. userIdToIdx[u] \in 1..Len(perUserVars) /\ userIdToIdx[v] # userIdToIdx[u]
          BY <2>4, <3>2 DEF IndInv, UsersHaveOwnPlace, Known
        <4>2. perUserVars' = [perUserVars EXCEPT ![userIdToIdx[u]] = Freed(perUserVars[userIdToIdx[u]])]
          BY <1>18, <3>2 DEF ReleaseUserData, ReleasedIdx
        <4>3. perUserVars'[userIdToIdx[v]] = perUserVars[userIdToIdx[v]]
          BY <2>3, <4>1, <4>2, UserVarsUpdate
        <4> QED BY <2>4, <4>3
      <3> QED BY <3>1, <3>2
    <2> QED BY <2>1, <2>2, <2>4 DEF IndInv
  <1> QED BY <1>2, <1>3, <1>4, <1>5, <1>6, <1>7, <1>8, <1>9,
             <1>10, <1>11, <1>12, <1>13, <1>14, <1>15, <1>16, <1>17, <1>18 DEF Step

(* The invariant holds at the start and is kept by every step. *)
LEMMA InitInv == Init => TypeOK /\ IndInv
  <1> SUFFICES ASSUME Init PROVE TypeOK /\ IndInv
    OBVIOUS
  <1> USE ConstantsAssumption DEF Init
  <1>1. TypeOK
    BY DEF TypeOK, NoUsers, Places, Results
  <1>2. AtomicOpOwner /\ NonAtomicOpOwner /\ UserOwners
    BY DEF AtomicOpOwner, NonAtomicOpOwner, UserOwners, HoldsAtomicOp, HoldsNonAtomicOp, Leaked
  <1>3. CountedThreads = {}
    BY DEF CountedThreads, Counted
  <1>4. CounterCountsOps /\ GateClosed
    BY <1>3, FS_EmptySet DEF CounterCountsOps, GateClosed
  <1>5. PlacesFitOps
    BY DEF PlacesFitOps, Counted, ExclusiveOps, NonAtomicOps
  <1>6. UsersHaveOwnPlace /\ IdxIsCurrent /\ SeenIsCurrent
    BY DEF UsersHaveOwnPlace, IdxIsCurrent, SeenIsCurrent, NoUsers
  <1>7. ReleasedLast
    BY DEF ReleasedLast, NoUsers
  <1> QED BY <1>1, <1>2, <1>4, <1>5, <1>6, <1>7 DEF IndInv

LEMMA StepInv ==
  ASSUME TypeOK, IndInv, [Next]_vars
  PROVE  TypeOK' /\ IndInv'
  <1>1. TypeOK'
    BY TypeStep
  <1> QED BY <1>1, AtomicOpOwnerStep, NonAtomicOpOwnerStep, UserOwnersStep, GateStep,
             PlacesFitOpsStep, UsersHaveOwnPlaceStep, IdxIsCurrentStep, ReleasedLastStep,
             SeenIsCurrentStep DEF IndInv

(* Every reachable state has the types of TypeOK. *)
THEOREM TypeCorrect == Spec => []TypeOK
  <1>1. Spec => [](TypeOK /\ IndInv)
    BY InitInv, StepInv, PTL DEF Spec
  <1> QED BY <1>1, PTL

(* Every reachable state satisfies the inductive invariant: the owners of the
   mutexes, the meaning of the counter and of the user tables. *)
THEOREM Invariance == Spec => []IndInv
  <1>1. Spec => [](TypeOK /\ IndInv)
    BY InitInv, StepInv, PTL DEF Spec
  <1> QED BY <1>1, PTL

(* For any number of calls: an atomic operation runs alone. *)
THEOREM AtomicOpsRunAlone == Spec => []AtomicRunsAlone
  <1>1. TypeOK /\ IndInv => AtomicRunsAlone
    BY AloneExcludes DEF AtomicRunsAlone, HoldsAtomicOp
  <1> QED BY <1>1, TypeCorrect, Invariance, PTL

(* For any number of calls and users: one thread at a time works on a user's
   decoder. *)
THEOREM UserMutualExclusion == Spec => []OneThreadPerUser
  <1>1. TypeOK /\ IndInv => OneThreadPerUser
    <2> SUFFICES ASSUME TypeOK, IndInv, NEW t \in Threads, NEW s \in Threads, t # s,
                        pc[t] = "body", pc[s] \in {"body", "work"}
                 PROVE  pc[s] = "body" /\ call[t].user # call[s].user
      BY DEF OneThreadPerUser
    <2>1. pc[s] = "body"
      BY AloneExcludes DEF Counted
    <2>2. idx[t] \in 1..Len(per_user_mut)
      BY IdxInRange DEF IndInv
    <2>3. idx[s] # idx[t]
      <3>1. per_user_mut[idx[t]] = t
        BY <2>2 DEF IndInv, UserOwners
      <3>2. idx[s] = idx[t] => per_user_mut[idx[t]] = s
        BY <2>1, <2>2 DEF IndInv, UserOwners
      <3> QED BY <3>1, <3>2
    <2> QED BY <2>1, <2>3 DEF IndInv, IdxIsCurrent
  <1> QED BY <1>1, TypeCorrect, Invariance, PTL

(* The models do not change under an operation. *)
THEOREM ModelsStable == Spec => []ModelsStableInBody
  <1>1. IndInv => ModelsStableInBody
    BY DEF IndInv, SeenIsCurrent, ModelsStableInBody
  <1> QED BY <1>1, Invariance, PTL

(* No operation works on freed user data, for callers that respect MayCall. *)
THEOREM NoUseAfterRelease == Spec => []NoFreedUserInUse
  <1>1. TypeOK /\ IndInv => NoFreedUserInUse
    <2> SUFFICES ASSUME TypeOK, IndInv, NEW t \in Threads, pc[t] \in {"lockuser", "body", "work"}
                 PROVE  /\ idx[t] \in 1..Len(perUserVars)
                        /\ ~perUserVars[idx[t]].released
                        /\ Known(call[t].user) /\ userIdToIdx[call[t].user] = idx[t]
      BY DEF NoFreedUserInUse
    <2>1. idx[t] \in 1..Len(perUserVars)
      BY IdxInRange DEF IndInv
    <2>2. Known(call[t].user) /\ userIdToIdx[call[t].user] = idx[t]
      BY DEF IndInv, IdxIsCurrent
    <2>3. ASSUME perUserVars[idx[t]].released PROVE FALSE
      <3>1. PICK s \in Threads : call[s] = [op |-> "release_user_data", user |-> call[t].user]
        BY <2>2, <2>3 DEF IndInv, ReleasedLast, Known
      <3>2. s = t
        BY <3>1 DEF IndInv, ReleasedLast
      <3> QED BY <3>1, <3>2 DEF IndInv, PlacesFitOps, Counted, NonAtomicOps, ExclusiveOps
    <2> QED BY <2>1, <2>2, <2>3
  <1> QED BY <1>1, TypeCorrect, Invariance, PTL

(* A step that moves no call into or out of the counted places and leaves
   non_atomic_op_mut is no step of the gate. *)
LEMMA GateModeFrame ==
  ASSUME \A s \in Threads : pc'[s] \in Counted <=> pc[s] \in Counted,
         non_atomic_op_mut' = non_atomic_op_mut
  PROVE  [Gate!GateNext]_gateMode
  BY DEF gateMode

(* Every step of ThotDecoder is a step of OpGate or leaves the gate alone. *)
LEMMA GateMapping ==
  ASSUME TypeOK, TypeOK', IndInv, [Next]_vars
  PROVE  [Gate!GateNext]_gateMode
  <1> USE ConstantsAssumption DEF TypeOK
  <1>1. CASE UNCHANGED vars
    BY <1>1 DEF vars, mutexes, gateMode
  <1> SUFFICES ASSUME NEW t \in Threads,
                      \/ \E op \in Ops, u \in Users : Invoke(t, op, u)
                      \/ RejectEmptyPair(t) \/ SpuriousWakeup(t)
                      \/ Step(t)
               PROVE  [Gate!GateNext]_gateMode
    BY <1>1 DEF Next
  <1>2. ASSUME NEW op \in Ops, NEW u \in Users, Invoke(t, op, u) PROVE [Gate!GateNext]_gateMode
    <2>1. \A s \in Threads : pc'[s] \in Counted <=> pc[s] \in Counted
      BY <1>2 DEF Invoke, Enter, FirstPlace, Goto, Counted
    <2>2. non_atomic_op_mut' = non_atomic_op_mut
      BY <1>2 DEF Invoke, Enter, mutexes
    <2> QED BY <2>1, <2>2, GateModeFrame
  <1>3. CASE RejectEmptyPair(t)
    <2>1. \A s \in Threads : pc'[s] \in Counted <=> pc[s] \in Counted
      BY <1>3 DEF RejectEmptyPair, EmptyCheckPlace, Return, Goto, Counted
    <2>2. non_atomic_op_mut' = non_atomic_op_mut
      BY <1>3 DEF RejectEmptyPair, mutexes
    <2> QED BY <2>1, <2>2, GateModeFrame
  <1>4. CASE SpuriousWakeup(t)
    <2>1. \A s \in Threads : pc'[s] \in Counted <=> pc[s] \in Counted
      BY <1>4 DEF SpuriousWakeup, Goto, Counted
    <2>2. non_atomic_op_mut' = non_atomic_op_mut
      BY <1>4 DEF SpuriousWakeup, mutexes
    <2> QED BY <2>1, <2>2, GateModeFrame
  <1>5. CASE LockAtomicOp(t)
    <2>1. \A s \in Threads : pc'[s] \in Counted <=> pc[s] \in Counted
      BY <1>5 DEF LockAtomicOp, Goto, Counted
    <2>2. non_atomic_op_mut' = non_atomic_op_mut
      BY <1>5 DEF LockAtomicOp, mutexes
    <2> QED BY <2>1, <2>2, GateModeFrame
  <1>6. CASE AwaitNonAtomicOps(t)
    <2>1. \A s \in Threads : pc'[s] \in Counted <=> pc[s] \in Counted
      BY <1>6 DEF AwaitNonAtomicOps, Goto, Counted
    <2>2. CASE NonAtomicOpsRunning
      BY <1>6, <2>1, <2>2, GateModeFrame DEF AwaitNonAtomicOps
    <2>3. CASE ~NonAtomicOpsRunning
      <3>1. Cardinality(CountedThreads) = 0
        BY SMTT(40), <2>3 DEF IndInv, CounterCountsOps, NonAtomicOpsRunning
      <3>2. CountedThreads = {}
        BY <3>1, FS_Subset, FS_EmptySet DEF CountedThreads
      <3>3. non_atomic_op_mut = None /\ non_atomic_op_mut' = t
        BY <1>6, <2>3 DEF AwaitNonAtomicOps, OwnerAfterWait
      <3>4. \A s \in Threads : pc[s] \notin Counted
        BY <3>2 DEF CountedThreads
      <3>5. \A s \in Threads : gateMode[s] = "out"
        BY <3>3, <3>4 DEF gateMode
      <3>6. gateMode' = [gateMode EXCEPT ![t] = "atomic"]
        BY ZenonT(60), <2>1, <3>3, <3>4 DEF gateMode
      <3> QED BY <3>5, <3>6 DEF Gate!GateNext, Gate!EnterAtomic
    <2> QED BY <2>2, <2>3
  <1>7. CASE InitUserPars(t)
    <2>1. \A s \in Threads : pc'[s] \in Counted <=> pc[s] \in Counted
      BY ZenonT(60), <1>7 DEF InitUserPars, Return, Goto, Counted
    <2>2. non_atomic_op_mut' = non_atomic_op_mut
      BY <1>7 DEF InitUserPars, mutexes
    <2> QED BY <2>1, <2>2, GateModeFrame
  <1>8. CASE Train(t)
    <2>1. \A s \in Threads : pc'[s] \in Counted <=> pc[s] \in Counted
      BY <1>8 DEF Train, Goto, Counted
    <2>2. non_atomic_op_mut' = non_atomic_op_mut
      BY <1>8 DEF Train, mutexes
    <2> QED BY <2>1, <2>2, GateModeFrame
  <1>9. CASE ClearTrans(t)
    <2>1. \A s \in Threads : pc'[s] \in Counted <=> pc[s] \in Counted
      BY <1>9 DEF ClearTrans, Goto, Counted
    <2>2. non_atomic_op_mut' = non_atomic_op_mut
      BY <1>9 DEF ClearTrans, mutexes
    <2> QED BY <2>1, <2>2, GateModeFrame
  <1>10. CASE PrintModels(t)
    <2>1. \A s \in Threads : pc'[s] \in Counted <=> pc[s] \in Counted
      BY <1>10 DEF PrintModels, Goto, Counted
    <2>2. non_atomic_op_mut' = non_atomic_op_mut
      BY <1>10 DEF PrintModels, mutexes
    <2> QED BY <2>1, <2>2, GateModeFrame
  <1>11. CASE UnlockNonAtomicOp(t)
    <2>1. /\ pc[t] = "unlocknonatomic"
          /\ \A s \in Threads : pc'[s] \in Counted <=> pc[s] \in Counted
      BY <1>11 DEF UnlockNonAtomicOp, Goto, Counted
    <2>2. non_atomic_op_mut = t /\ \A s \in Threads : pc[s] \notin Counted
      BY <2>1, AloneExcludes
    <2>3. non_atomic_op_mut' = None
      BY <1>11 DEF UnlockNonAtomicOp
    <2>4. gateMode[t] = "atomic"
      BY <2>2 DEF gateMode
    <2>5. gateMode' = [gateMode EXCEPT ![t] = "out"]
      BY ZenonT(60), <2>1, <2>2, <2>3 DEF gateMode
    <2> QED BY <2>4, <2>5 DEF Gate!GateNext, Gate!Leave
  <1>12. CASE UnlockAtomicOp(t)
    <2>1. \A s \in Threads : pc'[s] \in Counted <=> pc[s] \in Counted
      BY <1>12 DEF UnlockAtomicOp, Goto, Counted
    <2>2. non_atomic_op_mut' = non_atomic_op_mut
      BY <1>12 DEF UnlockAtomicOp, mutexes
    <2> QED BY <2>1, <2>2, GateModeFrame
  <1>13. CASE IncreaseNonAtomicOps(t)
    <2>1. /\ pc[t] \notin Counted /\ pc'[t] \in Counted
          /\ \A s \in Threads \ {t} : pc'[s] = pc[s]
      BY <1>13 DEF IncreaseNonAtomicOps, Goto, Counted
    <2>2. non_atomic_op_mut = None /\ non_atomic_op_mut' = None
      BY <1>13 DEF IncreaseNonAtomicOps, mutexes
    <2>3. gateMode[t] = "out" /\ \A s \in Threads : gateMode[s] # "atomic"
      BY <2>1, <2>2 DEF gateMode
    <2>4. gateMode' = [gateMode EXCEPT ![t] = "nonatomic"]
      BY <2>1, <2>2 DEF gateMode
    <2> QED BY <2>3, <2>4 DEF Gate!GateNext, Gate!EnterNonAtomic
  <1>14. CASE GetVecIdx(t)
    <2>1. \A s \in Threads : pc'[s] \in Counted <=> pc[s] \in Counted
      BY SMTT(40), <1>14 DEF GetVecIdx, Goto, Counted
    <2>2. non_atomic_op_mut' = non_atomic_op_mut
      BY <1>14 DEF GetVecIdx, mutexes
    <2> QED BY <2>1, <2>2, GateModeFrame
  <1>15. CASE LockUser(t)
    <2>1. \A s \in Threads : pc'[s] \in Counted <=> pc[s] \in Counted
      BY <1>15 DEF LockUser, UserFree, Goto, Counted
    <2>2. non_atomic_op_mut' = non_atomic_op_mut
      BY <1>15 DEF LockUser, mutexes
    <2> QED BY <2>1, <2>2, GateModeFrame
  <1>16. CASE UnlockUser(t)
    <2>1. \A s \in Threads : pc'[s] \in Counted <=> pc[s] \in Counted
      BY <1>16 DEF UnlockUser, Goto, Counted
    <2>2. non_atomic_op_mut' = non_atomic_op_mut
      BY <1>16 DEF UnlockUser, mutexes
    <2> QED BY <2>1, <2>2, GateModeFrame
  <1>17. CASE DecreaseNonAtomicOps(t)
    <2>1. /\ pc[t] \in Counted /\ pc'[t] \notin Counted
          /\ \A s \in Threads \ {t} : pc'[s] \in Counted <=> pc[s] \in Counted
      BY <1>17 DEF DecreaseNonAtomicOps, Counted
    <2>2. non_atomic_op_mut = None /\ non_atomic_op_mut' = None
      BY <1>17 DEF DecreaseNonAtomicOps, mutexes
    <2>3. gateMode[t] = "nonatomic"
      BY <2>1 DEF gateMode
    <2>4. gateMode' = [gateMode EXCEPT ![t] = "out"]
      BY ZenonT(60), <2>1, <2>2 DEF gateMode
    <2> QED BY <2>3, <2>4 DEF Gate!GateNext, Gate!Leave
  <1>18. CASE ReleaseUserData(t)
    <2>1. \A s \in Threads : pc'[s] \in Counted <=> pc[s] \in Counted
      BY <1>18 DEF ReleaseUserData, Return, Goto, Counted
    <2>2. non_atomic_op_mut' = non_atomic_op_mut
      BY <1>18 DEF ReleaseUserData, mutexes
    <2> QED BY <2>1, <2>2, GateModeFrame
  <1> QED BY <1>2, <1>3, <1>4, <1>5, <1>6, <1>7, <1>8, <1>9,
             <1>10, <1>11, <1>12, <1>13, <1>14, <1>15, <1>16, <1>17, <1>18 DEF Step

(* No call has failed with the mutexes held. *)
NoneLeaked == \A t \in Threads : ~Leaked(t)

(* Only a failing initUserPars makes a call return with mutexes held. *)
LEMMA NoneLeakedStep ==
  ASSUME TypeOK, TypeOK', IndInv, [Next]_vars,
         NoneLeaked, "THOT_ERROR" \notin InitRets
  PROVE  NoneLeaked'
  <1> USE ConstantsAssumption DEF TypeOK, NoneLeaked, Leaked, PlacesFitOps, Counted, NonAtomicOps
  <1>1. CASE UNCHANGED vars
    BY <1>1 DEF vars, mutexes, tables, IndInv
  <1> SUFFICES ASSUME NEW t \in Threads,
                      \/ \E op \in Ops, u \in Users : Invoke(t, op, u)
                      \/ RejectEmptyPair(t) \/ SpuriousWakeup(t)
                      \/ Step(t)
               PROVE  NoneLeaked'
    BY <1>1 DEF Next
  <1>2. ASSUME NEW op \in Ops, NEW u \in Users, Invoke(t, op, u) PROVE NoneLeaked'
    BY <1>2 DEF IndInv, Invoke, Enter, FirstPlace, Goto, mutexes, tables
  <1>3. CASE RejectEmptyPair(t)
    BY <1>3 DEF IndInv, RejectEmptyPair, EmptyCheckPlace, Return, Goto, mutexes, tables
  <1>4. CASE SpuriousWakeup(t)
    BY <1>4 DEF IndInv, SpuriousWakeup, Goto, mutexes, tables
  <1>5. CASE LockAtomicOp(t)
    BY <1>5 DEF IndInv, LockAtomicOp, Goto, mutexes, tables
  <1>6. CASE AwaitNonAtomicOps(t)
    BY <1>6 DEF IndInv, AwaitNonAtomicOps, OwnerAfterWait, Goto, mutexes, tables
  <1>7. CASE InitUserPars(t)
    BY SMTT(40), <1>7 DEF IndInv, InitUserPars, Return, Goto, mutexes, tables
  <1>8. CASE Train(t)
    BY <1>8 DEF IndInv, Train, Goto, mutexes, tables
  <1>9. CASE ClearTrans(t)
    BY <1>9 DEF IndInv, ClearTrans, Goto, mutexes, tables
  <1>10. CASE PrintModels(t)
    BY <1>10 DEF IndInv, PrintModels, Goto, mutexes, tables
  <1>11. CASE UnlockNonAtomicOp(t)
    BY <1>11 DEF IndInv, UnlockNonAtomicOp, Goto, mutexes, tables
  <1>12. CASE UnlockAtomicOp(t)
    BY <1>12 DEF IndInv, UnlockAtomicOp, Goto, mutexes, tables
  <1>13. CASE IncreaseNonAtomicOps(t)
    BY <1>13 DEF IndInv, IncreaseNonAtomicOps, Goto, mutexes, tables
  <1>14. CASE GetVecIdx(t)
    BY SMTT(40), <1>14 DEF IndInv, GetVecIdx, Goto, mutexes, tables
  <1>15. CASE LockUser(t)
    BY <1>15 DEF IndInv, LockUser, UserFree, Goto, mutexes, tables
  <1>16. CASE UnlockUser(t)
    BY <1>16 DEF IndInv, UnlockUser, Goto, mutexes, tables
  <1>17. CASE DecreaseNonAtomicOps(t)
    BY <1>17 DEF IndInv, DecreaseNonAtomicOps, mutexes, tables
  <1>18. CASE ReleaseUserData(t)
    BY <1>18 DEF IndInv, ReleaseUserData, Return, Goto, mutexes, tables
  <1> QED BY <1>2, <1>3, <1>4, <1>5, <1>6, <1>7, <1>8, <1>9,
             <1>10, <1>11, <1>12, <1>13, <1>14, <1>15, <1>16, <1>17, <1>18 DEF Step

(* ThotDecoder implements OpGate, for any set of calls. *)
THEOREM GateRefinement == Spec => ImplementsGate
  <1>1. Init => Gate!GateInit
    BY ConstantsAssumption DEF Init, Gate!GateInit, gateMode, Counted
  <1>2. TypeOK /\ IndInv /\ TypeOK' /\ [Next]_vars => [Gate!GateNext]_gateMode
    BY GateMapping
  <1> QED BY <1>1, <1>2, TypeCorrect, Invariance, PTL DEF Spec, ImplementsGate, Gate!GateSpec

(* Where initUserPars cannot fail, a call that has returned holds no mutex;
   the failing path is the only one that keeps any. *)
THEOREM NothingHeldAfterReturn ==
  ASSUME "THOT_ERROR" \notin InitRets
  PROVE  Spec => []ReturnedHoldsNothing
  <1>1. Init => NoneLeaked
    BY DEF Init, NoneLeaked, Leaked
  <1>2. TypeOK /\ IndInv /\ NoneLeaked /\ TypeOK' /\ [Next]_vars => NoneLeaked'
    BY NoneLeakedStep
  <1>3. TypeOK /\ IndInv /\ NoneLeaked => ReturnedHoldsNothing
    BY DEF IndInv, AtomicOpOwner, NonAtomicOpOwner, UserOwners, HoldsAtomicOp,
           HoldsNonAtomicOp, NoneLeaked, ReturnedHoldsNothing
  <1> QED BY <1>1, <1>2, <1>3, TypeCorrect, Invariance, PTL DEF Spec

(***************************************************************************)
(* The users of the decoder: the tables do not move under a call that uses *)
(* them, and no call runs with parameters that initUserPars has not set.   *)
(***************************************************************************)

(***************************************************************************)
(* The inductive invariant: which users can be known, and which must be.   *)
(***************************************************************************)

\* An exclusive call that has run its first step alone, or all of it.
Inside == {"work", "unlocknonatomic", "unlockatomic", "done"}

\* The users that initUserPars is or was called for.
Begun == {u \in Users : \E s \in Threads : call[s] = [op |-> "initUserPars", user |-> u]}

\* clearTrans has emptied the tables.
Cleared == \E s \in Threads : call[s].op = "clearTrans" /\ pc[s] \in Inside

\* Calls are made for users that initUserPars was called for, no others are
\* in the map.
BegunFirst ==
  /\ DOMAIN userIdToIdx \subseteq Begun
  /\ \A s \in Threads : call[s].op # "none" => call[s].user \in Begun

\* Until clearTrans empties the tables, a user is known once its
\* initialization is inside, and before any other call is made for it.
KnownFirst ==
  ~Cleared => \A s \in Threads :
    /\ call[s].op = "initUserPars" /\ pc[s] \in Inside => Known(call[s].user)
    /\ call[s].op \notin {"none", "initUserPars"} => Known(call[s].user)

\* clearTrans is called when every initialization has returned.
InitsBeforeClear ==
  \A s, r \in Threads :
    call[s].op = "clearTrans" /\ call[r].op = "initUserPars" => pc[r] = "done"

\* The vector of variables is as long as the map; after clearTrans there is
\* a mutex for every user that can be created again.
TablesFit ==
  /\ Len(perUserVars) = Cardinality(DOMAIN userIdToIdx)
  /\ Cleared => Cardinality(Begun) <= Len(per_user_mut)

UsersInv == BegunFirst /\ KnownFirst /\ InitsBeforeClear /\ TablesFit

\* initUserPars is setting the user's parameters, or has failed to and keeps
\* everybody out.
Setting(t, u) ==
  call[t] = [op |-> "initUserPars", user |-> u] /\ (pc[t] = "work" \/ Leaked(t))

\* Until clearTrans is called, a known user has its parameters unless they
\* are being set.
ParsReady(u) ==
  /\ u \in DOMAIN userIdToIdx
  /\ \A s \in Threads : call[s].op # "clearTrans"
  => perUserVars[userIdToIdx[u]].parsSet \/ \E t \in Threads : Setting(t, u)

-----------------------------------------------------------------------------
(* The effect of a step on the calls and on the sizes of the tables.       *)

(* A step that makes no call, and neither finds or creates a user nor
   clears, changes no size, and calls stay inside or outside. *)
LEMMA TablesUnmoved ==
  ASSUME TypeOK, IndInv, NEW t \in Threads,
         \/ RejectEmptyPair(t) \/ SpuriousWakeup(t)
         \/ Step(t) /\ ~GetVecIdx(t) /\ ~ClearTrans(t)
  PROVE  /\ call' = call /\ userIdToIdx' = userIdToIdx
         /\ Len(perUserVars') = Len(perUserVars)
         /\ Len(per_user_mut') = Len(per_user_mut)
  <1>1. CASE RejectEmptyPair(t)
    BY <1>1 DEF RejectEmptyPair, EmptyCheckPlace, Return, Goto, mutexes, tables
  <1>2. CASE SpuriousWakeup(t)
    BY <1>2 DEF SpuriousWakeup, Goto, mutexes, tables
  <1>3. CASE LockAtomicOp(t)
    BY <1>3 DEF LockAtomicOp, Goto, mutexes, tables
  <1>4. CASE AwaitNonAtomicOps(t)
    BY <1>4 DEF AwaitNonAtomicOps, OwnerAfterWait, Goto, mutexes, tables
  <1>5. CASE InitUserPars(t)
    <2>1. idx[t] \in 1..Len(perUserVars)
      BY <1>5, IdxInRange DEF IndInv, InitUserPars
    <2>2. Len([perUserVars EXCEPT ![idx[t]] = WithPars(perUserVars[idx[t]])]) = Len(perUserVars)
      BY <2>1, UserVarsUpdate
    <2> QED BY <1>5, <2>2 DEF InitUserPars, mutexes
  <1>6. CASE Train(t)
    BY <1>6 DEF Train, Goto, mutexes, tables
  <1>7. CASE PrintModels(t)
    BY <1>7 DEF PrintModels, Goto, mutexes, tables
  <1>8. CASE UnlockNonAtomicOp(t)
    BY <1>8 DEF UnlockNonAtomicOp, Goto, mutexes, tables
  <1>9. CASE UnlockAtomicOp(t)
    BY <1>9 DEF UnlockAtomicOp, Goto, mutexes, tables
  <1>10. CASE IncreaseNonAtomicOps(t)
    BY <1>10 DEF IncreaseNonAtomicOps, Goto, mutexes, tables
  <1>11. CASE LockUser(t)
    <2>1. idx[t] \in 1..Len(per_user_mut)
      BY <1>11, IdxInRange DEF IndInv, LockUser
    <2> QED BY <1>11, <2>1, UserMutexUpdate DEF LockUser, tables
  <1>12. CASE UnlockUser(t)
    <2>1. idx[t] \in 1..Len(per_user_mut)
      BY <1>12, IdxInRange DEF IndInv, UnlockUser
    <2> QED BY <1>12, <2>1, UserMutexUpdate, ConstantsAssumption DEF UnlockUser, tables
  <1>13. CASE DecreaseNonAtomicOps(t)
    BY <1>13 DEF DecreaseNonAtomicOps, mutexes, tables
  <1>14. CASE ReleaseUserData(t)
    <2> DEFINE u == call[t].user
    <2>1. CASE Known(u)
      <3>1. userIdToIdx[u] \in 1..Len(perUserVars)
        BY <2>1, IdxInRange DEF IndInv, Known
      <3>2. Len([perUserVars EXCEPT ![userIdToIdx[u]] = Freed(perUserVars[userIdToIdx[u]])])
              = Len(perUserVars)
        BY <3>1, UserVarsUpdate
      <3> QED BY <1>14, <2>1, <3>2 DEF ReleaseUserData, ReleasedIdx, mutexes
    <2>2. CASE ~Known(u)
      BY <1>14, <2>2 DEF ReleaseUserData, mutexes
    <2> QED BY <2>1, <2>2
  <1> QED BY <1>1, <1>2, <1>3, <1>4, <1>5, <1>6, <1>7, <1>8, <1>9, <1>10, <1>11, <1>12, <1>13, <1>14 DEF Step

(* The other steps leave the calls of initUserPars and clearTrans inside or
   outside; those that have returned stay so. *)
LEMMA InsideUnmoved ==
  ASSUME TypeOK, IndInv, NEW t \in Threads,
         \/ RejectEmptyPair(t) \/ SpuriousWakeup(t)
         \/ Step(t) /\ ~GetVecIdx(t) /\ ~ClearTrans(t),
         NEW s \in Threads, call[s].op \in {"initUserPars", "clearTrans"}
  PROVE  /\ pc'[s] \in Inside <=> pc[s] \in Inside
         /\ pc[s] = "done" => pc'[s] = "done"
  <1> USE DEF TypeOK, Inside
  <1>a. /\ call[s].op \notin NonAtomicOps \cup {"printModels", "release_user_data",
                                                "onlineTrainSentPair"}
        /\ pc[s] \notin Counted \cup {"increase", "print", "release"}
    BY DEF NonAtomicOps, IndInv, PlacesFitOps
  <1>1. CASE RejectEmptyPair(t)
    BY <1>a, <1>1 DEF RejectEmptyPair, EmptyCheckPlace, Return, Goto, Counted
  <1>2. CASE SpuriousWakeup(t)
    BY <1>a, <1>2 DEF SpuriousWakeup, Goto, Counted
  <1>3. CASE LockAtomicOp(t)
    BY <1>a, <1>3 DEF LockAtomicOp, Goto, Counted
  <1>4. CASE AwaitNonAtomicOps(t)
    BY <1>a, <1>4 DEF AwaitNonAtomicOps, OwnerAfterWait, Goto, Counted
  <1>5. CASE InitUserPars(t)
    BY <1>a, <1>5 DEF InitUserPars, Return, Goto, Counted
  <1>6. CASE Train(t)
    BY <1>a, <1>6 DEF Train, Goto, Counted
  <1>7. CASE PrintModels(t)
    BY <1>a, <1>7 DEF PrintModels, Goto, Counted
  <1>8. CASE UnlockNonAtomicOp(t)
    BY <1>a, <1>8 DEF UnlockNonAtomicOp, Goto, Counted
  <1>9. CASE UnlockAtomicOp(t)
    BY <1>a, <1>9 DEF UnlockAtomicOp, Goto, Counted
  <1>10. CASE IncreaseNonAtomicOps(t)
    BY <1>a, <1>10 DEF IncreaseNonAtomicOps, Goto, Counted
  <1>11. CASE LockUser(t)
    BY <1>a, <1>11 DEF LockUser, Goto, Counted
  <1>12. CASE UnlockUser(t)
    BY <1>a, <1>12 DEF UnlockUser, Goto, Counted
  <1>13. CASE DecreaseNonAtomicOps(t)
    BY <1>a, <1>13 DEF DecreaseNonAtomicOps, Counted
  <1>14. CASE ReleaseUserData(t)
    BY <1>a, <1>14 DEF ReleaseUserData, Return, Goto, Counted
  <1> QED BY <1>1, <1>2, <1>3, <1>4, <1>5, <1>6, <1>7, <1>8, <1>9, <1>10, <1>11, <1>12, <1>13, <1>14 DEF Step

(* Finding or creating a user: who it is, and what that does to the sizes. *)
LEMMA UserFound ==
  ASSUME TypeOK, IndInv, UsersInv, NEW t \in Threads, GetVecIdx(t)
  PROVE  /\ call[t].user \in Users /\ call[t].user \in Begun
         /\ call' = call
         /\ DOMAIN userIdToIdx' = DOMAIN userIdToIdx \cup {call[t].user}
         /\ Len(per_user_mut') >= Len(per_user_mut)
         /\ Known(call[t].user) => /\ Len(perUserVars') = Len(perUserVars)
                                   /\ Len(per_user_mut') = Len(per_user_mut)
         /\ ~Known(call[t].user) => Len(perUserVars') = Len(perUserVars) + 1
  <1> DEFINE u == call[t].user
  <1>1. call[t].op # "none" /\ u \in Users
    BY DEF GetVecIdx, IndInv, PlacesFitOps, TypeOK
  <1>2. u \in Begun
    BY <1>1 DEF UsersInv, BegunFirst
  <1>3. /\ call' = call /\ userIdToIdx' = MapWith(u) /\ perUserVars' = VarsWith(u)
        /\ per_user_mut' = MutsWith(u)
    BY DEF GetVecIdx
  <1>4. /\ DOMAIN MapWith(u) = DOMAIN userIdToIdx \cup {u}
        /\ Len(MutsWith(u)) >= Len(per_user_mut)
    BY <1>1, TablesGrow DEF IndInv
  <1>5. CASE Known(u)
    <2>1. VarsWith(u) = perUserVars
      BY <1>5 DEF VarsWith
    <2>2. IdxFor(u) \in 1..Len(per_user_mut)
      BY <1>5, IdxInRange DEF IndInv, IdxFor, Known
    <2>3. MutsWith(u) = per_user_mut
      BY <2>2 DEF MutsWith
    <2> QED BY <1>1, <1>2, <1>3, <1>4, <1>5, <2>1, <2>3
  <1>6. CASE ~Known(u)
    <2>1. VarsWith(u) = Append(perUserVars, NewUserVars)
      BY <1>6 DEF VarsWith
    <2>2. NewUserVars \in [released : BOOLEAN, parsSet : BOOLEAN]
      BY DEF NewUserVars
    <2>3. Len(VarsWith(u)) = Len(perUserVars) + 1
      BY <2>1, <2>2, AppendProperties DEF TypeOK
    <2> QED BY <1>1, <1>2, <1>3, <1>4, <1>6, <2>3
  <1> QED BY <1>5, <1>6

(* The users of initializations are finitely many, and all of them are known
   when clearTrans runs its body for the first time. *)
LEMMA BegunFinite ==
  ASSUME TypeOK
  PROVE  IsFiniteSet(Begun) /\ Cardinality(Begun) \in Nat
  <1> DEFINE f == [s \in Threads |-> call[s].user]
  <1>1. IsFiniteSet({f[s] : s \in Threads})
    <2>1. f \in Surjection(Threads, {f[s] : s \in Threads})
      BY DEF Surjection
    <2> HIDE DEF f
    <2> QED BY <2>1, ConstantsAssumption, FS_Surjection
  <1>2. Begun \subseteq {f[s] : s \in Threads}
    BY DEF Begun
  <1>3. IsFiniteSet(Begun)
    BY <1>1, <1>2, FS_Subset
  <1> QED BY <1>3, FS_CardinalityType

LEMMA KnownFinite ==
  ASSUME TypeOK, UsersInv
  PROVE  /\ IsFiniteSet(DOMAIN userIdToIdx)
         /\ Cardinality(DOMAIN userIdToIdx) \in Nat
         /\ Cardinality(DOMAIN userIdToIdx) <= Cardinality(Begun)
  BY BegunFinite, FS_Subset, FS_CardinalityType DEF UsersInv, BegunFirst

LEMMA AllKnownAtClear ==
  ASSUME TypeOK, IndInv, UsersInv, ~Cleared, NEW t \in Threads, call[t].op = "clearTrans"
  PROVE  Cardinality(Begun) <= Len(per_user_mut)
  <1>1. Begun \subseteq DOMAIN userIdToIdx
    <2> SUFFICES ASSUME NEW u \in Users, NEW s \in Threads,
                        call[s] = [op |-> "initUserPars", user |-> u]
                 PROVE  Known(u)
      BY DEF Begun, Known
    <2>1. call[s].op = "initUserPars" /\ call[s].user = u
      OBVIOUS
    <2>2. pc[s] = "done"
      BY <2>1 DEF UsersInv, InitsBeforeClear
    <2> QED BY <2>1, <2>2 DEF UsersInv, KnownFirst, Inside
  <1>2. Cardinality(Begun) <= Cardinality(DOMAIN userIdToIdx)
    BY <1>1, KnownFinite, FS_Subset
  <1>3. Len(perUserVars) <= Len(per_user_mut)
    BY DEF IndInv, UsersHaveOwnPlace
  <1>4. /\ Len(perUserVars) \in Nat /\ Len(per_user_mut) \in Nat
        /\ Len(perUserVars) = Cardinality(DOMAIN userIdToIdx)
    BY LenProperties DEF TypeOK, UsersInv, TablesFit
  <1> QED BY <1>2, <1>3, <1>4, BegunFinite

-----------------------------------------------------------------------------
(* The users' invariant is kept.                                           *)

LEMMA UsersUnmovedStep ==
  ASSUME TypeOK, IndInv, UsersInv, NEW t \in Threads,
         \/ RejectEmptyPair(t) \/ SpuriousWakeup(t)
         \/ Step(t) /\ ~GetVecIdx(t) /\ ~ClearTrans(t)
  PROVE  UsersInv'
  <1>1. /\ call' = call /\ userIdToIdx' = userIdToIdx
        /\ Len(perUserVars') = Len(perUserVars) /\ Len(per_user_mut') = Len(per_user_mut)
    BY TablesUnmoved
  <1>2. \A s \in Threads : call[s].op \in {"initUserPars", "clearTrans"} =>
          /\ pc'[s] \in Inside <=> pc[s] \in Inside
          /\ pc[s] = "done" => pc'[s] = "done"
    BY InsideUnmoved
  <1>3. Begun' = Begun /\ (Cleared' <=> Cleared)
    BY <1>1, <1>2 DEF Begun, Cleared
  <1>4. BegunFirst' /\ TablesFit'
    BY <1>1, <1>3 DEF UsersInv, BegunFirst, TablesFit
  <1>5. KnownFirst'
    BY <1>1, <1>2, <1>3 DEF UsersInv, KnownFirst, Known
  <1>6. InitsBeforeClear'
    BY <1>1, <1>2 DEF UsersInv, InitsBeforeClear
  <1> QED BY <1>4, <1>5, <1>6 DEF UsersInv

LEMMA UserFoundStep ==
  ASSUME TypeOK, IndInv, UsersInv, NEW t \in Threads, GetVecIdx(t)
  PROVE  UsersInv'
  <1> DEFINE u == call[t].user
  <1>1. /\ u \in Users /\ u \in Begun /\ call' = call
        /\ DOMAIN userIdToIdx' = DOMAIN userIdToIdx \cup {u}
        /\ Len(per_user_mut') >= Len(per_user_mut)
        /\ Known(u) => Len(perUserVars') = Len(perUserVars)
        /\ ~Known(u) => Len(perUserVars') = Len(perUserVars) + 1
    BY UserFound
  <1>2. /\ pc[t] \notin Inside /\ call[t].op # "clearTrans"
        /\ \A s \in Threads \ {t} : pc'[s] = pc[s]
    BY DEF GetVecIdx, Goto, TypeOK, Inside, IndInv, PlacesFitOps, Counted, NonAtomicOps
  <1>3. Begun' = Begun
    BY <1>1 DEF Begun
  <1>4. Cleared' <=> Cleared
    BY <1>1, <1>2 DEF Cleared
  <1>5. BegunFirst'
    BY <1>1, <1>3 DEF UsersInv, BegunFirst
  <1>6. KnownFirst'
    BY <1>1, <1>2, <1>4 DEF UsersInv, KnownFirst, Known
  <1>7. InitsBeforeClear'
    BY <1>1, <1>2 DEF UsersInv, InitsBeforeClear, Inside
  <1>8. Len(perUserVars') = Cardinality(DOMAIN userIdToIdx')
    <2>1. /\ IsFiniteSet(DOMAIN userIdToIdx)
          /\ Cardinality(DOMAIN userIdToIdx) = Len(perUserVars)
      BY KnownFinite DEF UsersInv, TablesFit
    <2>2. CASE Known(u)
      BY <1>1, <2>1, <2>2, FS_AddElement DEF Known
    <2>3. CASE ~Known(u)
      BY ZenonT(60), <1>1, <2>1, <2>3, FS_AddElement DEF Known
    <2> QED BY <2>2, <2>3
  <1>9. Cleared' => Cardinality(Begun') <= Len(per_user_mut')
    <2>1. /\ Len(per_user_mut) \in Nat /\ Len(per_user_mut') \in Nat
      <3>1. per_user_mut' \in Seq(Threads \cup {None})
        BY <1>1, TablesTyped DEF GetVecIdx
      <3> QED BY <3>1, LenProperties DEF TypeOK
    <2> QED BY <1>1, <1>3, <1>4, <2>1, BegunFinite DEF UsersInv, TablesFit
  <1> QED BY <1>5, <1>6, <1>7, <1>8, <1>9 DEF UsersInv, TablesFit

LEMMA ClearStep ==
  ASSUME TypeOK, IndInv, UsersInv, NEW t \in Threads, ClearTrans(t)
  PROVE  UsersInv'
  <1>1. /\ call' = call /\ DOMAIN userIdToIdx' = {} /\ perUserVars' = << >>
        /\ per_user_mut' = per_user_mut /\ call[t].op = "clearTrans"
        /\ pc'[t] = "unlocknonatomic"
        /\ \A s \in Threads \ {t} : pc'[s] = pc[s]
    BY DEF ClearTrans, Goto, mutexes, NoUsers, TypeOK
  <1>2. Begun' = Begun
    BY <1>1 DEF Begun
  <1>3. Cleared'
    BY <1>1 DEF Cleared, Inside
  <1>4. BegunFirst' /\ KnownFirst'
    BY <1>1, <1>2, <1>3 DEF UsersInv, BegunFirst, KnownFirst
  <1>5. InitsBeforeClear'
    BY <1>1 DEF UsersInv, InitsBeforeClear
  <1>6. Len(perUserVars') = Cardinality(DOMAIN userIdToIdx')
    BY <1>1, FS_EmptySet
  <1>7. Cardinality(Begun) <= Len(per_user_mut)
    BY <1>1, AllKnownAtClear DEF UsersInv, TablesFit
  <1> QED BY <1>1, <1>2, <1>4, <1>5, <1>6, <1>7 DEF UsersInv, TablesFit

LEMMA CallStep ==
  ASSUME TypeOK, IndInv, UsersInv, NEW t \in Threads, NEW op \in Ops, NEW u \in Users,
         Invoke(t, op, u)
  PROVE  UsersInv'
  <1>1. /\ pc[t] = "idle" /\ call[t].op = "none" /\ op \in AllOps
        /\ UNCHANGED <<userIdToIdx, perUserVars, per_user_mut>>
        /\ call'[t] = [op |-> op, user |-> u] /\ call'[t].op = op /\ call'[t].user = u
        /\ pc'[t] \notin Inside
        /\ \A s \in Threads \ {t} : pc'[s] = pc[s] /\ call'[s] = call[s]
    BY ConstantsAssumption DEF Invoke, Enter, FirstPlace, Goto, Inside, TypeOK, IndInv,
       PlacesFitOps, mutexes, tables
  <1>2. op # "none"
    BY <1>1 DEF AllOps, ExclusiveOps, NonAtomicOps
  <1>3. Cleared' <=> Cleared
    BY <1>1 DEF Cleared
  <1>4. Begun \subseteq Begun'
    BY <1>1 DEF Begun
  <1>5. op # "initUserPars" => Begun' = Begun
    BY <1>1 DEF Begun
  <1>6. u \in Begun'
    <2>1. CASE op = "initUserPars"
      BY <1>1, <2>1 DEF Begun
    <2>2. CASE op # "initUserPars"
      <3>1. Known(u) \/ Initialized(u)
        BY <2>2 DEF Invoke, MayCall
      <3>2. u \in Begun
        BY <3>1 DEF Known, Initialized, Begun, UsersInv, BegunFirst
      <3> QED BY <1>4, <3>2
    <2> QED BY <2>1, <2>2
  <1>7. BegunFirst'
    BY <1>1, <1>4, <1>6 DEF UsersInv, BegunFirst
  <1>8. KnownFirst'
    <2> SUFFICES ASSUME ~Cleared, NEW s \in Threads
                 PROVE  /\ call'[s].op = "initUserPars" /\ pc'[s] \in Inside => Known(call'[s].user)
                        /\ call'[s].op \notin {"none", "initUserPars"} => Known(call'[s].user)
      BY <1>1, <1>3 DEF KnownFirst, Known
    <2>1. CASE s # t
      BY <1>1, <2>1 DEF UsersInv, KnownFirst
    <2>2. CASE s = t /\ op # "initUserPars"
      <3>1. Known(u) \/ Initialized(u)
        BY <2>2 DEF Invoke, MayCall
      <3>2. Initialized(u) => Known(u)
        BY DEF Initialized, UsersInv, KnownFirst, Inside
      <3> QED BY <1>1, <2>2, <3>1, <3>2
    <2>3. CASE s = t /\ op = "initUserPars"
      BY <1>1, <2>3
    <2> QED BY <2>1, <2>2, <2>3
  <1>9. InitsBeforeClear'
    <2> SUFFICES ASSUME NEW s \in Threads, NEW r \in Threads,
                        call'[s].op = "clearTrans", call'[r].op = "initUserPars"
                 PROVE  pc'[r] = "done"
      BY DEF InitsBeforeClear
    <2>1. r # t
      <3>1. op = "initUserPars" => call[s].op # "clearTrans"
        BY DEF Invoke, MayCall
      <3> QED BY <1>1, <3>1
    <2>2. CASE s = t
      <3>1. call[r].op = "initUserPars" => pc[r] = "done"
        BY <1>1, <2>2 DEF Invoke, MayCall
      <3> QED BY <1>1, <2>1, <3>1
    <2>3. CASE s # t
      BY <1>1, <2>1, <2>3 DEF UsersInv, InitsBeforeClear
    <2> QED BY <2>2, <2>3
  <1>10. TablesFit'
    <2>1. Cleared => op # "initUserPars"
      BY DEF Cleared, Invoke, MayCall
    <2> QED BY <1>1, <1>3, <1>5, <2>1 DEF UsersInv, TablesFit
  <1> QED BY <1>7, <1>8, <1>9, <1>10 DEF UsersInv

LEMMA UsersInvInit == Init => UsersInv
  <1> SUFFICES ASSUME Init PROVE UsersInv
    OBVIOUS
  <1>1. DOMAIN userIdToIdx = {} /\ perUserVars = << >> /\ \A s \in Threads : call[s].op = "none"
    BY DEF Init, NoUsers
  <1> QED BY <1>1, FS_EmptySet
          DEF UsersInv, BegunFirst, KnownFirst, InitsBeforeClear, TablesFit, Cleared

LEMMA UsersInvStep ==
  ASSUME TypeOK, IndInv, UsersInv, [Next]_vars
  PROVE  UsersInv'
  <1>1. CASE UNCHANGED vars
    BY <1>1 DEF vars, mutexes, tables, UsersInv, BegunFirst, KnownFirst, InitsBeforeClear,
       TablesFit, Cleared, Begun, Known
  <1>2. ASSUME NEW t \in Threads, NEW op \in Ops, NEW u \in Users, Invoke(t, op, u)
        PROVE  UsersInv'
    BY <1>2, CallStep
  <1>3. ASSUME NEW t \in Threads, RejectEmptyPair(t) \/ SpuriousWakeup(t) \/ Step(t)
        PROVE  UsersInv'
    BY <1>3, UsersUnmovedStep, UserFoundStep, ClearStep
  <1> QED BY <1>1, <1>2, <1>3 DEF Next

(* No call is counted, or runs alone, while parameters are being set, but the
   one that sets them. *)
LEMMA SettingExcludes ==
  ASSUME TypeOK, IndInv, NEW t \in Threads, NEW u, Setting(t, u)
  PROVE  /\ \A s \in Threads : pc[s] \notin Counted
         /\ \A s \in Threads \ {t} : pc[s] \notin {"alone", "work", "unlocknonatomic"}
  <1>1. non_atomic_op_mut = t
    BY DEF Setting, IndInv, NonAtomicOpOwner, HoldsNonAtomicOp
  <1>2. CountedThreads = {}
    BY <1>1, ConstantsAssumption DEF IndInv, GateClosed
  <1>3. \A s \in Threads \ {t} : ~HoldsNonAtomicOp(s)
    BY <1>1 DEF IndInv, NonAtomicOpOwner
  <1> QED BY <1>2, <1>3 DEF CountedThreads, HoldsNonAtomicOp

(* Parameters are being set until they are. *)
LEMMA SettingGoesOn ==
  ASSUME TypeOK, IndInv, [Next]_vars, NEW r \in Threads, NEW v, Setting(r, v)
  PROVE  \/ Setting(r, v)'
         \/ perUserVars' = [perUserVars EXCEPT ![idx[r]] = WithPars(@)] /\ pc[r] = "work"
  <1> DEFINE Goal ==
        \/ Setting(r, v)'
        \/ perUserVars' = [perUserVars EXCEPT ![idx[r]] = WithPars(@)] /\ pc[r] = "work"
  <1> USE DEF TypeOK
  <1>a. /\ call[r] = [op |-> "initUserPars", user |-> v] /\ call[r].op = "initUserPars"
        /\ pc[r] = "work" \/ (pc[r] = "done" /\ ret[r] = "THOT_ERROR")
    BY DEF Setting, Leaked
  <1>b. (call'[r] = call[r] /\ pc'[r] = pc[r] /\ ret'[r] = ret[r]) => Goal
    <2> SUFFICES ASSUME call'[r] = call[r], pc'[r] = pc[r], ret'[r] = ret[r]
                 PROVE  Setting(r, v)'
      OBVIOUS
    <2>1. call'[r] = [op |-> "initUserPars", user |-> v] /\ call'[r].op = "initUserPars"
      BY <1>a
    <2>2. pc'[r] = "work" \/ (pc'[r] = "done" /\ ret'[r] = "THOT_ERROR")
      BY <1>a
    <2> QED BY <2>1, <2>2 DEF Setting, Leaked
  <1> HIDE DEF Goal
  <1>0. CASE UNCHANGED vars
    BY <1>b, <1>0 DEF vars, Goal
  <1> SUFFICES ASSUME NEW t \in Threads,
                      \/ \E op \in Ops, u \in Users : Invoke(t, op, u)
                      \/ RejectEmptyPair(t) \/ SpuriousWakeup(t)
                      \/ Step(t)
               PROVE  Goal
    BY <1>0 DEF Next, Goal
  <1>c. ASSUME NEW op \in Ops, NEW u \in Users, Invoke(t, op, u) PROVE Goal
    BY <1>a, <1>b, <1>c DEF Invoke, Enter, Goto
  <1>1. CASE RejectEmptyPair(t)
    BY <1>a, <1>b, <1>1 DEF RejectEmptyPair, EmptyCheckPlace, Return, Goto
  <1>2. CASE SpuriousWakeup(t)
    BY <1>a, <1>b, <1>2 DEF SpuriousWakeup, Goto
  <1>3. CASE LockAtomicOp(t)
    BY <1>a, <1>b, <1>3 DEF LockAtomicOp, Goto
  <1>4. CASE AwaitNonAtomicOps(t)
    BY <1>a, <1>b, <1>4 DEF AwaitNonAtomicOps, OwnerAfterWait, Goto
  <1>5. CASE InitUserPars(t)
    <2>1. CASE t = r /\ "THOT_ERROR" \in InitRets /\ Return(t, "THOT_ERROR")
      <3>1. call'[r] = call[r] /\ pc'[r] = "done" /\ ret'[r] = "THOT_ERROR"
        BY <1>5, <2>1 DEF InitUserPars, Return, Goto
      <3> QED BY <1>a, <3>1 DEF Goal, Setting, Leaked
    <2>2. CASE t = r /\ perUserVars' = [perUserVars EXCEPT ![idx[t]] = WithPars(@)]
      BY <1>5, <2>2 DEF InitUserPars, Goal
    <2>3. CASE t # r
      BY <1>b, <1>5, <2>3 DEF InitUserPars, Return, Goto
    <2> QED BY <1>5, <2>1, <2>2, <2>3 DEF InitUserPars
  <1>6. CASE Train(t)
    BY <1>a, <1>b, <1>6 DEF Train, Goto
  <1>7. CASE ClearTrans(t)
    BY <1>a, <1>b, <1>7 DEF ClearTrans, Goto
  <1>8. CASE PrintModels(t)
    BY <1>a, <1>b, <1>8 DEF PrintModels, Goto
  <1>9. CASE UnlockNonAtomicOp(t)
    BY <1>a, <1>b, <1>9 DEF UnlockNonAtomicOp, Goto
  <1>10. CASE UnlockAtomicOp(t)
    BY <1>a, <1>b, <1>10 DEF UnlockAtomicOp, Goto
  <1>11. CASE IncreaseNonAtomicOps(t)
    BY <1>a, <1>b, <1>11 DEF IncreaseNonAtomicOps, Goto
  <1>12. CASE GetVecIdx(t)
    BY <1>a, <1>b, <1>12 DEF GetVecIdx, Goto
  <1>13. CASE LockUser(t)
    BY <1>a, <1>b, <1>13 DEF LockUser, Goto
  <1>14. CASE UnlockUser(t)
    BY <1>a, <1>b, <1>14 DEF UnlockUser, Goto
  <1>15. CASE DecreaseNonAtomicOps(t)
    BY <1>a, <1>b, <1>15 DEF DecreaseNonAtomicOps
  <1>16. CASE ReleaseUserData(t)
    BY <1>a, <1>b, <1>16 DEF ReleaseUserData, Return, Goto
  <1> QED BY <1>c, <1>1, <1>2, <1>3, <1>4, <1>5, <1>6, <1>7, <1>8, <1>9, <1>10, <1>11, <1>12, <1>13, <1>14, <1>15, <1>16 DEF Step

(* What setting or freeing one user's variables does to the parameters. *)
LEMMA ParsUpdate ==
  ASSUME TypeOK, NEW i \in 1..Len(perUserVars), NEW j \in 1..Len(perUserVars)
  PROVE  /\ perUserVars[j].parsSet \/ i = j <=>
              [perUserVars EXCEPT ![i] = WithPars(perUserVars[i])][j].parsSet
         /\ perUserVars[j].parsSet <=>
              [perUserVars EXCEPT ![i] = Freed(perUserVars[i])][j].parsSet
  <1>1. perUserVars[i] \in [released : BOOLEAN, parsSet : BOOLEAN]
    BY ElementOfSeq DEF TypeOK
  <1>2. /\ WithPars(perUserVars[i]) \in [released : BOOLEAN, parsSet : BOOLEAN]
        /\ Freed(perUserVars[i]) \in [released : BOOLEAN, parsSet : BOOLEAN]
        /\ WithPars(perUserVars[i]).parsSet
        /\ Freed(perUserVars[i]).parsSet <=> perUserVars[i].parsSet
    BY <1>1 DEF WithPars, Freed
  <1> QED BY <1>2, ExceptSeq DEF TypeOK

(* Parameters that are set stay so until the tables are cleared. *)
LEMMA ParsKept ==
  ASSUME TypeOK, IndInv, [Next]_vars, \A s \in Threads : call[s].op # "clearTrans",
         NEW u \in DOMAIN userIdToIdx, perUserVars[userIdToIdx[u]].parsSet
  PROVE  perUserVars'[userIdToIdx'[u]].parsSet
  <1> DEFINE i == userIdToIdx[u]
  <1>a. i \in 1..Len(perUserVars)
    BY IdxInRange DEF IndInv
  <1>b. perUserVars' = perUserVars /\ userIdToIdx' = userIdToIdx
          => perUserVars'[userIdToIdx'[u]].parsSet
    OBVIOUS
  <1>0. CASE UNCHANGED vars
    BY <1>b, <1>0 DEF vars, tables
  <1> SUFFICES ASSUME NEW t \in Threads,
                      \/ \E op \in Ops, v \in Users : Invoke(t, op, v)
                      \/ RejectEmptyPair(t) \/ SpuriousWakeup(t)
                      \/ Step(t)
               PROVE  perUserVars'[userIdToIdx'[u]].parsSet
    BY <1>0 DEF Next
  <1>c. ASSUME NEW op \in Ops, NEW v \in Users, Invoke(t, op, v)
        PROVE  perUserVars'[userIdToIdx'[u]].parsSet
    BY <1>b, <1>c DEF Invoke, Enter, tables
  <1>1. CASE RejectEmptyPair(t)
    BY <1>b, <1>1 DEF RejectEmptyPair, tables
  <1>2. CASE SpuriousWakeup(t)
    BY <1>b, <1>2 DEF SpuriousWakeup, tables
  <1>3. CASE LockAtomicOp(t)
    BY <1>b, <1>3 DEF LockAtomicOp, tables
  <1>4. CASE AwaitNonAtomicOps(t)
    BY <1>b, <1>4 DEF AwaitNonAtomicOps, tables
  <1>5. CASE InitUserPars(t)
    <2>1. idx[t] \in 1..Len(perUserVars) /\ userIdToIdx' = userIdToIdx
      BY <1>5, IdxInRange DEF IndInv, InitUserPars
    <2>2. \/ perUserVars' = perUserVars
          \/ perUserVars' = [perUserVars EXCEPT ![idx[t]] = WithPars(perUserVars[idx[t]])]
      BY <1>5 DEF InitUserPars
    <2> QED BY <1>a, <1>b, <2>1, <2>2, ParsUpdate
  <1>6. CASE Train(t)
    BY <1>b, <1>6 DEF Train, tables
  <1>7. CASE ClearTrans(t)
    BY <1>7 DEF ClearTrans
  <1>8. CASE PrintModels(t)
    BY <1>b, <1>8 DEF PrintModels, tables
  <1>9. CASE UnlockNonAtomicOp(t)
    BY <1>b, <1>9 DEF UnlockNonAtomicOp, tables
  <1>10. CASE UnlockAtomicOp(t)
    BY <1>b, <1>10 DEF UnlockAtomicOp, tables
  <1>11. CASE IncreaseNonAtomicOps(t)
    BY <1>b, <1>11 DEF IncreaseNonAtomicOps, tables
  <1>12. CASE GetVecIdx(t)
    <2>1. call[t].user \in Users
      BY <1>12 DEF IndInv, PlacesFitOps, GetVecIdx, TypeOK
    <2>2. userIdToIdx' = MapWith(call[t].user) /\ perUserVars' = VarsWith(call[t].user)
      BY <1>12 DEF GetVecIdx
    <2>3. userIdToIdx'[u] = i /\ perUserVars'[i] = perUserVars[i]
      BY <1>a, <2>1, <2>2, TablesGrow DEF IndInv
    <2> QED BY <2>3
  <1>13. CASE LockUser(t)
    BY <1>b, <1>13 DEF LockUser, tables
  <1>14. CASE UnlockUser(t)
    BY <1>b, <1>14 DEF UnlockUser, tables
  <1>15. CASE DecreaseNonAtomicOps(t)
    BY <1>b, <1>15 DEF DecreaseNonAtomicOps, tables
  <1>16. CASE ReleaseUserData(t)
    <2>1. userIdToIdx' = userIdToIdx
      BY <1>16 DEF ReleaseUserData
    <2>2. CASE Known(call[t].user)
      <3>1. userIdToIdx[call[t].user] \in 1..Len(perUserVars)
        BY <2>2, IdxInRange DEF IndInv, Known
      <3>2. perUserVars' = [perUserVars EXCEPT ![userIdToIdx[call[t].user]] =
                              Freed(perUserVars[userIdToIdx[call[t].user]])]
        BY <1>16, <2>2 DEF ReleaseUserData, ReleasedIdx
      <3> QED BY <1>a, <2>1, <3>1, <3>2, ParsUpdate
    <2>3. CASE ~Known(call[t].user)
      BY <1>b, <1>16, <2>1, <2>3 DEF ReleaseUserData
    <2> QED BY <2>2, <2>3
  <1> QED BY <1>c, <1>1, <1>2, <1>3, <1>4, <1>5, <1>6, <1>7, <1>8, <1>9, <1>10, <1>11, <1>12, <1>13, <1>14, <1>15, <1>16 DEF Step

(* A call is not taken back. *)
LEMMA ClearStaysCalled ==
  ASSUME TypeOK, IndInv, [Next]_vars, NEW s \in Threads, call[s].op # "none"
  PROVE  call'[s] = call[s]
  <1>0. CASE UNCHANGED vars
    BY <1>0 DEF vars
  <1>1. ASSUME NEW t \in Threads, NEW op \in Ops, NEW v \in Users, Invoke(t, op, v)
        PROVE  call'[s] = call[s]
    BY <1>1 DEF Invoke, Enter, IndInv, PlacesFitOps, TypeOK
  <1>2. ASSUME NEW t \in Threads, RejectEmptyPair(t) \/ SpuriousWakeup(t) \/ Step(t)
        PROVE  call'[s] = call[s]
    <2>1. CASE GetVecIdx(t)
      BY <2>1 DEF GetVecIdx
    <2>2. CASE ClearTrans(t)
      BY <2>2 DEF ClearTrans
    <2> QED BY <1>2, <2>1, <2>2, TablesUnmoved
  <1> QED BY <1>0, <1>1, <1>2 DEF Next

(* Until the tables are cleared a known user keeps its place, and a new one
   is the user of a call that has just looked for it. *)
LEMMA MapGrows ==
  ASSUME TypeOK, IndInv, UsersInv, [Next]_vars, \A s \in Threads : call[s].op # "clearTrans"
  PROVE  /\ \A u \in DOMAIN userIdToIdx : userIdToIdx'[u] = userIdToIdx[u]
         /\ \A u \in DOMAIN userIdToIdx' \ DOMAIN userIdToIdx :
              \E t \in Threads : GetVecIdx(t) /\ call[t].user = u
  <1>0. CASE UNCHANGED vars
    BY <1>0 DEF vars, tables
  <1>1. ASSUME NEW t \in Threads, NEW op \in Ops, NEW v \in Users, Invoke(t, op, v)
        PROVE  userIdToIdx' = userIdToIdx
    BY <1>1 DEF Invoke, Enter, tables
  <1>2. ASSUME NEW t \in Threads, RejectEmptyPair(t) \/ SpuriousWakeup(t) \/ Step(t),
               ~GetVecIdx(t)
        PROVE  userIdToIdx' = userIdToIdx
    <2>1. ~ClearTrans(t)
      BY DEF ClearTrans
    <2> QED BY <1>2, <2>1, TablesUnmoved
  <1>3. ASSUME NEW t \in Threads, GetVecIdx(t)
        PROVE  /\ \A u \in DOMAIN userIdToIdx : userIdToIdx'[u] = userIdToIdx[u]
               /\ DOMAIN userIdToIdx' = DOMAIN userIdToIdx \cup {call[t].user}
    <2>1. call[t].user \in Users
      BY <1>3, UserFound
    <2>2. userIdToIdx' = MapWith(call[t].user)
      BY <1>3 DEF GetVecIdx
    <2> QED BY <2>1, <2>2, TablesGrow DEF IndInv
  <1> QED BY <1>0, <1>1, <1>2, <1>3 DEF Next

(* The known users have their parameters, or are getting them. *)
LEMMA ParsReadyStep ==
  ASSUME TypeOK, IndInv, UsersInv, [Next]_vars, NEW u, ParsReady(u)
  PROVE  ParsReady(u)'
  <1> SUFFICES ASSUME u \in DOMAIN userIdToIdx', \A s \in Threads : call'[s].op # "clearTrans"
               PROVE  perUserVars'[userIdToIdx'[u]].parsSet \/ \E t \in Threads : Setting(t, u)'
    BY DEF ParsReady
  <1>1. ASSUME NEW s \in Threads, call[s].op = "clearTrans"
        PROVE  FALSE
    BY <1>1, ClearStaysCalled
  <1>2. CASE u \in DOMAIN userIdToIdx /\ perUserVars[userIdToIdx[u]].parsSet
    BY <1>1, <1>2, ParsKept
  <1>3. ASSUME u \in DOMAIN userIdToIdx, NEW t \in Threads, Setting(t, u)
        PROVE  perUserVars'[userIdToIdx'[u]].parsSet \/ \E s \in Threads : Setting(s, u)'
    <2>1. CASE Setting(t, u)'
      BY <2>1
    <2>2. CASE perUserVars' = [perUserVars EXCEPT ![idx[t]] = WithPars(@)] /\ pc[t] = "work"
      <3>1. call[t].user = u /\ call[t].op = "initUserPars"
        BY <1>3 DEF Setting
      <3>2. idx[t] = userIdToIdx[u] /\ idx[t] \in 1..Len(perUserVars)
        BY <2>2, <3>1, IdxInRange DEF IndInv, IdxIsCurrent
      <3>3. perUserVars'[userIdToIdx[u]].parsSet
        <4>1. perUserVars' = [perUserVars EXCEPT ![idx[t]] = WithPars(perUserVars[idx[t]])]
          BY <2>2
        <4> QED BY <3>2, <4>1, ParsUpdate
      <3>4. userIdToIdx'[u] = userIdToIdx[u]
        BY <1>1, <1>3, MapGrows
      <3> QED BY <3>3, <3>4
    <2> QED BY <1>3, <2>1, <2>2, SettingGoesOn
  <1>4. CASE u \notin DOMAIN userIdToIdx
    <2>1. PICK t \in Threads : GetVecIdx(t) /\ call[t].user = u
      BY <1>1, <1>4, MapGrows
    <2>2. call[t].op = "initUserPars" /\ pc[t] = "alone"
      <3>1. call[t].op \in {"none", "initUserPars"}
        BY <1>1, <1>4, <2>1 DEF UsersInv, KnownFirst, Cleared, Known
      <3> QED BY <2>1, <3>1 DEF GetVecIdx, IndInv, PlacesFitOps, Counted, NonAtomicOps, ExclusiveOps
    <2>3. call'[t] = [op |-> "initUserPars", user |-> u] /\ pc'[t] = "work"
      <3>1. call'[t] = call[t] /\ pc'[t] = "work"
        BY <2>1, <2>2 DEF GetVecIdx, Goto, TypeOK
      <3>2. call[t] \in [op : AllOps \cup {"none"}, user : Users \cup {None}]
        BY DEF TypeOK
      <3> QED BY <2>1, <2>2, <3>1, <3>2
    <2>4. Setting(t, u)'
      BY <2>3 DEF Setting
    <2> QED BY <2>4
  <1> QED BY <1>1, <1>2, <1>3, <1>4 DEF ParsReady

-----------------------------------------------------------------------------
(* The theorems.                                                           *)

(* Whatever calls are made, tables that a call is using do not move: see
   TablesNotMovedInUse. *)
LEMMA NothingMoves ==
  ASSUME TypeOK, IndInv, UsersInv, [Next]_vars,
         \/ Len(per_user_mut') > Len(per_user_mut)
         \/ /\ Len(perUserVars') > Len(perUserVars)
            /\ \A s \in Threads : call[s].op # "clearTrans",
         NEW s \in Threads
  PROVE  pc[s] \notin {"lockuser", "body"}
  <1>a. /\ Len(per_user_mut) \in Nat /\ Len(perUserVars) \in Nat
        /\ Len(perUserVars) <= Len(per_user_mut)
    BY LenProperties DEF TypeOK, IndInv, UsersHaveOwnPlace
  <1>0. ~UNCHANGED vars
    BY <1>a DEF vars, mutexes, tables
  <1>1. ASSUME NEW t \in Threads, NEW op \in Ops, NEW v \in Users, Invoke(t, op, v)
        PROVE  FALSE
    BY <1>a, <1>1 DEF Invoke, Enter, mutexes, tables
  <1>2. ASSUME NEW t \in Threads, RejectEmptyPair(t) \/ SpuriousWakeup(t) \/ Step(t),
               ~GetVecIdx(t)
        PROVE  FALSE
    <2>1. CASE ClearTrans(t)
      BY <1>a, <2>1 DEF ClearTrans, mutexes
    <2>2. CASE ~ClearTrans(t)
      BY <1>a, <1>2, <2>2, TablesUnmoved
    <2> QED BY <2>1, <2>2
  <1>3. PICK t \in Threads : GetVecIdx(t)
    BY <1>0, <1>1, <1>2 DEF Next
  <1>4. CASE pc[t] = "alone"
    <2>1. pc[s] \notin Counted
      BY <1>4, AloneExcludes
    <2> QED BY <2>1 DEF Counted
  <1>5. CASE pc[t] = "getidx"
    <2> DEFINE u == call[t].user
    <2>1. call[t].op \notin {"none", "initUserPars", "clearTrans"}
      BY <1>5 DEF IndInv, PlacesFitOps, Counted, NonAtomicOps
    <2>2. ~Known(u)
      <3> SUFFICES ASSUME Known(u) PROVE FALSE
        OBVIOUS
      <3>1. /\ Len(perUserVars') = Len(perUserVars)
            /\ Len(per_user_mut') = Len(per_user_mut)
        BY <1>3, UserFound
      <3> QED BY <1>a, <3>1
    <2>3. Cleared
      BY <2>1, <2>2 DEF UsersInv, KnownFirst
    <2>4. Len(per_user_mut') > Len(per_user_mut)
      BY <2>3 DEF Cleared
    <2>5. DOMAIN userIdToIdx \cup {u} \subseteq Begun
      BY <1>3, UserFound DEF UsersInv, BegunFirst
    <2>6. Cardinality(DOMAIN userIdToIdx \cup {u}) = Len(perUserVars) + 1
      BY <2>2, KnownFinite, FS_AddElement DEF Known, UsersInv, TablesFit
    <2>7. Cardinality(DOMAIN userIdToIdx \cup {u}) <= Cardinality(Begun)
      BY <2>5, BegunFinite, FS_Subset
    <2>8. IdxFor(u) <= Len(per_user_mut)
      BY <1>a, <2>2, <2>3, <2>6, <2>7, BegunFinite DEF IdxFor, UsersInv, TablesFit
    <2>9. per_user_mut' = per_user_mut
      BY <1>3, <2>8 DEF GetVecIdx, MutsWith
    <2> QED BY <1>a, <2>4, <2>9
  <1> QED BY <1>3, <1>4, <1>5 DEF GetVecIdx

LEMMA UsersInvariance == Spec => [](TypeOK /\ IndInv /\ UsersInv)
  BY InitInv, StepInv, UsersInvInit, UsersInvStep, PTL DEF Spec

(* The vectors of the users never move while a call is about to lock a user's
   mutex or holds one, before or after clearTrans. *)
THEOREM TablesStayInPlace == Spec => TablesNotMovedInUse
  <1>1. TypeOK /\ IndInv /\ UsersInv /\ [Next]_vars =>
          [\/ Len(per_user_mut') > Len(per_user_mut)
           \/ /\ Len(perUserVars') > Len(perUserVars)
              /\ \A s \in Threads : call[s].op # "clearTrans"
           => \A t \in Threads : pc[t] \notin {"lockuser", "body"}]_vars
    BY NothingMoves
  <1> QED BY <1>1, UsersInvariance, PTL DEF Spec, TablesNotMovedInUse

AllParsReady == \A u \in Users : ParsReady(u)

(* Until clearTrans is called no call runs with the parameters of a user that
   has just been created, even if initUserPars fails. *)
THEOREM ParsSetFirst == Spec => []ParsSetBeforeUse
  <1>1. Init => AllParsReady
    BY DEF Init, NoUsers, AllParsReady, ParsReady
  <1>2. TypeOK /\ IndInv /\ UsersInv /\ AllParsReady /\ [Next]_vars => AllParsReady'
    BY ParsReadyStep DEF AllParsReady
  <1>3. TypeOK /\ IndInv /\ AllParsReady => ParsSetBeforeUse
    <2> SUFFICES ASSUME TypeOK, IndInv, AllParsReady,
                        \A s \in Threads : call[s].op # "clearTrans", NEW t \in Threads,
                        pc[t] = "body" \/ (pc[t] = "work" /\ call[t].op # "initUserPars")
                 PROVE  perUserVars[idx[t]].parsSet
      BY DEF ParsSetBeforeUse
    <2> DEFINE u == call[t].user
    <2>1. u \in DOMAIN userIdToIdx /\ u \in Users /\ idx[t] = userIdToIdx[u]
      BY DEF IndInv, IdxIsCurrent, Known, TypeOK
    <2>2. perUserVars[userIdToIdx[u]].parsSet \/ \E s \in Threads : Setting(s, u)
      BY <2>1 DEF AllParsReady, ParsReady
    <2>3. ASSUME NEW s \in Threads, Setting(s, u) PROVE FALSE
      <3>1. s # t
        BY <2>3 DEF Setting, Leaked
      <3> QED BY <2>3, <3>1, SettingExcludes DEF Counted
    <2> QED BY <2>1, <2>2, <2>3
  <1> QED BY <1>1, <1>2, <1>3, UsersInvariance, PTL DEF Spec
-----------------------------------------------------------------------------
(* What the steps of the decoder mean for a caller, which keeps an account *)
(* of its calls in variables of its own.                                   *)

CallsTyped ==
  /\ pc \in [Threads -> Places]
  /\ call \in [Threads -> [op : AllOps \cup {"none"}, user : Nat \cup Users \cup {None}]]

(* Calls go on: they neither change nor return to idle, and one that has
   returned, or is not made yet, stays as it is. *)
CallsGoOn ==
  /\ call' = call
  /\ pc' \in [Threads -> Places]
  /\ \A s \in Threads : /\ pc[s] \in {"idle", "done"} => pc'[s] = pc[s]
                        /\ pc[s] # "idle" => pc'[s] # "idle"

(* One call is made, and the others stay as they are. *)
CallMade(t, op, u) ==
  /\ pc[t] = "idle" /\ pc'[t] \notin {"idle", "done"}
  /\ call'[t] = [op |-> op, user |-> u]
  /\ \A s \in Threads \ {t} : pc'[s] = pc[s] /\ call'[s] = call[s]

LEMMA UnmovedGoesOn ==
  ASSUME CallsTyped, UNCHANGED vars
  PROVE  CallsGoOn
  BY DEF CallsTyped, vars, CallsGoOn

LEMMA StepGoesOn ==
  ASSUME CallsTyped, NEW t \in Threads, RejectEmptyPair(t) \/ SpuriousWakeup(t) \/ Step(t)
  PROVE  CallsGoOn
  <1> USE DEF CallsTyped, CallsGoOn, Places
  <1>1. CASE RejectEmptyPair(t)
    BY <1>1 DEF RejectEmptyPair, EmptyCheckPlace, Return, Goto
  <1>2. CASE SpuriousWakeup(t)
    BY <1>2 DEF SpuriousWakeup, Goto
  <1>3. CASE LockAtomicOp(t)
    BY <1>3 DEF LockAtomicOp, Goto
  <1>4. CASE AwaitNonAtomicOps(t)
    BY <1>4 DEF AwaitNonAtomicOps, Goto
  <1>5. CASE InitUserPars(t)
    BY SMTT(40), <1>5 DEF InitUserPars, Return, Goto
  <1>6. CASE Train(t)
    BY <1>6 DEF Train, Goto
  <1>7. CASE ClearTrans(t)
    BY <1>7 DEF ClearTrans, Goto
  <1>8. CASE PrintModels(t)
    BY <1>8 DEF PrintModels, Goto
  <1>9. CASE UnlockNonAtomicOp(t)
    BY <1>9 DEF UnlockNonAtomicOp, Goto
  <1>10. CASE UnlockAtomicOp(t)
    BY <1>10 DEF UnlockAtomicOp, Goto
  <1>11. CASE IncreaseNonAtomicOps(t)
    BY <1>11 DEF IncreaseNonAtomicOps, Goto
  <1>12. CASE GetVecIdx(t)
    BY <1>12 DEF GetVecIdx, Goto
  <1>13. CASE LockUser(t)
    BY <1>13 DEF LockUser, Goto
  <1>14. CASE UnlockUser(t)
    BY <1>14 DEF UnlockUser, Goto
  <1>15. CASE DecreaseNonAtomicOps(t)
    BY <1>15 DEF DecreaseNonAtomicOps
  <1>16. CASE ReleaseUserData(t)
    BY <1>16 DEF ReleaseUserData, Return, Goto
  <1> QED BY <1>1, <1>2, <1>3, <1>4, <1>5, <1>6, <1>7, <1>8, <1>9, <1>10,
             <1>11, <1>12, <1>13, <1>14, <1>15, <1>16 DEF Step

(* Making a call puts it, and no other, at the first place of its
   operation. *)
LEMMA EnterMakesCall ==
  ASSUME CallsTyped, NEW t \in Threads, NEW op \in AllOps,
         NEW u \in Nat \cup Users, Enter(t, op, u)
  PROVE  CallMade(t, op, u) /\ CallsTyped'
  BY DEF CallMade, CallsTyped, Enter, Goto, FirstPlace, Places

=============================================================================
