----------------------------- MODULE ThotDecoder -----------------------------
(***************************************************************************)
(* The concurrency control of the ThotDecoder class                        *)
(* (src/src/stack_dec/ThotDecoder.cc): the mutexes, the counter of         *)
(* non-atomic operations with its condition variable, and the per-user     *)
(* tables that the operations look up, create, use, release and clear.     *)
(*                                                                         *)
(* A thread here is one call: a program thread that calls the decoder      *)
(* again is another member of Threads.  user_id_to_idx_mut is a leaf lock: *)
(* the code takes nothing else while it holds it, so each of its critical  *)
(* sections is one step.  The vectors of the class are indexed from 1.     *)
(* An operator marked "mutant" is a plausible mistake in the definition    *)
(* that follows it; no specification uses it.                              *)
(***************************************************************************)
EXTENDS Naturals, Sequences, FiniteSets

CONSTANTS
  Threads,    \* the calls
  Users,      \* user identifiers
  Ops,        \* the operations the callers use, a subset of AllOps
  InitRets,   \* what initUserPars can return with the loaded configuration
  None        \* the owner of a free mutex

\* Operations that run alone: they hold both mutexes during their body.
ExclusiveOps == {"initUserPars", "onlineTrainSentPair", "trainEcm", "clearTrans"}

\* Operations that only count themselves and lock their user.
NonAtomicOps == {"translateSentence", "sentPairVerCov", "startCat",
                 "addStrToPref", "setPref", "resetPrefix"}

AllOps == ExclusiveOps \cup NonAtomicOps \cup {"printModels", "release_user_data"}

ASSUME ConstantsAssumption ==
  /\ IsFiniteSet(Threads)
  /\ None \notin Threads \cup Users
  /\ Ops \subseteq AllOps
  /\ InitRets \subseteq {"THOT_OK", "THOT_ERROR"}

VARIABLES
  atomic_op_mut,           \* owner of atomic_op_mut
  non_atomic_op_mut,       \* owner of non_atomic_op_mut
  non_atomic_ops_running,  \* the counter it protects
  per_user_mut,            \* owners of the mutexes of the vector per_user_mut
  userIdToIdx,             \* the map, a function on the known users
  perUserVars,             \* tdPerUserVarsVec with idxDataReleased
  modelVersion,            \* changes of the models in tdCommonVars
  pc, call, idx, ret,      \* each thread: place, call, local idx, result
  seen                     \* modelVersion when the body of the call began

mutexes  == <<atomic_op_mut, non_atomic_op_mut, per_user_mut>>
tables   == <<userIdToIdx, perUserVars>>
vars == <<mutexes, non_atomic_ops_running, tables, modelVersion,
          pc, call, idx, ret, seen>>

\* Places of a thread; "condwait" is inside pthread_cond_wait.
Places == {"idle", "lockatomic", "locknonatomic", "condwait", "alone", "work",
           "print", "unlocknonatomic", "unlockatomic",
           "increase", "getidx", "lockuser", "body", "decrease",
           "release", "done"}

\* The places at which a thread is counted in non_atomic_ops_running.
Counted == {"getidx", "lockuser", "body", "decrease"}

Goto(t, place) == pc' = [pc EXCEPT ![t] = place]

Results == {"THOT_OK", "THOT_ERROR"}

Return(t, r) == Goto(t, "done") /\ ret' = [ret EXCEPT ![t] = r]

\* The variables a created user starts with (init_idx_data).
NewUserVars == [released |-> FALSE, parsSet |-> FALSE]

\* Those variables once initUserPars has set them, or once they are freed.
WithPars(v) == [released |-> v.released, parsSet |-> TRUE]
Freed(v) == [released |-> TRUE, parsSet |-> v.parsSet]

\* The empty map.
NoUsers == [u \in {} |-> 0]

Known(u) == u \in DOMAIN userIdToIdx

Init ==
  /\ atomic_op_mut = None /\ non_atomic_op_mut = None /\ per_user_mut = << >>
  /\ non_atomic_ops_running = 0
  /\ userIdToIdx = NoUsers /\ perUserVars = << >>
  /\ modelVersion = 0
  /\ pc = [t \in Threads |-> "idle"]
  /\ call = [t \in Threads |-> [op |-> "none", user |-> None]]
  /\ idx = [t \in Threads |-> 0]
  /\ ret = [t \in Threads |-> "none"]
  /\ seen = [t \in Threads |-> 0]

-----------------------------------------------------------------------------
(* The callers.  thot_server initializes a user before it serves one of    *)
(* its requests; the casmacat engine does so unless user_id_new says that  *)
(* the user exists.  A session's user is released once, when its calls     *)
(* have returned, and never used again.  The server stops initializing     *)
(* users before it calls clearTrans, but requests accepted earlier may     *)
(* still call the decoder after it.                                        *)

Initialized(u) ==
  \E s \in Threads : call[s] = [op |-> "initUserPars", user |-> u] /\ pc[s] = "done"

MayCall(t, op, u) ==
  /\ op # "initUserPars" => Known(u) \/ Initialized(u)
  /\ \A s \in Threads \ {t} : call[s].user = u =>
       /\ call[s].op # "release_user_data"
       /\ op = "release_user_data" => pc[s] = "done"
  /\ op = "initUserPars" => \A s \in Threads : call[s].op # "clearTrans"
  /\ op = "clearTrans" =>
       \A s \in Threads : call[s].op = "initUserPars" => pc[s] = "done"

\* mutant: non-atomic operations do not count themselves.
FirstPlaceUncounted(op) == IF op \in NonAtomicOps THEN "getidx" ELSE "lockatomic"

FirstPlace(op) ==
  IF op \in NonAtomicOps THEN "increase"
  ELSE IF op = "release_user_data" THEN "release" ELSE "lockatomic"

Enter(t, op, u) ==
  /\ pc[t] = "idle"
  /\ call' = [call EXCEPT ![t] = [op |-> op, user |-> u]]
  /\ Goto(t, FirstPlace(op))
  /\ UNCHANGED <<mutexes, non_atomic_ops_running, tables, modelVersion, idx, ret, seen>>

Invoke(t, op, u) == MayCall(t, op, u) /\ Enter(t, op, u)

-----------------------------------------------------------------------------
(* get_vecidx_for_user_id: finds the user's index, or creates the user at  *)
(* the end of the vectors; per_user_mut only ever grows.                   *)

IdxFor(u) == IF Known(u) THEN userIdToIdx[u] ELSE Len(perUserVars) + 1

MapWith(u) == [v \in DOMAIN userIdToIdx \cup {u} |->
                 IF v = u THEN IdxFor(u) ELSE userIdToIdx[v]]

VarsWith(u) == IF Known(u) THEN perUserVars ELSE Append(perUserVars, NewUserVars)

\* mutant: a mutex is added with every user, whatever the vector's size.
MutsWithEveryUser(u) ==
  IF Known(u) THEN per_user_mut ELSE Append(per_user_mut, None)

MutsWith(u) == IF IdxFor(u) <= Len(per_user_mut) THEN per_user_mut
               ELSE Append(per_user_mut, None)

\* Every operation but clearTrans and printModels begins with it.
GetVecIdx(t) ==
  LET u == call[t].user IN
  /\ \/ pc[t] = "getidx" /\ Goto(t, "lockuser")
     \/ pc[t] = "alone" /\ call[t].op # "clearTrans" /\ Goto(t, "work")
  /\ userIdToIdx' = MapWith(u)
  /\ perUserVars' = VarsWith(u)
  /\ per_user_mut' = MutsWith(u)
  /\ idx' = [idx EXCEPT ![t] = IdxFor(u)]
  /\ UNCHANGED <<atomic_op_mut, non_atomic_op_mut, non_atomic_ops_running,
                 modelVersion, call, ret, seen>>

-----------------------------------------------------------------------------
(* Operations that run alone.                                              *)

\* mutant: the sentences are looked at after atomic_op_mut is taken.
EmptyCheckLocked == "locknonatomic"

\* Where onlineTrainSentPair looks for empty sentences: before any lock.
EmptyCheckPlace == "lockatomic"

RejectEmptyPair(t) ==
  /\ pc[t] = EmptyCheckPlace /\ call[t].op = "onlineTrainSentPair"
  /\ Return(t, "THOT_ERROR")
  /\ UNCHANGED <<mutexes, non_atomic_ops_running, tables, modelVersion, call, idx, seen>>

LockAtomicOp(t) ==
  /\ pc[t] = "lockatomic" /\ atomic_op_mut = None
  /\ atomic_op_mut' = t
  /\ seen' = [seen EXCEPT ![t] = modelVersion]
  /\ Goto(t, IF call[t].op = "printModels" THEN "print" ELSE "locknonatomic")
  /\ UNCHANGED <<non_atomic_op_mut, per_user_mut, non_atomic_ops_running, tables,
                 modelVersion, call, idx, ret>>

\* mutant: off by one.
NonAtomicOpsRunningOffByOne == non_atomic_ops_running > 1

NonAtomicOpsRunning == non_atomic_ops_running > 0

\* mutant: the mutex is given back after the wait, as a reader might expect.
OwnerAfterWaitNone(t) == None

\* The mutex is kept until the end of the atomic operation.
OwnerAfterWait(t) == t

\* wait_on_non_atomic_op_cond: with the mutex held, either every non-atomic
\* operation has finished and the mutex is kept, or pthread_cond_wait gives
\* it back; a woken thread takes the mutex and tests the counter again.
AwaitNonAtomicOps(t) ==
  /\ pc[t] = "locknonatomic" /\ non_atomic_op_mut = None
  /\ IF NonAtomicOpsRunning
     THEN Goto(t, "condwait") /\ UNCHANGED non_atomic_op_mut
     ELSE Goto(t, "alone") /\ non_atomic_op_mut' = OwnerAfterWait(t)
  /\ seen' = [seen EXCEPT ![t] = modelVersion]
  /\ UNCHANGED <<atomic_op_mut, per_user_mut, non_atomic_ops_running, tables,
                 modelVersion, call, idx, ret>>

SpuriousWakeup(t) ==
  /\ pc[t] = "condwait"
  /\ Goto(t, "locknonatomic")
  /\ UNCHANGED <<mutexes, non_atomic_ops_running, tables, modelVersion, call, idx,
                 ret, seen>>

\* initUserPars sets the user's parameters.  When set_wgp or use_caseconv
\* fails it returns at once, with both mutexes held.
InitUserPars(t) ==
  /\ pc[t] = "work" /\ call[t].op = "initUserPars"
  /\ \/ /\ "THOT_OK" \in InitRets
        /\ perUserVars' = [perUserVars EXCEPT ![idx[t]] = WithPars(@)]
        /\ Goto(t, "unlocknonatomic")
        /\ ret' = [ret EXCEPT ![t] = "THOT_OK"]
     \/ /\ "THOT_ERROR" \in InitRets
        /\ Return(t, "THOT_ERROR")
        /\ UNCHANGED perUserVars
  /\ UNCHANGED <<mutexes, non_atomic_ops_running, userIdToIdx, modelVersion, call,
                 idx, seen>>

\* onlineTrainSentPair translates with the user's own decoder, without
\* per_user_mut, and updates the shared models; trainEcm updates the shared
\* error-correction model.  Training that fails may have changed them too.
Train(t) ==
  /\ pc[t] = "work" /\ call[t].op \in {"onlineTrainSentPair", "trainEcm"}
  /\ modelVersion' = modelVersion + 1
  /\ \E r \in Results : ret' = [ret EXCEPT ![t] = r]
  /\ Goto(t, "unlocknonatomic")
  /\ UNCHANGED <<mutexes, non_atomic_ops_running, tables, call, idx, seen>>

\* clearTrans clears the models and forgets every user; per_user_mut stays.  It
\* does so without user_id_to_idx_mut, so a release_user_data could fall among
\* its assignments.  It is one step all the same: the server, which clears, never
\* releases, and the plugin, which releases, clears only with its decoder.
ClearTrans(t) ==
  /\ pc[t] = "alone" /\ call[t].op = "clearTrans"
  /\ userIdToIdx' = NoUsers /\ perUserVars' = << >>
  /\ modelVersion' = modelVersion + 1
  /\ ret' = [ret EXCEPT ![t] = "THOT_OK"]
  /\ Goto(t, "unlocknonatomic")
  /\ UNCHANGED <<mutexes, non_atomic_ops_running, call, idx, seen>>

UnlockNonAtomicOp(t) ==
  /\ pc[t] = "unlocknonatomic"
  /\ non_atomic_op_mut' = None
  /\ Goto(t, "unlockatomic")
  /\ UNCHANGED <<atomic_op_mut, per_user_mut, non_atomic_ops_running, tables,
                 modelVersion, call, idx, ret, seen>>

\* printModels writes the models out holding only atomic_op_mut.
PrintModels(t) ==
  /\ pc[t] = "print"
  /\ \E r \in Results : ret' = [ret EXCEPT ![t] = r]
  /\ Goto(t, "unlockatomic")
  /\ UNCHANGED <<mutexes, non_atomic_ops_running, tables, modelVersion,
                 call, idx, seen>>

UnlockAtomicOp(t) ==
  /\ pc[t] = "unlockatomic"
  /\ atomic_op_mut' = None
  /\ Goto(t, "done")
  /\ UNCHANGED <<non_atomic_op_mut, per_user_mut, non_atomic_ops_running, tables,
                 modelVersion, call, idx, ret, seen>>

-----------------------------------------------------------------------------
(* Non-atomic operations.                                                  *)

IncreaseNonAtomicOps(t) ==
  /\ pc[t] = "increase" /\ non_atomic_op_mut = None
  /\ non_atomic_ops_running' = non_atomic_ops_running + 1
  /\ Goto(t, "getidx")
  /\ UNCHANGED <<mutexes, tables, modelVersion, call, idx, ret, seen>>

\* mutant: the user's mutex is not looked at.
UserFreeAlways(t) == TRUE

UserFree(t) == per_user_mut[idx[t]] = None

LockUser(t) ==
  /\ pc[t] = "lockuser" /\ UserFree(t)
  /\ per_user_mut' = [per_user_mut EXCEPT ![idx[t]] = t]
  /\ seen' = [seen EXCEPT ![t] = modelVersion]
  /\ Goto(t, "body")
  /\ UNCHANGED <<atomic_op_mut, non_atomic_op_mut, non_atomic_ops_running, tables,
                 modelVersion, call, idx, ret>>

\* The body works on the user's decoder; here it ends and unlocks the user.
UnlockUser(t) ==
  /\ pc[t] = "body"
  /\ per_user_mut' = [per_user_mut EXCEPT ![idx[t]] = None]
  /\ Goto(t, "decrease")
  /\ UNCHANGED <<atomic_op_mut, non_atomic_op_mut, non_atomic_ops_running, tables,
                 modelVersion, call, idx, ret, seen>>

\* mutant: tested as if the counter had not been decreased yet.
LastOneOutMissed == non_atomic_ops_running = 0

LastOneOut == non_atomic_ops_running = 1

\* The last one out wakes every thread waiting on non_atomic_op_cond.
DecreaseNonAtomicOps(t) ==
  /\ pc[t] = "decrease" /\ non_atomic_op_mut = None
  /\ non_atomic_ops_running' = non_atomic_ops_running - 1
  /\ pc' = [s \in Threads |->
              IF s = t THEN "done"
              ELSE IF LastOneOut /\ pc[s] = "condwait"
                   THEN "locknonatomic" ELSE pc[s]]
  /\ ret' = [ret EXCEPT ![t] = "THOT_OK"]
  /\ UNCHANGED <<mutexes, tables, modelVersion, call, idx, seen>>

-----------------------------------------------------------------------------
\* mutant: the data of the last user are released.
ReleasedIdxLast(u) == Len(perUserVars)

ReleasedIdx(u) == userIdToIdx[u]

\* release_user_data frees the user's data once; the user stays in the map.
ReleaseUserData(t) ==
  LET u == call[t].user IN
  /\ pc[t] = "release"
  /\ perUserVars' = IF Known(u)
                    THEN [perUserVars EXCEPT ![ReleasedIdx(u)] = Freed(@)]
                    ELSE perUserVars
  /\ Return(t, "THOT_OK")
  /\ UNCHANGED <<mutexes, non_atomic_ops_running, userIdToIdx, modelVersion, call,
                 idx, seen>>

-----------------------------------------------------------------------------
\* What a thread does by itself once it has made its call.
Step(t) ==
  \/ LockAtomicOp(t) \/ AwaitNonAtomicOps(t)
  \/ InitUserPars(t) \/ Train(t) \/ ClearTrans(t) \/ PrintModels(t)
  \/ UnlockNonAtomicOp(t) \/ UnlockAtomicOp(t)
  \/ IncreaseNonAtomicOps(t) \/ GetVecIdx(t) \/ LockUser(t) \/ UnlockUser(t)
  \/ DecreaseNonAtomicOps(t) \/ ReleaseUserData(t)

Next == \E t \in Threads :
  \/ \E op \in Ops, u \in Users : Invoke(t, op, u)
  \/ RejectEmptyPair(t) \/ SpuriousWakeup(t)
  \/ Step(t)

Spec == Init /\ [][Next]_vars

\* A thread inside a call keeps running: the scheduler does not forget it,
\* and a free mutex that a thread waits for is eventually handed to it.
\* Nothing is assumed about new calls.
FairSpec == Spec /\ \A t \in Threads : WF_vars(Step(t))

-----------------------------------------------------------------------------
(* Properties.                                                             *)

TypeOK ==
  /\ atomic_op_mut \in Threads \cup {None}
  /\ non_atomic_op_mut \in Threads \cup {None}
  /\ per_user_mut \in Seq(Threads \cup {None})
  /\ non_atomic_ops_running \in Nat
  /\ DOMAIN userIdToIdx \subseteq Users
  /\ userIdToIdx \in [DOMAIN userIdToIdx -> Nat]
  /\ perUserVars \in Seq([released : BOOLEAN, parsSet : BOOLEAN])
  /\ modelVersion \in Nat
  /\ pc \in [Threads -> Places]
  /\ call \in [Threads -> [op : AllOps \cup {"none"}, user : Users \cup {None}]]
  /\ idx \in [Threads -> Nat]
  /\ ret \in [Threads -> Results \cup {"none"}]
  /\ seen \in [Threads -> Nat]

\* While an atomic operation (initUserPars, onlineTrainSentPair, trainEcm,
\* clearTrans) runs its body, no other thread is inside any operation that
\* touches the decoder: the comment "Wait until all non-atomic operations
\* have finished" and the mutex kept by wait_on_non_atomic_op_cond.
AtomicRunsAlone ==
  \A t, s \in Threads : (pc[t] \in {"alone", "work"} /\ s # t) =>
    pc[s] \notin Counted \cup {"alone", "work", "print"}

\* No two threads work on one user's decoder at the same time, whether the
\* user's mutex protects it or onlineTrainSentPair uses it without one.
OneThreadPerUser ==
  \A t, s \in Threads :
    (t # s /\ pc[t] = "body" /\ pc[s] \in {"body", "work"}) =>
      pc[s] = "body" /\ call[t].user # call[s].user

\* An operation sees one version of the models from its first step to its
\* last: no training or clearing falls inside a translation, or inside the
\* printing of the models, which waits for nothing but atomic_op_mut.
ModelsStableInBody ==
  \A t \in Threads : pc[t] \in {"body", "work", "print"} => seen[t] = modelVersion

\* An operation never works on user data that release_user_data or
\* clearTrans has freed, and its index is still that of its user.
NoFreedUserInUse ==
  \A t \in Threads : pc[t] \in {"lockuser", "body", "work"} =>
    /\ idx[t] \in 1..Len(perUserVars)
    /\ ~perUserVars[idx[t]].released
    /\ Known(call[t].user) /\ userIdToIdx[call[t].user] = idx[t]

\* Unless clearTrans is called, an operation runs with the parameters that
\* initUserPars set for its user, never with the defaults of a created user,
\* even when the caller saw the user in the map while initUserPars was
\* still setting them.
ParsSetBeforeUse ==
  (\A s \in Threads : call[s].op # "clearTrans") =>
    \A t \in Threads :
      (\/ pc[t] = "body"
       \/ pc[t] = "work" /\ call[t].op # "initUserPars") => perUserVars[idx[t]].parsSet

\* A call that has returned owns no mutex.
ReturnedHoldsNothing ==
  \A t \in Threads : pc[t] = "done" =>
    /\ atomic_op_mut # t /\ non_atomic_op_mut # t
    /\ \A i \in 1..Len(per_user_mut) : per_user_mut[i] # t

\* The vector of user mutexes grows, and so moves its mutexes in memory,
\* only when no thread holds one or is about to lock one; unless clearTrans
\* is called, neither do the variables of the users move under an operation.
TablesNotMovedInUse ==
  [][\/ Len(per_user_mut') > Len(per_user_mut)
     \/ /\ Len(perUserVars') > Len(perUserVars)
        /\ \A s \in Threads : call[s].op # "clearTrans"
     => \A t \in Threads : pc[t] \notin {"lockuser", "body"}]_vars

\* Every call that is made returns.
CallsReturn == \A t \in Threads : pc[t] # "idle" ~> pc[t] = "done"

-----------------------------------------------------------------------------
(* The inductive invariant: who owns each mutex, what the counter counts,  *)
(* and how the per-user tables relate to the calls in progress.            *)

\* A call of initUserPars that failed and kept both mutexes.
Leaked(t) ==
  pc[t] = "done" /\ call[t].op = "initUserPars" /\ ret[t] = "THOT_ERROR"

HoldsAtomicOp(t) ==
  \/ pc[t] \in {"locknonatomic", "condwait", "alone", "work", "print",
               "unlocknonatomic", "unlockatomic"}
  \/ Leaked(t)

HoldsNonAtomicOp(t) == pc[t] \in {"alone", "work", "unlocknonatomic"} \/ Leaked(t)

AtomicOpOwner == \A t \in Threads : atomic_op_mut = t <=> HoldsAtomicOp(t)

NonAtomicOpOwner == \A t \in Threads : non_atomic_op_mut = t <=> HoldsNonAtomicOp(t)

UserOwners ==
  \A t \in Threads, i \in 1..Len(per_user_mut) :
    per_user_mut[i] = t <=> pc[t] = "body" /\ idx[t] = i

CountedThreads == {t \in Threads : pc[t] \in Counted}

CounterCountsOps == non_atomic_ops_running = Cardinality(CountedThreads)

GateClosed == non_atomic_op_mut # None => CountedThreads = {}

\* A call is at the places of its own operation.
PlacesFitOps ==
  \A t \in Threads :
    /\ pc[t] = "idle" <=> call[t].op = "none"
    /\ pc[t] = "idle" <=> call[t].user = None
    /\ pc[t] = "lockatomic" => call[t].op \in ExclusiveOps \cup {"printModels"}
    /\ pc[t] \in {"locknonatomic", "condwait", "alone", "work"} => call[t].op \in ExclusiveOps
    /\ pc[t] \in Counted \cup {"increase"} => call[t].op \in NonAtomicOps
    /\ pc[t] = "print" => call[t].op = "printModels"
    /\ pc[t] = "release" => call[t].op = "release_user_data"
    /\ (pc[t] \in {"unlocknonatomic", "unlockatomic"} /\ call[t].op = "initUserPars") =>
         ret[t] = "THOT_OK"

\* The map gives each known user a place of its own in the vectors.
UsersHaveOwnPlace ==
  /\ Len(perUserVars) <= Len(per_user_mut)
  /\ \A u \in DOMAIN userIdToIdx :
       /\ userIdToIdx[u] \in 1..Len(perUserVars)
       /\ \A v \in DOMAIN userIdToIdx : userIdToIdx[u] = userIdToIdx[v] => u = v

\* The index a call has read is still its user's.
IdxIsCurrent ==
  \A t \in Threads : pc[t] \in {"lockuser", "body", "work"} =>
    Known(call[t].user) /\ idx[t] = userIdToIdx[call[t].user]

\* Data are released only for a user whose other calls have all returned.
ReleasedLast ==
  /\ \A u \in DOMAIN userIdToIdx : perUserVars[userIdToIdx[u]].released =>
       \E s \in Threads : call[s] = [op |-> "release_user_data", user |-> u]
  /\ \A s, t \in Threads :
       (s # t /\ call[s].op = "release_user_data" /\ call[t].user = call[s].user) =>
         pc[t] = "done"

\* What an operation saw of the models when it was let in is what they are.
SeenIsCurrent ==
  \A t \in Threads :
    pc[t] \in {"alone", "work", "body", "print"} => seen[t] = modelVersion

IndInv ==
  /\ AtomicOpOwner /\ NonAtomicOpOwner /\ UserOwners
  /\ CounterCountsOps /\ GateClosed /\ PlacesFitOps
  /\ UsersHaveOwnPlace /\ IdxIsCurrent /\ ReleasedLast /\ SeenIsCurrent

-----------------------------------------------------------------------------
\* ThotDecoder implements OpGate: a thread is inside the gate from the step
\* that counts it, or that keeps non_atomic_op_mut, to the step that undoes it.
gateMode ==
  [t \in Threads |-> IF pc[t] \in Counted THEN "nonatomic"
                    ELSE IF non_atomic_op_mut = t THEN "atomic" ELSE "out"]

Gate == INSTANCE OpGate WITH mode <- gateMode

ImplementsGate == Gate!GateSpec
=============================================================================
