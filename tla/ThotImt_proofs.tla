---------------------------- MODULE ThotImt_proofs ----------------------------
(***************************************************************************)
(* Proofs about the plugin for interactive translation, for any number of  *)
(* host threads, calls and names: its engines and sessions call the        *)
(* decoder as ThotDecoder assumes, unless an engine is created for a name  *)
(* that a session has been given.                                          *)
(***************************************************************************)
EXTENDS ThotImt, ThotDecoder_proofs

(***************************************************************************)
(* The inductive invariant.                                                *)
(***************************************************************************)
HostPlaces == {"free", "named", "init", "construct", "incall"}

PluginCalls == {"initUserPars", "translateSentence", "onlineTrainSentPair", "startCat",
                "setPref", "release_user_data"}

ImtTyped ==
  /\ CallsTyped
  /\ at \in [Hosts -> HostPlaces]
  /\ making \in [Hosts -> [what : {"engine", "session", "nothing"}, user : Nat \cup {None}]]
  /\ engine \in [Hosts -> Nat \cup {None}] /\ session \in [Hosts -> Nat \cup {None}]
  /\ used \in [Hosts -> Nat]
  /\ names = [engine |-> names.engine, session |-> names.session]

\* Every name has a number of its own, below the size of the map.
IdsDistinct ==
  /\ DOMAIN strToIntMap = names.engine \cup names.session
  /\ IsFiniteSet(DOMAIN strToIntMap)
  /\ \A n \in DOMAIN strToIntMap :
       strToIntMap[n] \in Nat /\ strToIntMap[n] < Cardinality(DOMAIN strToIntMap)
  /\ \A n, m \in DOMAIN strToIntMap : strToIntMap[n] = strToIntMap[m] => n = m

EngineId(u) == \E n \in names.engine : strToIntMap[n] = u
SessionId(u) == \E n \in names.session : strToIntMap[n] = u

\* What a host is making, while it makes it.
MakingFits(h) ==
  /\ at[h] \in {"free", "incall"} => making[h] = Nobody
  /\ at[h] \in {"named", "init", "construct"} =>
       making[h].what \in {"engine", "session"} /\ making[h].user \in Nat
  /\ at[h] = "init" =>
       /\ used[h] \in 1 .. MaxCalls[h]
       /\ call[<<h, used[h]>>] = [op |-> "initUserPars", user |-> making[h].user]

\* The calls of a host are made one after the other.
CallsInOrder(h) ==
  \A k \in 1 .. MaxCalls[h] :
    /\ k > used[h] => pc[<<h, k>>] = "idle" /\ call[<<h, k>>] = [op |-> "none", user |-> None]
    /\ k <= used[h] => /\ pc[<<h, k>>] # "idle" /\ call[<<h, k>>].op \in PluginCalls
                       /\ call[<<h, k>>].user \in Nat
    /\ k < used[h] \/ at[h] \notin {"init", "incall"} => pc[<<h, k>>] \in {"idle", "done"}

\* A host works for users that names have been given.
UsersNamed(h) ==
  /\ engine[h] # None => EngineId(engine[h])
  /\ session[h] # None => SessionId(session[h])
  /\ making[h].what = "engine" => EngineId(making[h].user)
  /\ making[h].what = "session" => SessionId(making[h].user)
  /\ \A k \in 1 .. MaxCalls[h] :
       call[<<h, k>>].user # None => EngineId(call[<<h, k>>].user) \/ SessionId(call[<<h, k>>].user)

\* A released user is that of a former session.
ReleasedGone(h) ==
  \A k \in 1 .. MaxCalls[h] : call[<<h, k>>].op = "release_user_data" =>
    /\ SessionId(call[<<h, k>>].user)
    /\ session[h] # call[<<h, k>>].user
    /\ making[h].what = "session" => making[h].user # call[<<h, k>>].user

\* The decoder knows the users of engines and sessions.
IsReady(u) == Known(u) \/ Initialized(u)

UsersReady(h) ==
  /\ at[h] = "construct" => IsReady(making[h].user)
  /\ engine[h] # None => IsReady(engine[h])
  /\ session[h] # None => IsReady(session[h])

HostInv(h) ==
  MakingFits(h) /\ CallsInOrder(h) /\ UsersNamed(h) /\ ReleasedGone(h) /\ UsersReady(h)

\* Two hosts work for one user only if an engine does.
Has(h, u) ==
  /\ u # None
  /\ \/ making[h].user = u \/ session[h] = u
     \/ \E k \in 1 .. MaxCalls[h] : call[<<h, k>>].user = u

SessionsApart(h, g) == \A u : Has(h, u) /\ Has(g, u) => EngineId(u)

ImtInv ==
  /\ ImtTyped /\ IdsDistinct
  /\ \A h \in Hosts : HostInv(h)
  /\ \A h, g \in Hosts : h # g => SessionsApart(h, g)

-----------------------------------------------------------------------------
LEMMA CallsOfHosts ==
  /\ \A h \in Hosts : MaxCalls[h] \in Nat
  /\ \A h \in Hosts : \A k \in 1 .. MaxCalls[h] : <<h, k>> \in Threads
  /\ \A t \in Threads : \E h \in Hosts : \E k \in 1 .. MaxCalls[h] : t = <<h, k>>
  BY ImtConstants

(* A call of the decoder is a new one, and the last of its host. *)
LEMMA DecoderCalled ==
  ASSUME ImtTyped, NEW h \in Hosts, NEW op \in PluginCalls, NEW u \in Nat,
         CallDecoder(h, op, u)
  PROVE  /\ used[h] + 1 \in 1 .. MaxCalls[h] /\ used' = [used EXCEPT ![h] = used[h] + 1]
         /\ CallMade(<<h, used[h] + 1>>, op, u)
         /\ CallsTyped' /\ used' \in [Hosts -> Nat] /\ UNCHANGED tables
  <1>1. used[h] + 1 \in 1 .. MaxCalls[h] /\ used' = [used EXCEPT ![h] = used[h] + 1]
    BY CallsOfHosts DEF CallDecoder, ImtTyped
  <1>2. op \in AllOps /\ <<h, used[h] + 1>> \in Threads
    BY <1>1, CallsOfHosts DEF AllOps, ExclusiveOps, NonAtomicOps, PluginCalls
  <1>3. CallMade(<<h, used[h] + 1>>, op, u) /\ CallsTyped'
    BY <1>2, EnterMakesCall DEF CallDecoder, ImtTyped
  <1>4. UNCHANGED tables
    BY DEF CallDecoder, Enter
  <1>5. used' \in [Hosts -> Nat]
    BY <1>1 DEF ImtTyped
  <1> QED BY <1>1, <1>3, <1>4, <1>5

LEMMA GoingOnIsTyped ==
  ASSUME CallsTyped, CallsGoOn
  PROVE  CallsTyped'
  BY DEF CallsTyped, CallsGoOn

LEMMA ImtStutter == ASSUME ImtTyped, UNCHANGED vars PROVE CallsGoOn /\ CallsTyped'
  BY UnmovedGoesOn, GoingOnIsTyped DEF ImtTyped

LEMMA ImtDecoderStep == ASSUME ImtTyped, DecoderStep PROVE CallsGoOn /\ CallsTyped'
  BY StepGoesOn, GoingOnIsTyped DEF ImtTyped, DecoderStep

(* A name that is made has a number, and a new name a new number. *)
LEMMA NameMade ==
  ASSUME ImtTyped, IdsDistinct, NEW h \in Hosts, NEW what \in {"engine", "session"}, NEW name,
         Make(h, what, name)
  PROVE  /\ ImtTyped' /\ IdsDistinct' /\ CallsGoOn
         /\ names.engine \subseteq names'.engine /\ names.session \subseteq names'.session
         /\ \A n \in DOMAIN strToIntMap : strToIntMap'[n] = strToIntMap[n]
         /\ making' = [making EXCEPT ![h] = [what |-> what, user |-> strToIntMap'[name]]]
         /\ strToIntMap'[name] \in Nat
         /\ what = "engine" => EngineId(making[h].user)'
         /\ what = "session" => SessionId(making[h].user)'
         /\ name \notin DOMAIN strToIntMap =>
              \A n \in DOMAIN strToIntMap : strToIntMap[n] # strToIntMap'[name]
  <1>1. /\ strToIntMap' = MapWithName(name)
        /\ making' = [making EXCEPT ![h] = [what |-> what, user |-> strToIntMap'[name]]]
        /\ at' = [at EXCEPT ![h] = "named"] /\ UNCHANGED <<vars, engine, session, used>>
    BY DEF Make, Goes
  <1>2. /\ names' = [engine |-> names'.engine, session |-> names'.session]
        /\ names'.engine = IF what = "engine" THEN names.engine \cup {name} ELSE names.engine
        /\ names'.session = IF what = "session" THEN names.session \cup {name} ELSE names.session
    <2>1. names' = [names EXCEPT ![what] = @ \cup {name}]
      BY DEF Make
    <2>2. CASE what = "engine"
      BY <2>1, <2>2 DEF ImtTyped
    <2>3. CASE what = "session"
      BY <2>1, <2>3 DEF ImtTyped
    <2> QED BY <2>2, <2>3
  <1> DEFINE D == DOMAIN strToIntMap
  <1>3. DOMAIN strToIntMap' = D \cup {name}
    BY <1>1 DEF MapWithName
  <1>4. \A n \in D : strToIntMap'[n] = strToIntMap[n]
    BY <1>1 DEF MapWithName
  <1>5. name \notin D => strToIntMap'[name] = Cardinality(D)
    BY <1>1 DEF MapWithName, NewId
  <1>6. IsFiniteSet(D) /\ Cardinality(D) \in Nat
    BY FS_CardinalityType DEF IdsDistinct
  <1>7. /\ IsFiniteSet(D \cup {name})
        /\ Cardinality(D \cup {name}) = IF name \in D THEN Cardinality(D) ELSE Cardinality(D) + 1
    BY <1>6, FS_AddElement
  <1>8. \A n \in D : strToIntMap[n] \in Nat /\ strToIntMap[n] < Cardinality(D)
    BY DEF IdsDistinct
  <1>9. D \cup {name} = names'.engine \cup names'.session
    BY <1>2 DEF IdsDistinct
  <1>10. \A n \in D \cup {name} :
           /\ strToIntMap'[n] \in Nat /\ strToIntMap'[n] < Cardinality(D \cup {name})
           /\ \A m \in D \cup {name} : strToIntMap'[n] = strToIntMap'[m] => n = m
    <2>1. \A n, m \in D : strToIntMap'[n] = strToIntMap'[m] => n = m
      BY <1>4 DEF IdsDistinct
    <2> HIDE DEF D
    <2> QED BY <1>4, <1>5, <1>6, <1>7, <1>8, <2>1
  <1>11. IdsDistinct'
    BY <1>3, <1>7, <1>9, <1>10 DEF IdsDistinct
  <1>12. CallsGoOn /\ CallsTyped'
    BY <1>1, ImtStutter
  <1>13. strToIntMap'[name] \in Nat
    BY <1>10
  <1>14. ImtTyped'
    BY <1>1, <1>2, <1>12, <1>13 DEF ImtTyped, HostPlaces
  <1>15. /\ what = "engine" => EngineId(making[h].user)'
         /\ what = "session" => SessionId(making[h].user)'
    <2>1. making'[h].user = strToIntMap'[name]
      BY <1>1 DEF ImtTyped
    <2>2. what = "engine" => name \in names'.engine
      BY <1>2
    <2>3. what = "session" => name \in names'.session
      BY <1>2
    <2> QED BY <2>1, <2>2, <2>3 DEF EngineId, SessionId
  <1>16. name \notin D => \A n \in D : strToIntMap[n] # strToIntMap'[name]
    BY <1>5, <1>6, <1>8
  <1> QED BY <1>1, <1>2, <1>4, <1>11, <1>12, <1>13, <1>14, <1>15, <1>16

-----------------------------------------------------------------------------
(* What a step keeps.                                                      *)

IdsGrow == \A u : (EngineId(u) => EngineId(u)') /\ (SessionId(u) => SessionId(u)')

LEMMA UnmovedIds ==
  ASSUME UNCHANGED <<strToIntMap, names>>
  PROVE  IdsGrow
  BY DEF IdsGrow, EngineId, SessionId

LEMMA NamedIds ==
  ASSUME ImtTyped, IdsDistinct, NEW h \in Hosts, NEW what \in {"engine", "session"}, NEW name,
         Make(h, what, name)
  PROVE  IdsGrow
  <1>1. /\ names.engine \subseteq names'.engine /\ names.session \subseteq names'.session
        /\ \A n \in DOMAIN strToIntMap : strToIntMap'[n] = strToIntMap[n]
    BY NameMade
  <1>2. \A n \in names.engine \cup names.session : strToIntMap'[n] = strToIntMap[n]
    BY <1>1 DEF IdsDistinct
  <1> QED BY <1>1, <1>2 DEF IdsGrow, EngineId, SessionId

(* The types are kept, and so are the numbers of the names. *)
LEMMA ImtTypedStep ==
  ASSUME ImtInv, [ImtNext]_<<vars, imtVars>>
  PROVE  ImtTyped' /\ IdsDistinct' /\ IdsGrow
  <1> USE DEF ImtInv
  <1> DEFINE Goal == ImtTyped' /\ IdsDistinct' /\ IdsGrow
  <1>a. ASSUME UNCHANGED <<strToIntMap, names>>,
               CallsTyped' /\ at' \in [Hosts -> HostPlaces] /\ used' \in [Hosts -> Nat]
               /\ making' \in [Hosts -> [what : {"engine", "session", "nothing"}, user : Nat \cup {None}]]
               /\ engine' \in [Hosts -> Nat \cup {None}] /\ session' \in [Hosts -> Nat \cup {None}]
        PROVE  Goal
    BY <1>a, UnmovedIds DEF ImtTyped, IdsDistinct
  <1>1. CASE UNCHANGED <<vars, imtVars>>
    BY <1>1, <1>a, ImtStutter DEF imtVars, ImtTyped
  <1>2. CASE DecoderStep
    BY <1>2, <1>a, ImtDecoderStep DEF DecoderStep, imtVars, ImtTyped
  <1>3. ASSUME NEW h \in Hosts, CreateInstance(h) PROVE Goal
    BY <1>3, NameMade, NamedIds DEF CreateInstance
  <1>4. ASSUME NEW h \in Hosts, NewSession(h) PROVE Goal
    BY <1>4, NameMade, NamedIds DEF NewSession
  <1>5. ASSUME NEW h \in Hosts, InitUserParsIfNew(h) PROVE Goal
    <2>1. making[h].user \in Nat /\ "initUserPars" \in PluginCalls
      BY <1>5 DEF InitUserParsIfNew, HostInv, MakingFits, PluginCalls
    <2>2. CallDecoder(h, "initUserPars", making[h].user) => CallsTyped' /\ used' \in [Hosts -> Nat]
      BY <2>1, DecoderCalled
    <2>3. UNCHANGED <<vars, used>> => CallsTyped' /\ used' \in [Hosts -> Nat]
      BY ImtStutter DEF ImtTyped
    <2>4. CallsTyped' /\ used' \in [Hosts -> Nat]
      BY <1>5, <2>2, <2>3 DEF InitUserParsIfNew
    <2>5. at' \in [Hosts -> HostPlaces] /\ UNCHANGED <<strToIntMap, names>>
      BY <1>5 DEF InitUserParsIfNew, Goes, HostPlaces, ImtTyped
    <2>6. making' \in [Hosts -> [what : {"engine", "session", "nothing"}, user : Nat \cup {None}]]
      BY <1>5 DEF InitUserParsIfNew, ImtTyped, Nobody
    <2>7. engine' \in [Hosts -> Nat \cup {None}] /\ session' \in [Hosts -> Nat \cup {None}]
      BY <1>5 DEF InitUserParsIfNew, ImtTyped
    <2> QED BY <1>a, <2>4, <2>5, <2>6, <2>7
  <1>6. ASSUME NEW h \in Hosts, InitUserParsDone(h) PROVE Goal
    BY <1>6, <1>a, ImtStutter DEF InitUserParsDone, Goes, HostPlaces, ImtTyped
  <1>7. ASSUME NEW h \in Hosts, Construct(h) PROVE Goal
    <2>1. making[h].user \in Nat /\ "startCat" \in PluginCalls
      BY <1>7 DEF Construct, HostInv, MakingFits, PluginCalls
    <2>2. CallDecoder(h, "startCat", making[h].user) => CallsTyped' /\ used' \in [Hosts -> Nat]
      BY <2>1, DecoderCalled
    <2>3. UNCHANGED <<vars, used>> => CallsTyped' /\ used' \in [Hosts -> Nat]
      BY ImtStutter DEF ImtTyped
    <2>4. CallsTyped' /\ used' \in [Hosts -> Nat]
      BY <1>7, <2>2, <2>3 DEF Construct
    <2>5. at' \in [Hosts -> HostPlaces] /\ UNCHANGED <<strToIntMap, names>>
      BY <1>7 DEF Construct, Goes, HostPlaces, ImtTyped
    <2>6. making' \in [Hosts -> [what : {"engine", "session", "nothing"}, user : Nat \cup {None}]]
      BY <1>7, <2>1 DEF Construct, ImtTyped, Nobody
    <2>7. engine' \in [Hosts -> Nat \cup {None}] /\ session' \in [Hosts -> Nat \cup {None}]
      BY <1>7, <2>1 DEF Construct, ImtTyped
    <2> QED BY <1>a, <2>4, <2>5, <2>6, <2>7
  <1>8. ASSUME NEW h \in Hosts, UseEngine(h) \/ SetPrefix(h) \/ DeleteSession(h) PROVE Goal
    <2>1. PICK op \in PluginCalls, u \in Nat : CallDecoder(h, op, u)
      BY <1>8 DEF UseEngine, SetPrefix, DeleteSession, PluginCalls, ImtTyped
    <2>2. CallsTyped' /\ used' \in [Hosts -> Nat]
      BY <2>1, DecoderCalled
    <2>5. at' \in [Hosts -> HostPlaces] /\ UNCHANGED <<strToIntMap, names>>
      BY <1>8 DEF UseEngine, SetPrefix, DeleteSession, Goes, HostPlaces, ImtTyped
    <2>6. making' \in [Hosts -> [what : {"engine", "session", "nothing"}, user : Nat \cup {None}]]
      BY <1>8 DEF UseEngine, SetPrefix, DeleteSession, ImtTyped, Nobody
    <2>7. engine' \in [Hosts -> Nat \cup {None}] /\ session' \in [Hosts -> Nat \cup {None}]
      BY <1>8 DEF UseEngine, SetPrefix, DeleteSession, ImtTyped
    <2> QED BY <1>a, <2>2, <2>5, <2>6, <2>7
  <1>9. ASSUME NEW h \in Hosts, DeleteInstance(h) PROVE Goal
    BY <1>9, <1>a, ImtStutter DEF DeleteInstance, ImtTyped
  <1>10. ASSUME NEW h \in Hosts, CallReturns(h) PROVE Goal
    BY <1>10, <1>a, ImtStutter DEF CallReturns, Goes, HostPlaces, ImtTyped
  <1> QED BY <1>1, <1>2, <1>3, <1>4, <1>5, <1>6, <1>7, <1>8, <1>9, <1>10 DEF ImtNext, HostStep

(* A step lets the calls go on or makes one. *)
LEMMA ImtCallsChange ==
  ASSUME ImtInv, [ImtNext]_<<vars, imtVars>>
  PROVE  \/ CallsGoOn
         \/ \E h \in Hosts, op \in PluginCalls, u \in Nat : CallDecoder(h, op, u)
  <1> USE DEF ImtInv
  <1> DEFINE Goal == \/ CallsGoOn
                     \/ \E h \in Hosts, op \in PluginCalls, u \in Nat : CallDecoder(h, op, u)
  <1>1. CASE UNCHANGED vars
    BY <1>1, ImtStutter
  <1>2. CASE DecoderStep
    BY <1>2, ImtDecoderStep
  <1>3. ASSUME NEW h \in Hosts, CreateInstance(h) \/ NewSession(h) PROVE Goal
    BY <1>1, <1>3 DEF CreateInstance, NewSession, Make
  <1>4. ASSUME NEW h \in Hosts, InitUserParsIfNew(h) PROVE Goal
    <2>1. making[h].user \in Nat /\ "initUserPars" \in PluginCalls
      BY <1>4 DEF InitUserParsIfNew, HostInv, MakingFits, PluginCalls
    <2> QED BY <1>1, <1>4, <2>1 DEF InitUserParsIfNew
  <1>5. ASSUME NEW h \in Hosts, Construct(h) PROVE Goal
    <2>1. making[h].user \in Nat /\ "startCat" \in PluginCalls
      BY <1>5 DEF Construct, HostInv, MakingFits, PluginCalls
    <2> QED BY <1>1, <1>5, <2>1 DEF Construct
  <1>6. ASSUME NEW h \in Hosts, UseEngine(h) \/ SetPrefix(h) \/ DeleteSession(h) PROVE Goal
    BY <1>6 DEF UseEngine, SetPrefix, DeleteSession, PluginCalls, ImtTyped
  <1>7. ASSUME NEW h \in Hosts, InitUserParsDone(h) \/ DeleteInstance(h) \/ CallReturns(h)
        PROVE Goal
    BY <1>1, <1>7 DEF InitUserParsDone, DeleteInstance, CallReturns
  <1> QED BY <1>1, <1>2, <1>3, <1>4, <1>5, <1>6, <1>7 DEF ImtNext, HostStep

(* A known user stays known, as no plugin calls clearTrans. *)
ReadyGrows == \A u : IsReady(u) => IsReady(u)'

LEMMA KnownStays ==
  ASSUME ImtInv, [ImtNext]_<<vars, imtVars>>
  PROVE  DOMAIN userIdToIdx \subseteq DOMAIN userIdToIdx'
  <1>1. CASE UNCHANGED tables
    BY <1>1 DEF tables
  <1>2. CASE DecoderStep
    <2>1. PICK t \in Threads : RejectEmptyPair(t) \/ SpuriousWakeup(t) \/ Step(t)
      BY <1>2 DEF DecoderStep
    <2>a. PICK h \in Hosts : \E k \in 1 .. MaxCalls[h] : t = <<h, k>>
      BY CallsOfHosts
    <2>2. PICK k \in 1 .. MaxCalls[h] : t = <<h, k>>
      BY <2>a
    <2>3. used[h] \in Nat /\ k \in Nat
      BY CallsOfHosts DEF ImtInv, ImtTyped
    <2>4. call[t].op \in PluginCalls \cup {"none"}
      BY <2>2, <2>3 DEF ImtInv, HostInv, CallsInOrder
    <2>5. ~ClearTrans(t)
      BY <2>4 DEF ClearTrans, PluginCalls
    <2>6. CASE GetVecIdx(t)
      BY <2>6 DEF GetVecIdx, MapWith
    <2>7. CASE ~GetVecIdx(t)
      BY <2>1, <2>5, <2>7 DEF RejectEmptyPair, SpuriousWakeup, Step, LockAtomicOp,
         AwaitNonAtomicOps, InitUserPars, Train, PrintModels, UnlockNonAtomicOp, UnlockAtomicOp,
         IncreaseNonAtomicOps, LockUser, UnlockUser, DecreaseNonAtomicOps, ReleaseUserData, tables
    <2> QED BY <2>6, <2>7
  <1>3. ASSUME NEW h \in Hosts, HostStep(h) PROVE UNCHANGED tables
    <2>1. UNCHANGED vars \/ \E op, u : CallDecoder(h, op, u)
      BY <1>3 DEF HostStep, CreateInstance, NewSession, Make, InitUserParsIfNew, InitUserParsDone,
         Construct, UseEngine, SetPrefix, DeleteSession, DeleteInstance, CallReturns
    <2> QED BY <2>1 DEF vars, CallDecoder, Enter
  <1> QED BY <1>1, <1>2, <1>3 DEF ImtNext, vars

LEMMA ReadyStays ==
  ASSUME ImtInv, [ImtNext]_<<vars, imtVars>>
  PROVE  ReadyGrows
  <1> SUFFICES ASSUME NEW u, Initialized(u) PROVE Initialized(u)'
    BY KnownStays DEF ReadyGrows, IsReady, Known
  <1>1. PICK s \in Threads : call[s] = [op |-> "initUserPars", user |-> u] /\ pc[s] = "done"
    BY DEF Initialized
  <1>2. CASE CallsGoOn
    BY <1>1, <1>2 DEF CallsGoOn, Initialized
  <1>3. ASSUME NEW h \in Hosts, NEW op \in PluginCalls, NEW v \in Nat, CallDecoder(h, op, v)
        PROVE  Initialized(u)'
    <2>1. CallMade(<<h, used[h] + 1>>, op, v)
      BY <1>3, DecoderCalled DEF ImtInv
    <2>2. call'[s] = call[s] /\ pc'[s] = pc[s]
      BY <1>1, <2>1 DEF CallMade
    <2> QED BY <1>1, <2>2 DEF Initialized
  <1> QED BY <1>2, <1>3, ImtCallsChange

\* The calls of a host that makes none now.
CallsKept(h) ==
  \A k \in 1 .. MaxCalls[h] :
    /\ call'[<<h, k>>] = call[<<h, k>>]
    /\ pc[<<h, k>>] \in {"idle", "done"} => pc'[<<h, k>>] = pc[<<h, k>>]
    /\ pc[<<h, k>>] # "idle" => pc'[<<h, k>>] # "idle"

(* A host that does nothing keeps its part of the invariant. *)
LEMMA HostKept ==
  ASSUME NEW g \in Hosts, HostInv(g), IdsGrow, ReadyGrows,
         at'[g] = at[g], making'[g] = making[g], engine'[g] = engine[g],
         session'[g] = session[g], used'[g] = used[g],
         CallsKept(g)
  PROVE  HostInv(g)'
  <1>1. MakingFits(g)'
    BY CallsOfHosts DEF HostInv, MakingFits, CallsKept
  <1>2. CallsInOrder(g)'
    BY DEF HostInv, CallsInOrder, CallsKept
  <1>3. UsersNamed(g)'
    BY DEF HostInv, UsersNamed, IdsGrow, CallsKept
  <1>4. ReleasedGone(g)'
    BY DEF HostInv, ReleasedGone, IdsGrow, CallsKept
  <1>5. UsersReady(g)'
    BY DEF HostInv, UsersReady, ReadyGrows
  <1> QED BY <1>1, <1>2, <1>3, <1>4, <1>5 DEF HostInv

LEMMA CallsOfOthers ==
  ASSUME ImtTyped, NEW g \in Hosts,
         \/ CallsGoOn
         \/ \E h \in Hosts \ {g}, op \in PluginCalls, u \in Nat : CallDecoder(h, op, u)
  PROVE  CallsKept(g)
  <1> SUFFICES ASSUME NEW k \in 1 .. MaxCalls[g]
               PROVE  /\ call'[<<g, k>>] = call[<<g, k>>]
                      /\ pc[<<g, k>>] \in {"idle", "done"} => pc'[<<g, k>>] = pc[<<g, k>>]
                      /\ pc[<<g, k>>] # "idle" => pc'[<<g, k>>] # "idle"
    BY DEF CallsKept
  <1>0. <<g, k>> \in Threads
    BY CallsOfHosts
  <1>1. CASE CallsGoOn
    BY <1>0, <1>1 DEF CallsGoOn
  <1>2. ASSUME NEW h \in Hosts \ {g}, NEW op \in PluginCalls, NEW u \in Nat,
               CallDecoder(h, op, u)
        PROVE  call'[<<g, k>>] = call[<<g, k>>] /\ pc'[<<g, k>>] = pc[<<g, k>>]
    <2>1. CallMade(<<h, used[h] + 1>>, op, u)
      BY <1>2, DecoderCalled
    <2>2. <<g, k>> # <<h, used[h] + 1>>
      OBVIOUS
    <2> QED BY <1>0, <2>1, <2>2 DEF CallMade
  <1> QED BY <1>1, <1>2

-----------------------------------------------------------------------------
(* The host that takes a step keeps its part of the invariant.             *)

CallAdded(h, op, u) ==
  \A k \in 1 .. MaxCalls[h] :
    call'[<<h, k>>] = IF k = used[h] + 1 THEN [op |-> op, user |-> u] ELSE call[<<h, k>>]

LEMMA OrderKept ==
  ASSUME ImtTyped, NEW h \in Hosts, CallsInOrder(h), used'[h] = used[h], CallsKept(h),
         at[h] \notin {"init", "incall"} \/ pc[<<h, used[h]>>] = "done",
         at'[h] \notin {"init", "incall"}
  PROVE  CallsInOrder(h)'
  <1>1. used[h] \in Nat /\ MaxCalls[h] \in Nat
    BY CallsOfHosts DEF ImtTyped
  <1> QED BY <1>1 DEF CallsInOrder, CallsKept

LEMMA OrderWithCall ==
  ASSUME ImtTyped, NEW h \in Hosts, CallsInOrder(h), NEW op \in PluginCalls, NEW u \in Nat,
         CallDecoder(h, op, u), at[h] \notin {"init", "incall"}, at'[h] \in {"init", "incall"}
  PROVE  /\ CallsInOrder(h)' /\ CallAdded(h, op, u)
         /\ used'[h] = used[h] + 1 /\ used[h] + 1 \in 1 .. MaxCalls[h]
  <1>1. used[h] \in Nat /\ MaxCalls[h] \in Nat
    BY CallsOfHosts DEF ImtTyped
  <1>2. /\ used[h] + 1 \in 1 .. MaxCalls[h] /\ used'[h] = used[h] + 1
        /\ CallMade(<<h, used[h] + 1>>, op, u)
    BY DecoderCalled DEF ImtTyped
  <1>3. ASSUME NEW k \in 1 .. MaxCalls[h]
        PROVE  IF k = used[h] + 1
               THEN call'[<<h, k>>] = [op |-> op, user |-> u] /\ pc'[<<h, k>>] # "idle"
               ELSE call'[<<h, k>>] = call[<<h, k>>] /\ pc'[<<h, k>>] = pc[<<h, k>>]
    <2>1. <<h, k>> \in Threads
      BY CallsOfHosts
    <2>2. k # used[h] + 1 => <<h, k>> # <<h, used[h] + 1>>
      OBVIOUS
    <2> QED BY <1>2, <2>1, <2>2 DEF CallMade
  <1>4. CallAdded(h, op, u)
    BY <1>3 DEF CallAdded
  <1>5. CallsInOrder(h)'
    <2> SUFFICES ASSUME NEW k \in 1 .. MaxCalls[h]
        PROVE /\ k > used'[h] =>
                   pc'[<<h, k>>] = "idle" /\ call'[<<h, k>>] = [op |-> "none", user |-> None]
              /\ k <= used'[h] => /\ pc'[<<h, k>>] # "idle" /\ call'[<<h, k>>].op \in PluginCalls
                                  /\ call'[<<h, k>>].user \in Nat
              /\ k < used'[h] => pc'[<<h, k>>] \in {"idle", "done"}
      BY DEF CallsInOrder
    <2>1. CASE k = used[h] + 1
      BY <1>1, <1>2, <1>3, <2>1
    <2>2. CASE k # used[h] + 1
      BY <1>1, <1>2, <1>3, <2>2 DEF CallsInOrder
    <2> QED BY <2>1, <2>2
  <1> QED BY <1>2, <1>4, <1>5

(* The parts about names, when a call is added or none. *)
LEMMA NamedKept ==
  ASSUME NEW h \in Hosts, UsersNamed(h), IdsGrow, CallsKept(h)
  PROVE  \A k \in 1 .. MaxCalls[h] :
           call'[<<h, k>>].user # None =>
             EngineId(call[<<h, k>>].user)' \/ SessionId(call[<<h, k>>].user)'
  BY DEF UsersNamed, IdsGrow, CallsKept

LEMMA NamedWithCall ==
  ASSUME NEW h \in Hosts, UsersNamed(h), IdsGrow, NEW op, NEW u, CallAdded(h, op, u),
         EngineId(u)' \/ SessionId(u)'
  PROVE  \A k \in 1 .. MaxCalls[h] :
           call'[<<h, k>>].user # None =>
             EngineId(call[<<h, k>>].user)' \/ SessionId(call[<<h, k>>].user)'
  BY DEF UsersNamed, IdsGrow, CallAdded

LEMMA MakesName ==
  ASSUME ImtInv, NEW h \in Hosts, IdsGrow, ReadyGrows, CreateInstance(h) \/ NewSession(h)
  PROVE  HostInv(h)'
  <1> USE DEF ImtInv
  <1>a. PICK what \in {"engine", "session"} :
          \E n : Make(h, what, n) /\ (what = "session" => n \notin DOMAIN strToIntMap)
    BY DEF CreateInstance, NewSession, NewUserName
  <1>1. PICK name : Make(h, what, name) /\ (what = "session" => name \notin DOMAIN strToIntMap)
    BY <1>a
  <1>2. at[h] = "free" /\ UNCHANGED <<vars, engine, session, used>> /\ at'[h] = "named"
    BY <1>1 DEF CreateInstance, NewSession, Free, Make, Goes, ImtTyped
  <1>3. CallsGoOn /\ CallsKept(h)
    BY <1>2, ImtStutter, CallsOfOthers
  <1>4. /\ making'[h] = [what |-> what, user |-> strToIntMap'[name]]
        /\ strToIntMap'[name] \in Nat
        /\ what = "engine" => EngineId(making[h].user)'
        /\ what = "session" => SessionId(making[h].user)'
        /\ what = "session" =>
             \A n \in DOMAIN strToIntMap : strToIntMap[n] # strToIntMap'[name]
    BY <1>1, NameMade DEF ImtTyped
  <1>5. MakingFits(h)'
    BY <1>2, <1>4 DEF MakingFits
  <1>6. CallsInOrder(h)'
    BY <1>2, <1>3, OrderKept DEF HostInv
  <1>7. UsersNamed(h)'
    BY <1>2, <1>3, <1>4, NamedKept DEF HostInv, UsersNamed, IdsGrow
  <1>8. ReleasedGone(h)'
    <2> SUFFICES ASSUME NEW k \in 1 .. MaxCalls[h], call[<<h, k>>].op = "release_user_data"
                 PROVE  /\ SessionId(call[<<h, k>>].user)'
                        /\ session[h] # call[<<h, k>>].user
                        /\ what = "session" => making'[h].user # call[<<h, k>>].user
      BY <1>2, <1>3, <1>4 DEF ReleasedGone, CallsKept
    <2>1. SessionId(call[<<h, k>>].user) /\ session[h] # call[<<h, k>>].user
      BY DEF HostInv, ReleasedGone
    <2>2. \E n \in DOMAIN strToIntMap : strToIntMap[n] = call[<<h, k>>].user
      BY <2>1 DEF SessionId, IdsDistinct
    <2>3. call'[<<h, k>>] = call[<<h, k>>]
      BY <1>3 DEF CallsKept
    <2>4. SessionId(call[<<h, k>>].user)'
      BY <2>1, <2>3 DEF IdsGrow
    <2> QED BY <1>4, <2>1, <2>2, <2>4
  <1>9. UsersReady(h)'
    BY <1>2 DEF HostInv, UsersReady, ReadyGrows
  <1> QED BY <1>5, <1>6, <1>7, <1>8, <1>9 DEF HostInv

LEMMA Initializes ==
  ASSUME ImtInv, NEW h \in Hosts, IdsGrow, ReadyGrows, InitUserParsIfNew(h)
  PROVE  HostInv(h)'
  <1> USE DEF ImtInv
  <1> DEFINE u == making[h].user
  <1>1. /\ at[h] = "named" /\ UNCHANGED <<strToIntMap, making, engine, session, names>>
        /\ u \in Nat /\ making[h].what \in {"engine", "session"}
    BY DEF InitUserParsIfNew, HostInv, MakingFits
  <1>2. UsersNamed(h) /\ ReleasedGone(h) /\ UsersReady(h) /\ CallsInOrder(h)
    BY DEF HostInv
  <1>3. EngineId(u)' \/ SessionId(u)'
    BY <1>1, <1>2 DEF UsersNamed, IdsGrow
  <1>4. CASE Known(u) /\ Goes(h, "construct") /\ UNCHANGED <<vars, used>>
    <2>1. at'[h] = "construct" /\ used'[h] = used[h]
      BY <1>4 DEF Goes, ImtTyped
    <2>2. CallsKept(h)
      BY <1>4, ImtStutter, CallsOfOthers
    <2>3. MakingFits(h)'
      BY <1>1, <2>1 DEF MakingFits
    <2>4. CallsInOrder(h)'
      BY <1>1, <1>2, <2>1, <2>2, OrderKept
    <2>5. UsersNamed(h)'
      BY <1>1, <1>2, <2>2, NamedKept DEF UsersNamed, IdsGrow
    <2>6. ReleasedGone(h)'
      BY <1>1, <1>2, <2>2 DEF ReleasedGone, IdsGrow, CallsKept
    <2>7. UsersReady(h)'
      BY <1>1, <1>2, <1>4 DEF UsersReady, ReadyGrows, IsReady
    <2> QED BY <2>3, <2>4, <2>5, <2>6, <2>7 DEF HostInv
  <1>5. CASE Goes(h, "init") /\ CallDecoder(h, "initUserPars", u)
    <2>1. at'[h] = "init" /\ "initUserPars" \in PluginCalls
      BY <1>5 DEF Goes, ImtTyped, PluginCalls
    <2>2. /\ CallsInOrder(h)' /\ CallAdded(h, "initUserPars", u)
          /\ used'[h] = used[h] + 1 /\ used[h] + 1 \in 1 .. MaxCalls[h]
      BY <1>1, <1>2, <1>5, <2>1, OrderWithCall
    <2>3. MakingFits(h)'
      BY <1>1, <2>1, <2>2 DEF MakingFits, CallAdded
    <2>5. UsersNamed(h)'
      BY <1>1, <1>2, <1>3, <2>2, NamedWithCall DEF UsersNamed, IdsGrow
    <2>6. ReleasedGone(h)'
      BY <1>1, <1>2, <2>2 DEF ReleasedGone, IdsGrow, CallAdded
    <2>7. UsersReady(h)'
      BY <1>1, <1>2, <2>1 DEF UsersReady, ReadyGrows
    <2> QED BY <2>2, <2>3, <2>5, <2>6, <2>7 DEF HostInv
  <1> QED BY <1>4, <1>5 DEF InitUserParsIfNew

LEMMA InitReturns ==
  ASSUME ImtInv, NEW h \in Hosts, IdsGrow, ReadyGrows, InitUserParsDone(h)
  PROVE  HostInv(h)'
  <1> USE DEF ImtInv
  <1> DEFINE u == making[h].user
  <1>1. /\ at[h] = "init" /\ at'[h] = "construct" /\ pc[<<h, used[h]>>] = "done"
        /\ UNCHANGED <<vars, strToIntMap, making, engine, session, used, names>>
    BY DEF InitUserParsDone, Goes, ImtTyped, Called
  <1>2. UsersNamed(h) /\ ReleasedGone(h) /\ UsersReady(h) /\ CallsInOrder(h)
    BY DEF HostInv
  <1>3. /\ u \in Nat /\ making[h].what \in {"engine", "session"}
        /\ used[h] \in 1 .. MaxCalls[h]
        /\ call[<<h, used[h]>>] = [op |-> "initUserPars", user |-> u]
    BY <1>1 DEF HostInv, MakingFits
  <1>4. IsReady(u)
    BY <1>1, <1>3, CallsOfHosts DEF IsReady, Initialized
  <1>5. CallsKept(h)
    BY <1>1, ImtStutter, CallsOfOthers
  <1>6. MakingFits(h)'
    BY <1>1, <1>3 DEF MakingFits
  <1>7. CallsInOrder(h)'
    BY <1>1, <1>2, <1>5, OrderKept
  <1>8. UsersNamed(h)'
    BY <1>1, <1>2, <1>5, NamedKept DEF UsersNamed, IdsGrow
  <1>9. ReleasedGone(h)'
    BY <1>1, <1>2, <1>5 DEF ReleasedGone, IdsGrow, CallsKept
  <1>10. UsersReady(h)'
    BY <1>1, <1>2, <1>4 DEF UsersReady, ReadyGrows
  <1> QED BY <1>6, <1>7, <1>8, <1>9, <1>10 DEF HostInv

LEMMA Constructs ==
  ASSUME ImtInv, NEW h \in Hosts, IdsGrow, ReadyGrows, Construct(h)
  PROVE  HostInv(h)'
  <1> USE DEF ImtInv
  <1>0. PICK u : u = making[h].user
    OBVIOUS
  <1>1. /\ at[h] = "construct" /\ making'[h] = Nobody /\ UNCHANGED <<strToIntMap, names>>
        /\ u \in Nat
    BY <1>0 DEF Construct, HostInv, MakingFits, ImtTyped
  <1>2. UsersNamed(h) /\ ReleasedGone(h) /\ UsersReady(h) /\ CallsInOrder(h)
    BY DEF HostInv
  <1>4. CASE /\ making[h].what = "engine" /\ engine' = [engine EXCEPT ![h] = u]
             /\ Goes(h, "free") /\ UNCHANGED <<vars, session, used>>
    <2>1. at'[h] = "free" /\ used'[h] = used[h] /\ engine'[h] = u /\ session'[h] = session[h]
      BY <1>4 DEF Goes, ImtTyped
    <2>2. CallsKept(h)
      BY <1>4, ImtStutter, CallsOfOthers
    <2>3. MakingFits(h)'
      BY <1>1, <2>1 DEF MakingFits
    <2>4. CallsInOrder(h)'
      BY <1>0, <1>1, <1>2, <2>1, <2>2, OrderKept
    <2>5. UsersNamed(h)'
      BY <1>0, <1>1, <1>2, <1>4, <2>1, <2>2, NamedKept DEF UsersNamed, IdsGrow, Nobody
    <2>6. ReleasedGone(h)'
      BY <1>0, <1>1, <1>2, <2>1, <2>2 DEF ReleasedGone, IdsGrow, CallsKept, Nobody
    <2>7. UsersReady(h)'
      BY <1>0, <1>1, <1>2, <2>1 DEF UsersReady, ReadyGrows
    <2> QED BY <2>3, <2>4, <2>5, <2>6, <2>7 DEF HostInv
  <1>5. CASE /\ making[h].what = "session" /\ CallDecoder(h, "startCat", u)
             /\ session' = [session EXCEPT ![h] = u] /\ Goes(h, "incall") /\ UNCHANGED engine
    <2>1. /\ at'[h] = "incall" /\ "startCat" \in PluginCalls
          /\ session'[h] = u /\ engine'[h] = engine[h]
      BY <1>5 DEF Goes, ImtTyped, PluginCalls
    <2>2. /\ CallsInOrder(h)' /\ CallAdded(h, "startCat", u)
          /\ used'[h] = used[h] + 1 /\ used[h] + 1 \in 1 .. MaxCalls[h]
      BY <1>0, <1>1, <1>2, <1>5, <2>1, OrderWithCall
    <2>3. MakingFits(h)'
      BY <1>1, <2>1 DEF MakingFits
    <2>4. SessionId(u)'
      BY <1>0, <1>2, <1>5 DEF UsersNamed, IdsGrow
    <2>5. UsersNamed(h)'
      BY <1>0, <1>1, <1>2, <2>1, <2>2, <2>4, NamedWithCall DEF UsersNamed, IdsGrow, Nobody
    <2>6. ReleasedGone(h)'
      BY <1>0, <1>1, <1>2, <1>5, <2>1, <2>2 DEF ReleasedGone, IdsGrow, CallAdded, Nobody
    <2>7. UsersReady(h)'
      BY <1>0, <1>1, <1>2, <2>1 DEF UsersReady, ReadyGrows
    <2> QED BY <2>2, <2>3, <2>5, <2>6, <2>7 DEF HostInv
  <1> QED BY <1>0, <1>4, <1>5 DEF Construct

LEMMA UsesDecoder ==
  ASSUME ImtInv, NEW h \in Hosts, IdsGrow, ReadyGrows,
         UseEngine(h) \/ SetPrefix(h) \/ DeleteSession(h)
  PROVE  HostInv(h)'
  <1> USE DEF ImtInv
  <1>1. PICK op \in PluginCalls, u \in Nat :
          /\ CallDecoder(h, op, u)
          /\ \/ u = engine[h] /\ op # "release_user_data" /\ session' = session
             \/ u = session[h] /\ op # "release_user_data" /\ session' = session
             \/ u = session[h] /\ session'[h] = None
    BY DEF UseEngine, SetPrefix, DeleteSession, PluginCalls, ImtTyped
  <1>2. /\ at[h] = "free" /\ at'[h] = "incall"
        /\ UNCHANGED <<strToIntMap, making, engine, names>>
    BY DEF UseEngine, SetPrefix, DeleteSession, Free, Goes, ImtTyped
  <1>3. UsersNamed(h) /\ ReleasedGone(h) /\ UsersReady(h) /\ CallsInOrder(h)
        /\ making[h] = Nobody
    BY <1>2 DEF HostInv, MakingFits
  <1>4. u # None
    BY ImtConstants
  <1>5. CallsInOrder(h)' /\ CallAdded(h, op, u)
    BY <1>1, <1>2, <1>3, OrderWithCall
  <1>6. MakingFits(h)'
    BY <1>2, <1>3 DEF MakingFits
  <1>7. EngineId(u)' \/ SessionId(u)'
    BY <1>1, <1>3, <1>4 DEF UsersNamed, IdsGrow
  <1>8. UsersNamed(h)'
    BY <1>1, <1>2, <1>3, <1>5, <1>7, NamedWithCall DEF UsersNamed, IdsGrow, Nobody
  <1>9. ReleasedGone(h)'
    <2> SUFFICES ASSUME NEW k \in 1 .. MaxCalls[h], call'[<<h, k>>].op = "release_user_data"
                 PROVE  /\ SessionId(call[<<h, k>>].user)'
                        /\ session'[h] # call'[<<h, k>>].user
      BY <1>2, <1>3 DEF ReleasedGone, Nobody
    <2>1. CASE k = used[h] + 1
      <3>1. call'[<<h, k>>] = [op |-> op, user |-> u]
        BY <1>5, <2>1 DEF CallAdded
      <3>2. u = session[h] /\ session'[h] = None
        BY <1>1, <3>1
      <3>3. SessionId(u)'
        BY <1>3, <1>4, <3>2 DEF UsersNamed, IdsGrow
      <3> QED BY <1>4, <3>1, <3>2, <3>3
    <2>2. CASE k # used[h] + 1
      <3>1. call'[<<h, k>>] = call[<<h, k>>]
        BY <1>5, <2>2 DEF CallAdded
      <3>2. SessionId(call[<<h, k>>].user) /\ session[h] # call[<<h, k>>].user
        BY <1>3, <3>1 DEF ReleasedGone
      <3>3. call[<<h, k>>].user # None
        <4>1. used[h] \in Nat /\ k \in Nat
          BY CallsOfHosts DEF ImtTyped
        <4>2. call[<<h, k>>].user \in Nat
          BY <1>3, <3>1, <4>1 DEF CallsInOrder
        <4> QED BY <4>2, ImtConstants
      <3>4. SessionId(call[<<h, k>>].user)'
        BY <3>1, <3>2 DEF IdsGrow
      <3> QED BY <1>1, <3>1, <3>2, <3>3, <3>4
    <2> QED BY <2>1, <2>2
  <1>10. UsersReady(h)'
    BY <1>1, <1>2, <1>3 DEF UsersReady, ReadyGrows
  <1> QED BY <1>5, <1>6, <1>8, <1>9, <1>10 DEF HostInv

LEMMA Rests ==
  ASSUME ImtInv, NEW h \in Hosts, IdsGrow, ReadyGrows, DeleteInstance(h) \/ CallReturns(h)
  PROVE  HostInv(h)'
  <1> USE DEF ImtInv
  <1>1. /\ at'[h] = "free"
        /\ at[h] = "free" \/ (at[h] = "incall" /\ pc[<<h, used[h]>>] = "done")
        /\ engine'[h] \in {engine[h], None}
        /\ UNCHANGED <<vars, strToIntMap, making, session, used, names>>
    BY DEF DeleteInstance, CallReturns, Free, Goes, ImtTyped, Called
  <1>2. UsersNamed(h) /\ ReleasedGone(h) /\ UsersReady(h) /\ CallsInOrder(h) /\ MakingFits(h)
    BY DEF HostInv
  <1>3. CallsKept(h)
    BY <1>1, ImtStutter, CallsOfOthers
  <1>4. MakingFits(h)'
    BY <1>1, <1>2 DEF MakingFits
  <1>5. CallsInOrder(h)'
    BY <1>1, <1>2, <1>3, OrderKept
  <1>6. UsersNamed(h)'
    BY <1>1, <1>2, <1>3, NamedKept DEF UsersNamed, IdsGrow
  <1>7. ReleasedGone(h)'
    BY <1>1, <1>2, <1>3 DEF ReleasedGone, IdsGrow, CallsKept
  <1>8. UsersReady(h)'
    BY <1>1, <1>2 DEF UsersReady, ReadyGrows
  <1> QED BY <1>4, <1>5, <1>6, <1>7, <1>8 DEF HostInv

(* A step of a host changes nothing of another. *)
Unmoved(g) ==
  /\ at'[g] = at[g] /\ making'[g] = making[g] /\ engine'[g] = engine[g]
  /\ session'[g] = session[g] /\ used'[g] = used[g] /\ CallsKept(g)

LEMMA OthersUnmoved ==
  ASSUME ImtInv, NEW h \in Hosts, NEW g \in Hosts \ {h}, HostStep(h)
  PROVE  Unmoved(g)
  <1> USE DEF ImtInv
  <1>a. ASSUME NEW op \in PluginCalls, NEW u \in Nat, CallDecoder(h, op, u)
        PROVE  CallsKept(g) /\ used'[g] = used[g]
    BY ZenonT(60), <1>a, CallsOfOthers, DecoderCalled DEF ImtTyped
  <1>b. UNCHANGED <<vars, used>> => CallsKept(g) /\ used'[g] = used[g]
    BY ImtStutter, CallsOfOthers
  <1>1. CASE CreateInstance(h) \/ NewSession(h)
    BY <1>1, <1>b DEF CreateInstance, NewSession, Make, Goes, ImtTyped, Unmoved
  <1>2. CASE InitUserParsIfNew(h)
    <2>1. making[h].user \in Nat /\ "initUserPars" \in PluginCalls
      BY <1>2 DEF InitUserParsIfNew, HostInv, MakingFits, PluginCalls
    <2> QED BY <1>2, <1>a, <1>b, <2>1 DEF InitUserParsIfNew, Goes, ImtTyped, Unmoved
  <1>3. CASE Construct(h)
    <2>1. making[h].user \in Nat /\ "startCat" \in PluginCalls
      BY <1>3 DEF Construct, HostInv, MakingFits, PluginCalls
    <2> QED BY <1>3, <1>a, <1>b, <2>1 DEF Construct, Goes, ImtTyped, Unmoved
  <1>4. CASE UseEngine(h) \/ SetPrefix(h) \/ DeleteSession(h)
    <2>1. CallsKept(g) /\ used'[g] = used[g]
      BY <1>4, <1>a DEF UseEngine, SetPrefix, DeleteSession, PluginCalls, ImtTyped
    <2> QED BY <1>4, <2>1 DEF UseEngine, SetPrefix, DeleteSession, Goes, ImtTyped, Unmoved
  <1>5. CASE InitUserParsDone(h) \/ DeleteInstance(h) \/ CallReturns(h)
    BY <1>5, <1>b DEF InitUserParsDone, DeleteInstance, CallReturns, Goes, ImtTyped, Unmoved
  <1> QED BY <1>1, <1>2, <1>3, <1>4, <1>5 DEF HostStep

LEMMA QuietUnmoved ==
  ASSUME ImtInv, NEW g \in Hosts, UNCHANGED <<vars, imtVars>> \/ DecoderStep
  PROVE  Unmoved(g) /\ UNCHANGED <<strToIntMap, names>>
  <1>1. CallsGoOn
    BY ImtStutter, ImtDecoderStep DEF ImtInv
  <1> QED BY <1>1, CallsOfOthers DEF ImtInv, DecoderStep, imtVars, Unmoved

LEMMA HostInvStep ==
  ASSUME ImtInv, [ImtNext]_<<vars, imtVars>>, NEW g \in Hosts
  PROVE  HostInv(g)'
  <1>1. IdsGrow /\ ReadyGrows /\ HostInv(g)
    BY ImtTypedStep, ReadyStays DEF ImtInv
  <1>2. CASE Unmoved(g)
    BY <1>1, <1>2, HostKept DEF Unmoved
  <1>3. CASE HostStep(g)
    BY <1>1, <1>3, MakesName, Initializes, InitReturns, Constructs, UsesDecoder, Rests DEF HostStep
  <1> QED BY <1>2, <1>3, OthersUnmoved, QuietUnmoved DEF ImtNext

-----------------------------------------------------------------------------
(* Sessions stay apart.                                                    *)

(* What a host newly works for is the user of an engine, or of a session whose
   name is new. *)
LEMMA HasMore ==
  ASSUME ImtInv, NEW h \in Hosts, HostStep(h), IdsGrow, NEW u, Has(h, u)'
  PROVE  \/ Has(h, u) \/ EngineId(u)'
         \/ ~EngineId(u) /\ ~SessionId(u)
  <1> USE DEF ImtInv
  <1>0. u # None /\ (making'[h].user = u \/ session'[h] = u
                     \/ \E k \in 1 .. MaxCalls[h] : call'[<<h, k>>].user = u)
    BY DEF Has
  <1>a. ASSUME CallsKept(h), making'[h] \in {making[h], Nobody},
               session'[h] \in {session[h], making[h].user, None}
        PROVE  Has(h, u)
    BY <1>0, <1>a DEF Has, CallsKept, Nobody
  <1>b. ASSUME NEW op \in PluginCalls, NEW v \in Nat, CallDecoder(h, op, v),
               at[h] \notin {"init", "incall"}, at'[h] \in {"init", "incall"},
               v = making[h].user \/ v = session[h] \/ EngineId(v)',
               making'[h] \in {making[h], Nobody},
               session'[h] \in {session[h], making[h].user, None}
        PROVE  Has(h, u) \/ EngineId(u)'
    <2>1. CallAdded(h, op, v)
      BY <1>b, OrderWithCall DEF HostInv
    <2> QED BY <1>0, <1>b, <2>1 DEF Has, CallAdded, Nobody
  <1>c. UNCHANGED vars => CallsKept(h)
    BY ImtStutter, CallsOfOthers
  <1>1. CASE CreateInstance(h) \/ NewSession(h)
    <2>a. PICK what \in {"engine", "session"} :
            \E n : Make(h, what, n) /\ (what = "session" => n \notin DOMAIN strToIntMap)
      BY <1>1 DEF CreateInstance, NewSession, NewUserName
    <2>1. PICK name : Make(h, what, name) /\ (what = "session" => name \notin DOMAIN strToIntMap)
      BY <2>a
    <2>2. /\ making'[h] = [what |-> what, user |-> strToIntMap'[name]]
          /\ what = "engine" => EngineId(making[h].user)'
          /\ what = "session" =>
               \A n \in DOMAIN strToIntMap : strToIntMap[n] # strToIntMap'[name]
      BY <2>1, NameMade DEF ImtTyped
    <2>3. CallsKept(h) /\ session' = session
      BY <1>c, <2>1 DEF Make
    <2>4. CASE u = making'[h].user
      <3>1. CASE what = "engine"
        BY <2>2, <2>4, <3>1
      <3>2. CASE what = "session"
        BY <2>2, <2>4, <3>2 DEF EngineId, SessionId, IdsDistinct
      <3> QED BY <3>1, <3>2
    <2>5. CASE u # making'[h].user
      BY <1>0, <2>3, <2>5 DEF Has, CallsKept
    <2> QED BY <2>4, <2>5
  <1>2. CASE InitUserParsIfNew(h)
    <2>1. making[h].user \in Nat /\ "initUserPars" \in PluginCalls
      BY <1>2 DEF InitUserParsIfNew, HostInv, MakingFits, PluginCalls
    <2>2. at[h] = "named" /\ (Goes(h, "init") => at'[h] = "init")
      BY <1>2 DEF InitUserParsIfNew, Goes, ImtTyped
    <2>3. making' = making /\ session' = session
      BY <1>2 DEF InitUserParsIfNew
    <2> QED BY <1>2, <1>a, <1>b, <1>c, <2>1, <2>2, <2>3 DEF InitUserParsIfNew
  <1>3. CASE Construct(h)
    <2>1. making[h].user \in Nat /\ "startCat" \in PluginCalls
      BY <1>3 DEF Construct, HostInv, MakingFits, PluginCalls
    <2>2. at[h] = "construct" /\ (Goes(h, "incall") => at'[h] = "incall")
      BY <1>3 DEF Construct, Goes, ImtTyped
    <2>3. making'[h] = Nobody /\ session'[h] \in {session[h], making[h].user}
      BY <1>3 DEF Construct, ImtTyped
    <2> QED BY <1>3, <1>a, <1>b, <1>c, <2>1, <2>2, <2>3 DEF Construct
  <1>4. CASE UseEngine(h) \/ SetPrefix(h) \/ DeleteSession(h)
    <2>1. PICK op \in PluginCalls, v \in Nat :
            CallDecoder(h, op, v) /\ (v = engine[h] \/ v = session[h])
      BY <1>4 DEF UseEngine, SetPrefix, DeleteSession, PluginCalls, ImtTyped
    <2>2. /\ at[h] = "free" /\ at'[h] = "incall" /\ making' = making
          /\ session'[h] \in {session[h], None} /\ UNCHANGED <<strToIntMap, names>>
      BY <1>4 DEF UseEngine, SetPrefix, DeleteSession, Free, Goes, ImtTyped
    <2>3. v = engine[h] => EngineId(v)'
      BY <2>1, ImtConstants DEF HostInv, UsersNamed, IdsGrow
    <2> QED BY <1>b, <2>1, <2>2, <2>3
  <1>5. CASE InitUserParsDone(h) \/ DeleteInstance(h) \/ CallReturns(h)
    BY <1>5, <1>a, <1>c DEF InitUserParsDone, DeleteInstance, CallReturns
  <1> QED BY <1>1, <1>2, <1>3, <1>4, <1>5 DEF HostStep

LEMMA HasNamed ==
  ASSUME ImtTyped, NEW g \in Hosts, HostInv(g), NEW u, Has(g, u)
  PROVE  EngineId(u) \/ SessionId(u)
  <1>1. CASE making[g].user = u
    <2>1. making[g] # Nobody
      BY <1>1 DEF Has, Nobody
    <2>2. making[g].what \in {"engine", "session"}
      BY <2>1 DEF HostInv, MakingFits, ImtTyped, HostPlaces
    <2> QED BY <1>1, <2>2 DEF HostInv, UsersNamed
  <1>2. CASE session[g] = u
    BY <1>2 DEF Has, HostInv, UsersNamed
  <1>3. CASE \E k \in 1 .. MaxCalls[g] : call[<<g, k>>].user = u
    BY <1>3 DEF Has, HostInv, UsersNamed
  <1> QED BY <1>1, <1>2, <1>3 DEF Has

LEMMA ApartStep ==
  ASSUME ImtInv, [ImtNext]_<<vars, imtVars>>, NEW h \in Hosts, NEW g \in Hosts, h # g
  PROVE  SessionsApart(h, g)'
  <1> USE DEF ImtInv
  <1>1. IdsGrow
    BY ImtTypedStep
  <1>2. ASSUME NEW f \in Hosts, Unmoved(f), NEW u, Has(f, u)'
        PROVE  Has(f, u)
    BY <1>2 DEF Unmoved, Has, CallsKept
  <1>3. ASSUME NEW f \in Hosts, NEW e \in Hosts \ {f}, HostStep(f), Unmoved(e),
               SessionsApart(f, e), NEW u, Has(f, u)', Has(e, u)'
        PROVE  EngineId(u)'
    <2>1. Has(e, u)
      BY <1>2, <1>3
    <2>2. EngineId(u) \/ SessionId(u)
      BY <2>1, HasNamed
    <2>3. Has(f, u) \/ EngineId(u)'
      BY <1>1, <1>3, <2>2, HasMore
    <2> QED BY <1>1, <1>3, <2>1, <2>3 DEF SessionsApart, IdsGrow
  <1>4. SUFFICES ASSUME NEW u, Has(h, u)', Has(g, u)' PROVE EngineId(u)'
    BY DEF SessionsApart
  <1>5. CASE HostStep(h)
    BY <1>3, <1>4, <1>5, OthersUnmoved
  <1>6. CASE HostStep(g)
    <2>1. SessionsApart(g, h)
      OBVIOUS
    <2> QED BY <1>3, <1>4, <1>6, <2>1, OthersUnmoved
  <1>7. CASE Unmoved(h) /\ Unmoved(g)
    <2>1. Has(h, u) /\ Has(g, u)
      BY <1>2, <1>4, <1>7
    <2> QED BY <1>1, <2>1 DEF SessionsApart, IdsGrow
  <1> QED BY <1>5, <1>6, <1>7, OthersUnmoved, QuietUnmoved DEF ImtNext

-----------------------------------------------------------------------------
LEMMA ImtInitInv == ImtInit => ImtInv
  <1> SUFFICES ASSUME ImtInit PROVE ImtInv
    OBVIOUS
  <1>1. ImtTyped
    BY DEF ImtInit, Init, ImtTyped, CallsTyped, Places, HostPlaces, Nobody
  <1>2. IdsDistinct
    BY FS_EmptySet DEF ImtInit, IdsDistinct
  <1>3. ASSUME NEW h \in Hosts
        PROVE  /\ HostInv(h) /\ making[h] = Nobody /\ session[h] = None
               /\ \A k \in 1 .. MaxCalls[h] : call[<<h, k>>] = [op |-> "none", user |-> None]
    <2>1. /\ at[h] = "free" /\ making[h] = Nobody /\ engine[h] = None /\ session[h] = None
          /\ used[h] = 0
      BY DEF ImtInit
    <2>2. \A k \in 1 .. MaxCalls[h] : /\ pc[<<h, k>>] = "idle"
                                     /\ call[<<h, k>>] = [op |-> "none", user |-> None]
      BY CallsOfHosts DEF ImtInit, Init
    <2>3. MakingFits(h) /\ CallsInOrder(h)
      BY <2>1, <2>2, CallsOfHosts DEF MakingFits, CallsInOrder
    <2>4. UsersNamed(h) /\ ReleasedGone(h) /\ UsersReady(h)
      BY <2>1, <2>2 DEF UsersNamed, ReleasedGone, UsersReady, Nobody
    <2> QED BY <2>1, <2>2, <2>3, <2>4 DEF HostInv
  <1>4. ASSUME NEW h \in Hosts, NEW u PROVE ~Has(h, u)
    <2>1. making[h].user = None /\ session[h] = None
      BY <1>3 DEF Nobody
    <2>2. \A k \in 1 .. MaxCalls[h] : call[<<h, k>>].user = None
      BY <1>3
    <2> QED BY <2>1, <2>2 DEF Has
  <1>5. \A h, g \in Hosts : SessionsApart(h, g)
    BY <1>4 DEF SessionsApart
  <1> QED BY <1>1, <1>2, <1>3, <1>5 DEF ImtInv

LEMMA ImtStepInv ==
  ASSUME ImtInv, [ImtNext]_<<vars, imtVars>>
  PROVE  ImtInv'
  <1>1. \A h \in Hosts : HostInv(h)'
    BY HostInvStep
  <1>2. \A h, g \in Hosts : h # g => SessionsApart(h, g)'
    BY ApartStep
  <1> QED BY <1>1, <1>2, ImtTypedStep DEF ImtInv

(* Every state of the plugin satisfies the invariant, whatever the names. *)
THEOREM ImtInvariance == ImtSpec => []ImtInv
  BY ImtInitInv, ImtStepInv, PTL DEF ImtSpec

-----------------------------------------------------------------------------
(* The plugin as a caller of the decoder.                                  *)

LEMMA IdsApart ==
  ASSUME IdsDistinct, NamesApart, NEW u, EngineId(u), SessionId(u)
  PROVE  FALSE
  BY DEF IdsDistinct, NamesApart, EngineId, SessionId

(* A call that a host may make, by what it makes it for. *)
LEMMA HostMayCall ==
  ASSUME ImtInv, NamesApart, NEW h \in Hosts, NEW t, NEW op \in PluginCalls, NEW u \in Nat,
         op # "initUserPars" => IsReady(u),
         op = "release_user_data" => at[h] = "free" /\ session[h] = u,
         EngineId(u) \/ session[h] = u \/ (making[h].what = "session" /\ making[h].user = u)
  PROVE  MayCall(t, op, u)
  <1> USE DEF ImtInv
  <1>0. u # None
    BY ImtConstants
  <1>1. ASSUME NEW s \in Threads \ {t}, call[s].user = u
        PROVE  /\ call[s].op # "release_user_data"
               /\ op = "release_user_data" => pc[s] = "done"
    <2>1. PICK g \in Hosts : \E k \in 1 .. MaxCalls[g] : s = <<g, k>>
      BY CallsOfHosts
    <2>2. PICK k \in 1 .. MaxCalls[g] : s = <<g, k>>
      BY <2>1
    <2>3. Has(g, u)
      BY <1>0, <1>1, <2>2 DEF Has
    <2>4. ~EngineId(u) => g = h
      <3> SUFFICES ASSUME g # h PROVE EngineId(u)
        OBVIOUS
      <3>1. EngineId(u) \/ Has(h, u)
        BY <1>0 DEF Has
      <3> QED BY <2>3, <3>1 DEF SessionsApart
    <2>5. session[h] = u \/ (making[h].what = "session" /\ making[h].user = u) => ~EngineId(u)
      BY <1>0, IdsApart DEF HostInv, UsersNamed
    <2>6. call[s].op # "release_user_data"
      <3> SUFFICES ASSUME call[s].op = "release_user_data" PROVE FALSE
        OBVIOUS
      <3>1. SessionId(u) /\ session[g] # u /\ ~(making[g].what = "session" /\ making[g].user = u)
        BY <1>1, <2>2 DEF HostInv, ReleasedGone
      <3>2. ~EngineId(u)
        BY <3>1, IdsApart
      <3> QED BY <2>4, <3>1, <3>2
    <2>7. ASSUME op = "release_user_data" PROVE pc[s] = "done"
      <3>1. g = h
        BY <2>4, <2>5, <2>7
      <3>2. used[h] \in Nat /\ k \in Nat /\ CallsInOrder(h)
        BY CallsOfHosts DEF ImtTyped, HostInv
      <3>3. k <= used[h]
        BY <1>0, <1>1, <2>2, <3>1, <3>2 DEF CallsInOrder
      <3> QED BY <2>2, <2>7, <3>1, <3>2, <3>3 DEF CallsInOrder
    <2> QED BY <2>6, <2>7
  <1>2. \A s \in Threads : call[s].op # "clearTrans"
    <2> SUFFICES ASSUME NEW s \in Threads PROVE call[s].op # "clearTrans"
      OBVIOUS
    <2>1. PICK g \in Hosts : \E k \in 1 .. MaxCalls[g] : s = <<g, k>>
      BY CallsOfHosts
    <2>2. PICK k \in 1 .. MaxCalls[g] : s = <<g, k>>
      BY <2>1
    <2>3. used[g] \in Nat /\ k \in Nat
      BY CallsOfHosts DEF ImtTyped
    <2>4. call[s].op \in PluginCalls \cup {"none"}
      BY <2>2, <2>3 DEF HostInv, CallsInOrder
    <2> QED BY <2>4 DEF PluginCalls
  <1>3. op # "clearTrans"
    BY DEF PluginCalls
  <1> QED BY <1>1, <1>2, <1>3 DEF MayCall, IsReady
(* What the hosts call the decoder for. *)
LEMMA HostCallsProperly ==
  ASSUME ImtInv, NamesApart, NEW h \in Hosts, HostStep(h)
  PROVE  \/ UNCHANGED vars
         \/ \E op \in PluginCalls \cap Ops, u \in Nat :
              /\ used[h] + 1 \in 1 .. MaxCalls[h]
              /\ MayCall(<<h, used[h] + 1>>, op, u) /\ Enter(<<h, used[h] + 1>>, op, u)
  <1> USE DEF ImtInv
  <1> DEFINE Goal ==
        \/ UNCHANGED vars
        \/ \E op \in PluginCalls \cap Ops, u \in Nat :
             /\ used[h] + 1 \in 1 .. MaxCalls[h]
             /\ MayCall(<<h, used[h] + 1>>, op, u) /\ Enter(<<h, used[h] + 1>>, op, u)
  <1>a. ASSUME NEW op \in PluginCalls, op \in Ops, NEW u \in Nat, CallDecoder(h, op, u),
               op # "initUserPars" => IsReady(u),
               op = "release_user_data" => at[h] = "free" /\ session[h] = u,
               EngineId(u) \/ session[h] = u \/ (making[h].what = "session" /\ making[h].user = u)
        PROVE  Goal
    <2>1. MayCall(<<h, used[h] + 1>>, op, u)
      BY <1>a, HostMayCall
    <2>2. used[h] + 1 \in 1 .. MaxCalls[h]
      BY <1>a, DecoderCalled
    <2>3. Enter(<<h, used[h] + 1>>, op, u)
      BY <1>a DEF CallDecoder
    <2> QED BY <1>a, <2>1, <2>2, <2>3
  <1>b. {"initUserPars", "startCat", "setPref", "release_user_data"} \subseteq PluginCalls \cap Ops
    BY ImtConstants DEF PluginCalls
  <1>c. UsersNamed(h) /\ UsersReady(h) /\ MakingFits(h)
    BY DEF HostInv
  <1>1. CASE CreateInstance(h) \/ NewSession(h) \/ InitUserParsDone(h) \/ DeleteInstance(h)
             \/ CallReturns(h)
    BY <1>1 DEF CreateInstance, NewSession, Make, InitUserParsDone, DeleteInstance, CallReturns
  <1>2. CASE InitUserParsIfNew(h)
    <2>1. /\ making[h].user \in Nat
          /\ EngineId(making[h].user) \/ making[h].what = "session"
      BY <1>2, <1>c DEF InitUserParsIfNew, MakingFits, UsersNamed
    <2> QED BY <1>2, <1>a, <1>b, <2>1 DEF InitUserParsIfNew
  <1>3. CASE Construct(h)
    <2>1. making[h].user \in Nat /\ IsReady(making[h].user)
      BY <1>3, <1>c DEF Construct, MakingFits, UsersReady
    <2> QED BY <1>3, <1>a, <1>b, <2>1 DEF Construct
  <1>4. CASE UseEngine(h)
    <2>1. /\ engine[h] \in Nat /\ IsReady(engine[h]) /\ EngineId(engine[h])
          /\ \E op \in {"translateSentence", "onlineTrainSentPair"} \cap Ops :
               CallDecoder(h, op, engine[h])
      BY <1>4, <1>c DEF UseEngine, UsersReady, UsersNamed, ImtTyped
    <2> QED BY <1>a, <2>1 DEF PluginCalls
  <1>5. CASE SetPrefix(h)
    <2>1. session[h] \in Nat /\ IsReady(session[h]) /\ CallDecoder(h, "setPref", session[h])
      BY <1>5, <1>c DEF SetPrefix, UsersReady, ImtTyped
    <2> QED BY <1>a, <1>b, <2>1
  <1>6. CASE DeleteSession(h)
    <2>1. /\ session[h] \in Nat /\ IsReady(session[h]) /\ at[h] = "free"
          /\ CallDecoder(h, "release_user_data", session[h])
      BY <1>6, <1>c DEF DeleteSession, Free, UsersReady, ImtTyped
    <2> QED BY <1>a, <1>b, <2>1
  <1> QED BY <1>1, <1>2, <1>3, <1>4, <1>5, <1>6 DEF HostStep

(* While no engine is created for a name that a session has been given, every
   call that engines and sessions make is one that ThotDecoder allows. *)
THEOREM PluginUsesDecoderProperly == ImtSpec => EnginesUseDecoderProperly
  <1>1. ImtInv /\ [ImtNext]_<<vars, imtVars>> =>
          [NamesApart' => \A t \in Threads :
             pc[t] = "idle" /\ pc'[t] # "idle" => MayCall(t, call'[t].op, call'[t].user)]_vars
    <2> SUFFICES ASSUME ImtInv, [ImtNext]_<<vars, imtVars>>, NamesApart', vars' # vars,
                        NEW t \in Threads, pc[t] = "idle", pc'[t] # "idle"
                 PROVE  MayCall(t, call'[t].op, call'[t].user)
      OBVIOUS
    <2>1. PICK h \in Hosts : HostStep(h)
      <3>1. ~CallsGoOn
        BY DEF CallsGoOn
      <3> QED BY <3>1, ImtDecoderStep, ImtStutter DEF ImtNext, ImtInv
    <2>2. NamesApart
      <3>1. CASE UNCHANGED names
        BY <3>1 DEF NamesApart
      <3>2. CASE CreateInstance(h) \/ NewSession(h)
        BY <3>2 DEF CreateInstance, NewSession, Make
      <3> QED BY <2>1, <3>1, <3>2 DEF HostStep, InitUserParsIfNew, InitUserParsDone, Construct,
                 UseEngine, SetPrefix, DeleteSession, DeleteInstance, CallReturns
    <2>3. PICK op \in PluginCalls \cap Ops, u \in Nat :
            /\ used[h] + 1 \in 1 .. MaxCalls[h]
            /\ MayCall(<<h, used[h] + 1>>, op, u) /\ Enter(<<h, used[h] + 1>>, op, u)
      BY <2>1, <2>2, HostCallsProperly DEF vars
    <2>4. <<h, used[h] + 1>> \in Threads
      BY <2>3, CallsOfHosts
    <2>5. CallMade(<<h, used[h] + 1>>, op, u)
      BY <2>3, <2>4, EnterMakesCall, ConstantsAssumption DEF ImtInv, ImtTyped
    <2>6. t = <<h, used[h] + 1>>
      BY <2>5 DEF CallMade
    <2> QED BY <2>3, <2>5, <2>6 DEF CallMade
  <1> QED BY <1>1, ImtInvariance, PTL DEF ImtSpec, EnginesUseDecoderProperly

(* If no engine is created for a number, the plugin's calls are a behavior of
   ThotDecoder, and what ThotDecoder promises holds inside the plugin: no
   translation works on released data, and none without its parameters. *)
THEOREM DecoderSafeInPlugin ==
  ASSUME Users = Nat, \A k \in DOMAIN Numerals : Numerals[k] \notin Specializations
  PROVE  ImtSpec => /\ [](AtomicRunsAlone /\ OneThreadPerUser /\ ModelsStableInBody)
                    /\ [](NoFreedUserInUse /\ ParsSetBeforeUse)
                    /\ TablesNotMovedInUse /\ ImplementsGate
  <1> DEFINE Plain == /\ names.engine \subseteq Specializations
                      /\ names.session \subseteq {Numerals[k] : k \in DOMAIN Numerals}
  <1>1. ImtInit => Init /\ Plain
    BY DEF ImtInit
  <1>2. ImtInv /\ Plain /\ [ImtNext]_<<vars, imtVars>> => Plain'
    <2> SUFFICES ASSUME ImtInv, Plain, [ImtNext]_<<vars, imtVars>> PROVE Plain'
      OBVIOUS
    <2>1. CASE UNCHANGED names
      BY <2>1
    <2>2. ASSUME NEW h \in Hosts, CreateInstance(h) PROVE Plain'
      BY <2>2 DEF CreateInstance, Make, ImtInv, ImtTyped
    <2>3. ASSUME NEW h \in Hosts, NewSession(h) PROVE Plain'
      BY <2>3 DEF NewSession, NewUserName, Make, ImtInv, ImtTyped
    <2>4. ASSUME NEW h \in Hosts, HostStep(h), ~CreateInstance(h), ~NewSession(h)
          PROVE  UNCHANGED names
      BY <2>4 DEF HostStep, InitUserParsIfNew, InitUserParsDone, Construct,
                  UseEngine, SetPrefix, DeleteSession, DeleteInstance, CallReturns
    <2> QED BY <2>1, <2>2, <2>3, <2>4 DEF ImtNext, DecoderStep, imtVars
  <1>3. Plain => NamesApart
    BY DEF NamesApart
  <1>4. ImtInv /\ NamesApart /\ [ImtNext]_<<vars, imtVars>> => [Next]_vars
    <2> SUFFICES ASSUME ImtInv, NamesApart, [ImtNext]_<<vars, imtVars>> PROVE [Next]_vars
      OBVIOUS
    <2>1. CASE UNCHANGED vars
      BY <2>1
    <2>2. CASE DecoderStep
      BY <2>2 DEF DecoderStep, Next
    <2>3. ASSUME NEW h \in Hosts, HostStep(h) PROVE [Next]_vars
      <3>1. ASSUME NEW op \in PluginCalls \cap Ops, NEW u \in Nat,
                   used[h] + 1 \in 1 .. MaxCalls[h],
                   MayCall(<<h, used[h] + 1>>, op, u), Enter(<<h, used[h] + 1>>, op, u)
            PROVE  Next
        BY <3>1, CallsOfHosts DEF Next, Invoke
      <3> QED BY <2>1, <2>3, <3>1, HostCallsProperly
    <2> QED BY <2>1, <2>2, <2>3 DEF ImtNext
  <1>5. ImtSpec => Spec
    BY <1>1, <1>2, <1>3, <1>4, ImtInvariance, PTL DEF ImtSpec, Spec
  <1> QED BY <1>5, AtomicOpsRunAlone, UserMutualExclusion, ModelsStable,
             NoUseAfterRelease, ParsSetFirst, TablesStayInPlace, GateRefinement, PTL

=============================================================================
