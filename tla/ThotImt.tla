------------------------------- MODULE ThotImt -------------------------------
(***************************************************************************)
(* The casmacat plugin for interactive translation (ThotImtFactory.cc,     *)
(* ThotImtEngine.cc, ThotImtSession.cc and UserNameToUserIdMap.cc in       *)
(* src/src/stack_dec) over ThotDecoder.  All engines of a factory share    *)
(* one decoder and one map of names to user identifiers.  An engine works  *)
(* for the user it is specialized to, a session for a user of its own.     *)
(* The plugin for automatic translation has the same factory and engines,  *)
(* without sessions, over a decoder of its own.                            *)
(*                                                                         *)
(* A thread of the host program has at most one engine, and one session of *)
(* it, and makes one call at a time; engines of several threads may be     *)
(* specialized to one user.  The calls of the decoder that thread h makes  *)
(* are <<h, 1>>, <<h, 2>>, ... of Threads.                                 *)
(***************************************************************************)
EXTENDS ThotDecoder

CONSTANTS
  Hosts,             \* threads of the host program
  MaxCalls,          \* of each, the calls of the decoder that it makes
  Specializations,   \* names that engines are created for
  Numerals           \* the textual representations of 0, 1, ..., as many as needed

ASSUME ImtConstants ==
  /\ MaxCalls \in [Hosts -> Nat]
  /\ Threads = UNION {{h} \X (1 .. MaxCalls[h]) : h \in Hosts}
  /\ Users \subseteq Nat /\ None \notin Nat
  /\ {"initUserPars", "startCat", "setPref", "release_user_data"} \subseteq Ops

VARIABLES
  strToIntMap,    \* userNameToUserIdMap
  at,             \* place of a host thread
  making,         \* what it makes, "engine" or "session", and for which user
  engine,         \* user of its engine, None without one
  session,        \* user of its session
  used,           \* calls it has made of the decoder
  names           \* history: the names of engines and of sessions

imtVars == <<strToIntMap, at, making, engine, session, used, names>>

Nobody == [what |-> "nothing", user |-> None]

ImtInit ==
  /\ Init
  /\ strToIntMap = [name \in {} |-> 0]
  /\ at = [h \in Hosts |-> "free"] /\ making = [h \in Hosts |-> Nobody]
  /\ engine = [h \in Hosts |-> None] /\ session = [h \in Hosts |-> None]
  /\ used = [h \in Hosts |-> 0]
  /\ names = [engine |-> {}, session |-> {}]

-----------------------------------------------------------------------------
(* The map of user names; its mutex is held for the whole of each step.    *)

\* mutant: a session's identifier is the number in its name.
NewIdOfNumber(name) ==
  IF \E k \in DOMAIN Numerals : Numerals[k] = name
    THEN (CHOOSE k \in DOMAIN Numerals : Numerals[k] = name) - 1
  ELSE Cardinality(DOMAIN strToIntMap)

\* The identifier of a name that is not in the map yet.
NewId(name) == Cardinality(DOMAIN strToIntMap)

MapWithName(name) ==
  [n \in DOMAIN strToIntMap \cup {name} |->
     IF n \in DOMAIN strToIntMap THEN strToIntMap[n] ELSE NewId(name)]

\* genNewUserNameIdPair: the first number that names no user; Numerals bounds
\* the numbers.
NewUserName ==
  {Numerals[k] : k \in {i \in DOMAIN Numerals :
                          /\ Numerals[i] \notin DOMAIN strToIntMap
                          /\ \A j \in 1 .. i - 1 : Numerals[j] \in DOMAIN strToIntMap}}

-----------------------------------------------------------------------------
(* A call of the decoder by a host thread.                                 *)

Called(h) == <<h, used[h]>>

CallDecoder(h, op, u) ==
  /\ used[h] < MaxCalls[h]
  /\ used' = [used EXCEPT ![h] = @ + 1]
  /\ Enter(<<h, used[h] + 1>>, op, u)

Free(h) == at[h] = "free"
Goes(h, place) == at' = [at EXCEPT ![h] = place]

\* Makes what for the user named name.
Make(h, what, name) ==
  /\ Goes(h, "named")
  /\ strToIntMap' = MapWithName(name)
  /\ making' = [making EXCEPT ![h] = [what |-> what, user |-> MapWithName(name)[name]]]
  /\ names' = [names EXCEPT ![what] = @ \cup {name}]
  /\ UNCHANGED <<vars, engine, session, used>>

\* createInstance and newSession up to user_id_new.
CreateInstance(h) ==
  /\ Free(h) /\ engine[h] = None
  /\ \E name \in Specializations : Make(h, "engine", name)

NewSession(h) ==
  /\ Free(h) /\ engine[h] # None /\ session[h] = None
  /\ used[h] < MaxCalls[h]
  /\ \E name \in NewUserName : Make(h, "session", name)

\* user_id_new, after which a known user is not initialized.
InitUserParsIfNew(h) ==
  LET u == making[h].user IN
  /\ at[h] = "named"
  /\ \/ Known(u) /\ Goes(h, "construct") /\ UNCHANGED <<vars, used>>
     \/ ~Known(u) /\ Goes(h, "init") /\ CallDecoder(h, "initUserPars", u)
  /\ UNCHANGED <<strToIntMap, making, engine, session, names>>

\* Nobody looks at what initUserPars returns.
InitUserParsDone(h) ==
  /\ at[h] = "init" /\ pc[Called(h)] = "done"
  /\ Goes(h, "construct")
  /\ UNCHANGED <<vars, strToIntMap, making, engine, session, used, names>>

\* The constructor of an engine calls nothing, that of a session startCat.
Construct(h) ==
  LET m == making[h] IN
  /\ at[h] = "construct"
  /\ \/ /\ m.what = "engine"
        /\ engine' = [engine EXCEPT ![h] = m.user]
        /\ Goes(h, "free") /\ UNCHANGED <<vars, session, used>>
     \/ /\ m.what = "session"
        /\ CallDecoder(h, "startCat", m.user)
        /\ session' = [session EXCEPT ![h] = m.user]
        /\ Goes(h, "incall") /\ UNCHANGED engine
  /\ making' = [making EXCEPT ![h] = Nobody]
  /\ UNCHANGED <<strToIntMap, names>>

\* translate and update of an engine.
UseEngine(h) ==
  /\ Free(h) /\ engine[h] # None
  /\ \E op \in {"translateSentence", "onlineTrainSentPair"} \cap Ops :
       CallDecoder(h, op, engine[h])
  /\ Goes(h, "incall")
  /\ UNCHANGED <<strToIntMap, making, engine, session, names>>

\* setPrefix and rejectSuffix of a session.
SetPrefix(h) ==
  /\ Free(h) /\ session[h] # None
  /\ CallDecoder(h, "setPref", session[h])
  /\ Goes(h, "incall")
  /\ UNCHANGED <<strToIntMap, making, engine, session, names>>

\* The name of the session stays in the map.
DeleteSession(h) ==
  /\ Free(h) /\ session[h] # None
  /\ CallDecoder(h, "release_user_data", session[h])
  /\ session' = [session EXCEPT ![h] = None]
  /\ Goes(h, "incall")
  /\ UNCHANGED <<strToIntMap, making, engine, names>>

\* deleteInstance: the user stays in the map and in the decoder.
DeleteInstance(h) ==
  /\ Free(h) /\ engine[h] # None /\ session[h] = None
  /\ engine' = [engine EXCEPT ![h] = None]
  /\ UNCHANGED <<vars, strToIntMap, at, making, session, used, names>>

CallReturns(h) ==
  /\ at[h] = "incall" /\ pc[Called(h)] = "done"
  /\ Goes(h, "free")
  /\ UNCHANGED <<vars, strToIntMap, making, engine, session, used, names>>

-----------------------------------------------------------------------------
HostStep(h) ==
  \/ CreateInstance(h) \/ NewSession(h) \/ InitUserParsIfNew(h) \/ InitUserParsDone(h)
  \/ Construct(h) \/ UseEngine(h) \/ SetPrefix(h) \/ DeleteSession(h) \/ DeleteInstance(h)
  \/ CallReturns(h)

DecoderStep ==
  /\ \E t \in Threads : RejectEmptyPair(t) \/ SpuriousWakeup(t) \/ Step(t)
  /\ UNCHANGED imtVars

ImtNext == (\E h \in Hosts : HostStep(h)) \/ DecoderStep

ImtSpec == ImtInit /\ [][ImtNext]_<<vars, imtVars>>

-----------------------------------------------------------------------------
(* Properties.                                                             *)

\* No engine is for the name that a session has been given.
NamesApart == names.engine \cap names.session = {}

\* The engines are callers that ThotDecoder can rely on: a user is known
\* before it is used, and the release of a session's user is the last call for
\* it, whatever other engines and sessions do; unless an engine is created for
\* a user whose name is a number that a session has been given
\* (UserNameToUserIdMap.cc:65), and then works with the session's user.
EnginesUseDecoderProperly ==
  [][NamesApart' => \A t \in Threads :
       pc[t] = "idle" /\ pc'[t] # "idle" => MayCall(t, call'[t].op, call'[t].user)]_vars
=============================================================================
