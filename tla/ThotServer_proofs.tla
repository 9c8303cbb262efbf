-------------------------- MODULE ThotServer_proofs --------------------------
(***************************************************************************)
(* Proofs about thot_server for any set of connections: its invariants,    *)
(* and that it calls the decoder as ThotDecoder assumes, from which the    *)
(* properties of the decoder follow for the server.                        *)
(***************************************************************************)
EXTENDS ThotServer, ThotDecoder_proofs

(***************************************************************************)
(* The inductive invariant.                                                *)
(***************************************************************************)
MainPlaces == {"accept", "gettype", "getuser", "initpars", "spawn", "increase",
               "wait", "condwait", "down"}

Typed ==
  /\ main \in MainPlaces /\ cur \in Conns \cup {None}
  /\ end_server \in BOOLEAN /\ user_set \subseteq Users
  /\ num_threads \in Int /\ num_threads_var_mut \in {"main", None}
  /\ sock \in [Conns -> {"unconnected", "open", "answered", "closed", "abandoned"}]
  /\ req \in [Conns -> [type : Requests \cup {"unknown"}, user : Users \cup {None}]]
  /\ worker \in [Conns -> {"none", "run", "incall", "close", "decrease", "exited"}]
  /\ pc \in [Threads -> Places]
  /\ call \in [Threads -> [op : AllOps \cup {"none"}, user : Users \cup {None}]]

\* The main thread has a connection at the places of a turn of its loop, and
\* the connection gets its thread when it is created.
TurnHasConn ==
  /\ main \in {"gettype", "getuser", "initpars", "spawn", "increase"} => cur \in Conns
  /\ main \in {"accept", "wait", "condwait", "down"} => cur = None
  /\ main \in {"gettype", "getuser", "initpars", "spawn"} => worker[cur] = "none"
  /\ main = "increase" => worker[cur] # "none"
  /\ cur \in Conns => sock[cur] # "unconnected"

\* What a connection has when it has been accepted, and not before.
ConnBegun(c) ==
  /\ sock[c] = "unconnected" =>
       worker[c] = "none" /\ pc[<<c, "init">>] = "idle" /\ pc[<<c, "serve">>] = "idle"
  /\ sock[c] # "unconnected" => req[c].user \in Users /\ req[c].type \in Requests

ConnsBegin == \A c \in Conns : ConnBegun(c)

\* A thread closes its socket before it leaves.
SocketsFollow ==
  \A c \in Conns : worker[c] \in {"decrease", "exited"} => sock[c] = "closed"

\* The calls that are in progress are those that the threads wait for.
CallsAwaited(c) ==
  /\ pc[<<c, "init">>] \in {"idle", "done"} \/ (main = "initpars" /\ cur = c)
  /\ pc[<<c, "serve">>] \in {"idle", "done"} \/ worker[c] = "incall"
  /\ worker[c] \in {"none", "run"} => pc[<<c, "serve">>] = "idle"

CallsFollow == \A c \in Conns : CallsAwaited(c)

\* The calls are those of the connection's request.
RequestCalls(c) ==
  /\ pc[<<c, "init">>] # "idle" =>
       call[<<c, "init">>] = [op |-> "initUserPars", user |-> req[c].user]
  /\ pc[<<c, "serve">>] # "idle" =>
       /\ req[c].type # "unknown"
       /\ call[<<c, "serve">>] = [op |-> OpOf[req[c].type], user |-> req[c].user]
  /\ pc[<<c, "init">>] = "idle" => call[<<c, "init">>].op = "none"
  /\ pc[<<c, "serve">>] = "idle" => call[<<c, "serve">>].op = "none"

\* The users that are initialized: those of user_set, except the one that the
\* main thread is initializing or failed to, and those of the request threads.
Ready == {u \in Users : Initialized(u)}

UserReady(u) ==
  u \in user_set => u \in Ready \/ (main = "initpars" /\ u = req[cur].user)

UsersReady == \A u \in Users : UserReady(u)

CurReady ==
  /\ main = "spawn" => req[cur].user \in Ready
  /\ main = "initpars" => pc[<<cur, "init">>] # "idle"

WorkerReady(c) == worker[c] # "none" => req[c].user \in Ready

\* No turn follows that of an END_SERVER.
CurEnds ==
  /\ main \in {"accept", "gettype"} => ~end_server
  /\ main \in {"getuser", "initpars", "spawn", "increase"} =>
       (end_server <=> req[cur].type = "END_SERVER")

WorkerEnds(c) ==
  worker[c] # "none" /\ req[c].type = "END_SERVER" =>
    end_server /\ main \in {"increase", "wait", "condwait", "down"}

CallerInv ==
  /\ \A c \in Conns : RequestCalls(c) /\ WorkerReady(c) /\ WorkerEnds(c)
  /\ UsersReady /\ CurReady /\ CurEnds

\* The shutdown keeps num_threads_var_mut once it has seen no thread.
DownIsQuiet == main = "down" => num_threads = 0 /\ num_threads_var_mut = "main"

ServerInv ==
  /\ Typed /\ TurnHasConn /\ ConnsBegin /\ SocketsFollow /\ CallsFollow
  /\ OpenSocketsOwned /\ ThreadsAccounted /\ DownIsQuiet

-----------------------------------------------------------------------------
(* What the steps of the decoder mean for the server.                      *)

LEMMA CallsAreTyped == ASSUME Typed PROVE CallsTyped
  BY DEF Typed, CallsTyped

LEMMA StutterGoesOn ==
  ASSUME Typed, UNCHANGED vars
  PROVE  CallsGoOn
  BY CallsAreTyped, UnmovedGoesOn

LEMMA DecoderGoesOn ==
  ASSUME Typed, DecoderStep
  PROVE  CallsGoOn
  BY CallsAreTyped, StepGoesOn DEF DecoderStep

LEMMA EnterBegins ==
  ASSUME Typed, NEW t \in Threads, NEW op \in AllOps, NEW u \in Users, Enter(t, op, u)
  PROVE  /\ CallMade(t, op, u)
         /\ pc' \in [Threads -> Places]
         /\ call' \in [Threads -> [op : AllOps \cup {"none"}, user : Users \cup {None}]]
  <1>1. CallMade(t, op, u) /\ pc' \in [Threads -> Places]
    BY CallsAreTyped, EnterMakesCall DEF CallsTyped
  <1>2. call' \in [Threads -> [op : AllOps \cup {"none"}, user : Users \cup {None}]]
    BY DEF Typed, Enter
  <1> QED BY <1>1, <1>2

(* The two calls of a connection. *)
LEMMA CallsOfConns ==
  /\ \A c \in Conns : <<c, "init">> \in Threads /\ <<c, "serve">> \in Threads
  /\ \A t \in Threads : \E c \in Conns : t = <<c, "init">> \/ t = <<c, "serve">>
  BY ServerConstants

LEMMA CallsOfConnsGoOn ==
  ASSUME CallsGoOn, NEW c \in Conns
  PROVE  /\ pc[<<c, "init">>] \in {"idle", "done"} => pc'[<<c, "init">>] = pc[<<c, "init">>]
         /\ pc[<<c, "serve">>] \in {"idle", "done"} => pc'[<<c, "serve">>] = pc[<<c, "serve">>]
         /\ pc[<<c, "init">>] # "idle" => pc'[<<c, "init">>] # "idle"
         /\ pc[<<c, "serve">>] # "idle" => pc'[<<c, "serve">>] # "idle"
  BY CallsOfConns DEF CallsGoOn

(* Each request has an operation of its own, none of them initUserPars or
   release_user_data, and only END_SERVER clears. *)
LEMMA OpsOfRequests ==
  /\ "initUserPars" \in Ops /\ Ops \subseteq AllOps
  /\ \A r \in Requests \ {"unknown"} :
       /\ OpOf[r] \in Ops
       /\ OpOf[r] \notin {"initUserPars", "release_user_data", "none"}
       /\ OpOf[r] = "clearTrans" => r = "END_SERVER"
  <1>1. /\ "initUserPars" \in Ops /\ Ops \subseteq AllOps
        /\ \A r \in Requests \ {"unknown"} : OpOf[r] \in Ops /\ r \in DOMAIN OpOf
    BY ServerConstants, ConstantsAssumption
  <1>2. \A r \in DOMAIN OpOf :
          /\ OpOf[r] \notin {"initUserPars", "release_user_data", "none"}
          /\ OpOf[r] = "clearTrans" => r = "END_SERVER"
    BY DEF OpOf
  <1> QED BY <1>1, <1>2

(* The alternatives of GetUserId. *)
LEMMA UserIdTaken ==
  ASSUME Typed, TurnHasConn, ConnsBegin, GetUserId
  PROVE  /\ cur \in Conns /\ req[cur].user \in Users /\ main = "getuser"
         /\ UNCHANGED <<end_server, num_threads, num_threads_var_mut, req, worker>>
         /\ \/ EndTurn(end_server, "closed") /\ user_set' = user_set /\ CallsGoOn
            \/ /\ user_set' = user_set \cup {req[cur].user}
               /\ main' = "initpars" /\ cur' = cur /\ sock' = sock
               /\ CallMade(<<cur, "init">>, "initUserPars", req[cur].user)
            \/ /\ req[cur].user \in user_set /\ user_set' = user_set
               /\ main' = "spawn" /\ cur' = cur /\ sock' = sock /\ CallsGoOn
  <1> DEFINE u == req[cur].user
  <1>1. cur \in Conns /\ u \in Users /\ main = "getuser"
    BY DEF TurnHasConn, ConnsBegin, ConnBegun, GetUserId
  <1>3. <<cur, "init">> \in Threads /\ "initUserPars" \in AllOps
    BY <1>1, CallsOfConns DEF AllOps, ExclusiveOps
  <1>4. Enter(<<cur, "init">>, "initUserPars", u) => CallMade(<<cur, "init">>, "initUserPars", u)
    BY <1>1, <1>3, EnterBegins
  <1>5. UNCHANGED vars => CallsGoOn
    BY StutterGoesOn
  <1> QED BY <1>1, <1>4, <1>5 DEF GetUserId, InitRequired

(* The alternatives of StartRequest. *)
LEMMA RequestStarted ==
  ASSUME Typed, ConnsBegin, NEW c \in Conns, StartRequest(c)
  PROVE  /\ worker[c] = "run" /\ req[c].user \in Users /\ req[c].type \in Requests
         /\ UNCHANGED <<main, cur, end_server, user_set, num_threads, num_threads_var_mut,
                        sock, req>>
         /\ \/ worker' = [worker EXCEPT ![c] = "close"] /\ CallsGoOn
            \/ /\ req[c].type # "unknown"
               /\ worker' = [worker EXCEPT ![c] = "incall"]
               /\ CallMade(<<c, "serve">>, OpOf[req[c].type], req[c].user)
  <1> DEFINE u == req[c].user
             op == OpOf[req[c].type]
  <1>1. worker[c] = "run"
    BY DEF StartRequest
  <1>3. u \in Users /\ req[c].type \in Requests
    BY <1>1 DEF Typed, ConnsBegin, ConnBegun
  <1>4. <<c, "serve">> \in Threads /\ (req[c].type # "unknown" => op \in AllOps)
    BY <1>3, CallsOfConns, OpsOfRequests
  <1>5. req[c].type # "unknown" /\ Enter(<<c, "serve">>, op, u) => CallMade(<<c, "serve">>, op, u)
    BY <1>3, <1>4, EnterBegins
  <1>6. UNCHANGED vars => CallsGoOn
    BY StutterGoesOn
  <1> QED BY <1>1, <1>3, <1>5, <1>6 DEF StartRequest

-----------------------------------------------------------------------------
(* Each conjunct of the invariant is kept by every step.                   *)

(* The variables keep their types. *)
LEMMA TypedStep ==
  ASSUME Typed, TurnHasConn, ConnsBegin, [ServerNext]_<<vars, serverVars>>
  PROVE  Typed'
  <1> USE ServerConstants, ConstantsAssumption DEF Typed, MainPlaces
  <1>1. CASE UNCHANGED <<vars, serverVars>>
    BY <1>1, StutterGoesOn DEF serverVars, CallsGoOn
  <1>2. CASE DecoderStep
    BY <1>2, DecoderGoesOn DEF DecoderStep, serverVars, CallsGoOn
  <1>3. ASSUME NEW c \in Conns, Accept(c) PROVE Typed'
    BY <1>3, StutterGoesOn DEF Accept, EndTurn, CallsGoOn
  <1>4. CASE GetRequestType
    BY ZenonT(60), <1>4, StutterGoesOn DEF GetRequestType, EndTurn, CallsGoOn
  <1>5. CASE GetUserId
    <2> DEFINE u == req[cur].user
    <2>1. cur \in Conns /\ u \in Users
      BY <1>5 DEF GetUserId, TurnHasConn, ConnsBegin, ConnBegun
    <2>2. /\ main' \in MainPlaces /\ cur' \in Conns \cup {None} /\ user_set' \subseteq Users
          /\ sock' \in [Conns -> {"unconnected", "open", "answered", "closed", "abandoned"}]
          /\ UNCHANGED <<end_server, num_threads, num_threads_var_mut, req, worker>>
      BY <1>5, <2>1 DEF GetUserId, EndTurn
    <2>3. CASE UNCHANGED vars
      BY <2>2, <2>3, StutterGoesOn DEF CallsGoOn
    <2>4. CASE Enter(<<cur, "init">>, "initUserPars", u)
      BY <2>1, <2>2, <2>4, EnterBegins, CallsOfConns DEF AllOps, ExclusiveOps
    <2> QED BY <1>5, <2>3, <2>4 DEF GetUserId
  <1>6. CASE InitUserParsReturned
    BY <1>6, StutterGoesOn DEF InitUserParsReturned, EndTurn, CallsGoOn
  <1>7. CASE SpawnWorker
    BY ZenonT(60), <1>7, StutterGoesOn DEF SpawnWorker, AfterSpawn, EndTurn, CallsGoOn
  <1>8. CASE IncreaseNumThreads
    BY <1>8, StutterGoesOn DEF IncreaseNumThreads, TurnHasConn, EndTurn, CallsGoOn
  <1>9. CASE AwaitThreads
    BY <1>9, StutterGoesOn DEF AwaitThreads, EndTurn, CallsGoOn
  <1>10. CASE SpuriousMainWakeup
    BY <1>10, StutterGoesOn DEF SpuriousMainWakeup, EndTurn, CallsGoOn
  <1>11. ASSUME NEW c \in Conns, StartRequest(c) PROVE Typed'
    <2>1. /\ worker' \in [Conns -> {"none", "run", "incall", "close", "decrease", "exited"}]
          /\ UNCHANGED <<main, cur, end_server, user_set, num_threads,
                         num_threads_var_mut, sock, req>>
      BY <1>11 DEF StartRequest
    <2>2. CASE UNCHANGED vars
      BY <2>1, <2>2, StutterGoesOn DEF CallsGoOn
    <2>3. CASE req[c].type # "unknown" /\ Enter(<<c, "serve">>, OpOf[req[c].type], req[c].user)
      <3>1. req[c].user \in Users /\ OpOf[req[c].type] \in AllOps
        BY <1>11, <2>3, OpsOfRequests DEF StartRequest, ConnsBegin, ConnBegun, TurnHasConn
      <3> QED BY <2>1, <2>3, <3>1, EnterBegins, CallsOfConns
    <2> QED BY <1>11, <2>2, <2>3 DEF StartRequest
  <1>12. ASSUME NEW c \in Conns, Reply(c) PROVE Typed'
    BY <1>12, StutterGoesOn DEF Reply, AfterReply, CallsGoOn
  <1>13. ASSUME NEW c \in Conns, CloseConn(c) PROVE Typed'
    BY <1>13, StutterGoesOn DEF CloseConn, EndTurn, CallsGoOn
  <1>14. ASSUME NEW c \in Conns, DecreaseNumThreads(c) PROVE Typed'
    BY <1>14, StutterGoesOn DEF DecreaseNumThreads, EndTurn, CallsGoOn
  <1> QED BY <1>1, <1>2, <1>3, <1>4, <1>5, <1>6, <1>7, <1>8,
             <1>9, <1>10, <1>11, <1>12, <1>13, <1>14
             DEF ServerNext, MainStep, WorkerStep
(* A turn of the main thread deals with one connection. *)
LEMMA TurnHasConnStep ==
  ASSUME ServerInv, Typed', [ServerNext]_<<vars, serverVars>>
  PROVE  TurnHasConn'
  <1> USE ServerConstants DEF ServerInv, Typed, TurnHasConn
  <1>1. CASE UNCHANGED <<vars, serverVars>>
    BY <1>1 DEF serverVars
  <1>2. CASE DecoderStep
    BY <1>2 DEF DecoderStep, serverVars
  <1>3. ASSUME NEW c \in Conns, Accept(c) PROVE TurnHasConn'
    <2>1. /\ cur' = c /\ main' = "gettype" /\ sock[c] = "unconnected"
          /\ sock' = [sock EXCEPT ![c] = "open"] /\ worker' = worker
      BY <1>3 DEF Accept
    <2>2. worker[c] = "none"
      BY <2>1 DEF ConnsBegin, ConnBegun
    <2> QED BY <2>1, <2>2
  <1>4. CASE GetRequestType
    BY <1>4 DEF GetRequestType, EndTurn
  <1>5. CASE GetUserId
    BY <1>5 DEF GetUserId, EndTurn
  <1>6. CASE InitUserParsReturned
    BY <1>6 DEF InitUserParsReturned, EndTurn
  <1>7. CASE SpawnWorker
    BY <1>7 DEF SpawnWorker, AfterSpawn, EndTurn
  <1>8. CASE IncreaseNumThreads
    BY <1>8 DEF IncreaseNumThreads, EndTurn
  <1>9. CASE AwaitThreads
    BY <1>9 DEF AwaitThreads, ConnsBegin, ConnBegun, MainPlaces
  <1>10. CASE SpuriousMainWakeup
    BY <1>10 DEF SpuriousMainWakeup, ConnsBegin, ConnBegun, MainPlaces
  <1>11. ASSUME NEW c \in Conns, StartRequest(c) PROVE TurnHasConn'
    BY <1>11 DEF StartRequest, ConnsBegin, ConnBegun, MainPlaces
  <1>12. ASSUME NEW c \in Conns, Reply(c) PROVE TurnHasConn'
    BY <1>12 DEF Reply, AfterReply, ConnsBegin, ConnBegun
  <1>13. ASSUME NEW c \in Conns, CloseConn(c) PROVE TurnHasConn'
    BY <1>13 DEF CloseConn, ConnsBegin, ConnBegun, MainPlaces
  <1>14. ASSUME NEW c \in Conns, DecreaseNumThreads(c) PROVE TurnHasConn'
    BY <1>14 DEF DecreaseNumThreads, ConnsBegin, ConnBegun, MainPlaces
  <1> QED BY <1>1, <1>2, <1>3, <1>4, <1>5, <1>6, <1>7, <1>8,
             <1>9, <1>10, <1>11, <1>12, <1>13, <1>14
             DEF ServerNext, MainStep, WorkerStep

(* A request thread closes its socket before it leaves, and an open socket has
   an owner. *)
LEMMA SocketsStep ==
  ASSUME ServerInv, Typed', [ServerNext]_<<vars, serverVars>>
  PROVE  SocketsFollow' /\ OpenSocketsOwned'
  <1> USE ServerConstants DEF ServerInv, Typed, TurnHasConn, SocketsFollow, OpenSocketsOwned, Alive
  <1>1. CASE UNCHANGED <<vars, serverVars>>
    BY <1>1 DEF serverVars
  <1>2. CASE DecoderStep
    BY <1>2 DEF DecoderStep, serverVars
  <1>3. ASSUME NEW c \in Conns, Accept(c) PROVE SocketsFollow' /\ OpenSocketsOwned'
    BY <1>3 DEF Accept, ConnsBegin, ConnBegun, EndTurn
  <1>4. CASE GetRequestType
    BY <1>4 DEF GetRequestType, ConnsBegin, ConnBegun, EndTurn
  <1>5. CASE GetUserId
    <2>1. worker' = worker /\ cur \in Conns
      BY <1>5 DEF GetUserId
    <2>2. \/ cur' = None /\ sock' = [sock EXCEPT ![cur] = "closed"]
          \/ cur' = cur /\ sock' = sock
      BY <1>5 DEF GetUserId, EndTurn
    <2> QED BY SMTT(40), <2>1, <2>2
  <1>6. CASE InitUserParsReturned
    BY <1>6 DEF InitUserParsReturned, ConnsBegin, ConnBegun, EndTurn
  <1>7. CASE SpawnWorker
    BY <1>7 DEF SpawnWorker, AfterSpawn, EndTurn
  <1>8. CASE IncreaseNumThreads
    BY <1>8 DEF IncreaseNumThreads, ConnsBegin, ConnBegun, EndTurn
  <1>9. CASE AwaitThreads
    BY <1>9 DEF AwaitThreads, ConnsBegin, ConnBegun, EndTurn
  <1>10. CASE SpuriousMainWakeup
    BY <1>10 DEF SpuriousMainWakeup, ConnsBegin, ConnBegun, EndTurn
  <1>11. ASSUME NEW c \in Conns, StartRequest(c) PROVE SocketsFollow' /\ OpenSocketsOwned'
    <2>1. /\ worker[c] = "run" /\ UNCHANGED <<main, cur, sock>>
          /\ \E w \in {"incall", "close"} : worker' = [worker EXCEPT ![c] = w]
      BY <1>11 DEF StartRequest
    <2> QED BY <2>1
  <1>12. ASSUME NEW c \in Conns, Reply(c) PROVE SocketsFollow' /\ OpenSocketsOwned'
    BY <1>12 DEF Reply, AfterReply
  <1>13. ASSUME NEW c \in Conns, CloseConn(c) PROVE SocketsFollow' /\ OpenSocketsOwned'
    BY <1>13 DEF CloseConn, ConnsBegin, ConnBegun, EndTurn
  <1>14. ASSUME NEW c \in Conns, DecreaseNumThreads(c)
         PROVE  SocketsFollow' /\ OpenSocketsOwned'
    BY <1>14 DEF DecreaseNumThreads, ConnsBegin, ConnBegun, EndTurn
  <1> QED BY <1>1, <1>2, <1>3, <1>4, <1>5, <1>6, <1>7, <1>8,
             <1>9, <1>10, <1>11, <1>12, <1>13, <1>14
             DEF ServerNext, MainStep, WorkerStep

(* A connection that has not been accepted has no calls, and a call in progress
   is waited for. *)
LEMMA CallsStep ==
  ASSUME Typed, Typed', TurnHasConn, ConnsBegin, [ServerNext]_<<vars, serverVars>>,
         NEW d \in Conns, CallsAwaited(d)
  PROVE  ConnBegun(d)' /\ CallsAwaited(d)'
  <1> USE DEF ConnBegun, CallsAwaited
  <1>0. ConnBegun(d)
    BY DEF ConnsBegin
  <1>00. CallsGoOn =>
           /\ pc[<<d, "init">>] \in {"idle", "done"} => pc'[<<d, "init">>] = pc[<<d, "init">>]
           /\ pc[<<d, "serve">>] \in {"idle", "done"} => pc'[<<d, "serve">>] = pc[<<d, "serve">>]
    BY CallsOfConns DEF CallsGoOn
  <1>1. CASE UNCHANGED <<vars, serverVars>>
    BY <1>0, <1>00, <1>1, StutterGoesOn DEF serverVars
  <1>2. CASE DecoderStep
    BY <1>0, <1>00, <1>2, DecoderGoesOn DEF DecoderStep, serverVars
  <1>3. ASSUME NEW c \in Conns, Accept(c) PROVE ConnBegun(d)' /\ CallsAwaited(d)'
    BY <1>0, <1>00, <1>3, StutterGoesOn DEF Accept, EndTurn, Typed, TurnHasConn
  <1>4. CASE GetRequestType
    BY <1>0, <1>00, <1>4, StutterGoesOn DEF GetRequestType, EndTurn, Typed, TurnHasConn
  <1>5. CASE GetUserId
    <2>1. /\ cur \in Conns /\ main = "getuser" /\ UNCHANGED <<req, worker>>
          /\ sock[cur] # "unconnected"
      BY <1>5, UserIdTaken DEF TurnHasConn
    <2>2. CASE EndTurn(end_server, "closed") /\ CallsGoOn
      BY <1>0, <1>00, <2>1, <2>2 DEF EndTurn, Typed
    <2>3. CASE main' = "spawn" /\ cur' = cur /\ sock' = sock /\ CallsGoOn
      BY <1>0, <1>00, <2>1, <2>3
    <2>4. CASE /\ main' = "initpars" /\ cur' = cur /\ sock' = sock
             /\ CallMade(<<cur, "init">>, "initUserPars", req[cur].user)
      <3>1. /\ pc'[<<d, "serve">>] = pc[<<d, "serve">>]
            /\ d # cur => pc'[<<d, "init">>] = pc[<<d, "init">>]
        BY <2>4, CallsOfConns DEF CallMade
      <3>2. main' = "initpars" /\ cur' = cur /\ sock' = sock
        BY <2>4
      <3> QED BY <1>0, <2>1, <3>1, <3>2
    <2> QED BY <1>5, <2>2, <2>3, <2>4, UserIdTaken
  <1>6. CASE InitUserParsReturned
    <2>1. /\ cur \in Conns /\ main = "initpars" /\ pc[<<cur, "init">>] = "done"
          /\ UNCHANGED <<vars, req, worker>> /\ sock[cur] # "unconnected"
      BY <1>6 DEF InitUserParsReturned, TurnHasConn
    <2>2. \/ cur' = None /\ sock' = [sock EXCEPT ![cur] = "closed"]
          \/ cur' = cur /\ sock' = sock
      BY <1>6 DEF InitUserParsReturned, EndTurn
    <2>3. pc' = pc
      BY <2>1 DEF vars
    <2> QED BY ZenonT(60), <1>0, <2>1, <2>2, <2>3 DEF Typed
  <1>7. CASE SpawnWorker
    BY <1>0, <1>00, <1>7, StutterGoesOn DEF SpawnWorker, AfterSpawn, EndTurn, Typed, TurnHasConn
  <1>8. CASE IncreaseNumThreads
    BY <1>0, <1>00, <1>8, StutterGoesOn DEF IncreaseNumThreads, EndTurn, Typed, TurnHasConn
  <1>9. CASE AwaitThreads
    BY <1>0, <1>00, <1>9, StutterGoesOn DEF AwaitThreads, EndTurn, Typed, TurnHasConn
  <1>10. CASE SpuriousMainWakeup
    BY <1>0, <1>00, <1>10, StutterGoesOn DEF SpuriousMainWakeup, EndTurn, Typed, TurnHasConn
  <1>11. ASSUME NEW c \in Conns, StartRequest(c) PROVE ConnBegun(d)' /\ CallsAwaited(d)'
    <2>1. worker[c] = "run" /\ UNCHANGED <<main, cur, req, sock>>
      BY <1>11, RequestStarted
    <2>2. CASE worker' = [worker EXCEPT ![c] = "close"] /\ CallsGoOn
      BY <1>0, <1>00, <2>1, <2>2 DEF Typed
    <2>3. CASE /\ worker' = [worker EXCEPT ![c] = "incall"]
             /\ CallMade(<<c, "serve">>, OpOf[req[c].type], req[c].user)
      <3>1. /\ pc'[<<d, "init">>] = pc[<<d, "init">>]
            /\ d # c => pc'[<<d, "serve">>] = pc[<<d, "serve">>]
        BY <2>3, CallsOfConns DEF CallMade
      <3>2. worker' = [worker EXCEPT ![c] = "incall"]
        BY <2>3
      <3> QED BY <1>0, <2>1, <3>1, <3>2 DEF Typed
    <2> QED BY <1>11, <2>2, <2>3, RequestStarted
  <1>12. ASSUME NEW c \in Conns, Reply(c) PROVE ConnBegun(d)' /\ CallsAwaited(d)'
    <2>1. /\ worker[c] = "incall" /\ pc[<<c, "serve">>] = "done"
          /\ worker' = [worker EXCEPT ![c] = "close"]
          /\ sock' = [sock EXCEPT ![c] = "answered"]
          /\ main' = main /\ cur' = cur /\ req' = req /\ pc' = pc
      BY <1>12 DEF Reply, AfterReply, vars
    <2>2. sock[c] # "unconnected"
      BY <2>1 DEF ConnsBegin
    <2>3. CASE d = c
      BY <1>0, <2>1, <2>2, <2>3 DEF Typed
    <2>4. CASE d # c
      <3>1. worker'[d] = worker[d] /\ sock'[d] = sock[d]
        BY <2>1, <2>4 DEF Typed
      <3> QED BY <1>0, <2>1, <3>1
    <2> QED BY <2>3, <2>4
  <1>13. ASSUME NEW c \in Conns, CloseConn(c) PROVE ConnBegun(d)' /\ CallsAwaited(d)'
    BY <1>0, <1>00, <1>13, StutterGoesOn DEF CloseConn, EndTurn, Typed, TurnHasConn
  <1>14. ASSUME NEW c \in Conns, DecreaseNumThreads(c)
         PROVE  ConnBegun(d)' /\ CallsAwaited(d)'
    BY <1>0, <1>00, <1>14, StutterGoesOn DEF DecreaseNumThreads, EndTurn, Typed, TurnHasConn
  <1> QED BY <1>1, <1>2, <1>3, <1>4, <1>5, <1>6, <1>7, <1>8,
             <1>9, <1>10, <1>11, <1>12, <1>13, <1>14
             DEF ServerNext, MainStep, WorkerStep
(* A step that starts and ends no thread, and does not count one, keeps the
   account. *)
LEMMA AccountUnmoved ==
  ASSUME ThreadsAccounted, num_threads' = num_threads,
         \A d \in Conns : Alive(d)' <=> Alive(d),
         (main' = "increase") <=> (main = "increase")
  PROVE  ThreadsAccounted'
  <1>1. {d \in Conns : Alive(d)}' = {d \in Conns : Alive(d)}
    OBVIOUS
  <1> QED BY <1>1 DEF ThreadsAccounted

(* The counter accounts for the threads that run, the one that has just been
   created excepted. *)
LEMMA AccountedStep ==
  ASSUME ServerInv, Typed', [ServerNext]_<<vars, serverVars>>
  PROVE  ThreadsAccounted'
  <1> USE ServerConstants DEF ServerInv, Typed, TurnHasConn, Alive
  <1>1. CASE UNCHANGED <<vars, serverVars>>
    <2>1. /\ num_threads' = num_threads
          /\ \A d \in Conns : Alive(d)' <=> Alive(d)
          /\ (main' = "increase") <=> (main = "increase")
      BY <1>1 DEF serverVars
    <2> QED BY <2>1, AccountUnmoved DEF ServerInv
  <1>2. CASE DecoderStep
    <2>1. /\ num_threads' = num_threads
          /\ \A d \in Conns : Alive(d)' <=> Alive(d)
          /\ (main' = "increase") <=> (main = "increase")
      BY <1>2 DEF DecoderStep, serverVars
    <2> QED BY <2>1, AccountUnmoved DEF ServerInv
  <1>3. ASSUME NEW c \in Conns, Accept(c) PROVE ThreadsAccounted'
    <2>1. /\ num_threads' = num_threads
          /\ \A d \in Conns : Alive(d)' <=> Alive(d)
          /\ (main' = "increase") <=> (main = "increase")
      BY <1>3 DEF Accept, EndTurn
    <2> QED BY <2>1, AccountUnmoved DEF ServerInv
  <1>4. CASE GetRequestType
    <2>1. /\ num_threads' = num_threads
          /\ \A d \in Conns : Alive(d)' <=> Alive(d)
          /\ (main' = "increase") <=> (main = "increase")
      BY <1>4 DEF GetRequestType, EndTurn
    <2> QED BY <2>1, AccountUnmoved DEF ServerInv
  <1>5. CASE GetUserId
    <2>1. /\ num_threads' = num_threads
          /\ \A d \in Conns : Alive(d)' <=> Alive(d)
          /\ (main' = "increase") <=> (main = "increase")
      BY <1>5 DEF GetUserId, EndTurn
    <2> QED BY <2>1, AccountUnmoved DEF ServerInv
  <1>6. CASE InitUserParsReturned
    <2>1. /\ num_threads' = num_threads
          /\ \A d \in Conns : Alive(d)' <=> Alive(d)
          /\ (main' = "increase") <=> (main = "increase")
      BY <1>6 DEF InitUserParsReturned, EndTurn
    <2> QED BY <2>1, AccountUnmoved DEF ServerInv
  <1>7. CASE SpawnWorker
    <2> DEFINE A == {d \in Conns : Alive(d)}
    <2>1. CASE worker' = worker /\ main' # "increase"
      <3>1. num_threads' = num_threads /\ main = "spawn"
        BY <1>7 DEF SpawnWorker
      <3> QED BY <2>1, <3>1, AccountUnmoved DEF ServerInv
    <2>2. CASE worker' = [worker EXCEPT ![cur] = "run"] /\ main' = "increase"
      <3>1. num_threads' = num_threads /\ main = "spawn" /\ cur \in Conns \ A
        BY <1>7 DEF SpawnWorker
      <3>2. A' = A \cup {cur}
        BY <2>2, <3>1
      <3>3. IsFiniteSet(A)
        BY FS_Subset
      <3>4. Cardinality(A \cup {cur}) = Cardinality(A) + 1
        <4> HIDE DEF A
        <4> QED BY <3>1, <3>3, FS_AddElement
      <3>5. num_threads = Cardinality(A) /\ Cardinality(A) \in Nat
        BY <3>1, <3>3, FS_CardinalityType DEF ThreadsAccounted
      <3>6. num_threads' = Cardinality(A') - 1
        <4> HIDE DEF A
        <4> QED BY <3>1, <3>2, <3>4, <3>5
      <3> QED BY <2>2, <3>6 DEF ThreadsAccounted
    <2> QED BY <1>7, <2>1, <2>2 DEF SpawnWorker, AfterSpawn, EndTurn
  <1>8. CASE IncreaseNumThreads
    <2> DEFINE A == {d \in Conns : Alive(d)}
    <2>1. /\ main = "increase" /\ num_threads' = num_threads + 1 /\ worker' = worker
          /\ main' # "increase"
      BY <1>8 DEF IncreaseNumThreads, EndTurn
    <2>2. A' = A
      BY <2>1
    <2>3. Cardinality(A) \in Nat /\ num_threads = Cardinality(A) - 1
      BY <2>1, FS_Subset, FS_CardinalityType DEF ThreadsAccounted
    <2> QED BY <2>1, <2>2, <2>3 DEF ThreadsAccounted
  <1>9. CASE AwaitThreads
    <2>1. /\ num_threads' = num_threads
          /\ \A d \in Conns : Alive(d)' <=> Alive(d)
          /\ (main' = "increase") <=> (main = "increase")
      BY <1>9 DEF AwaitThreads, EndTurn
    <2> QED BY <2>1, AccountUnmoved DEF ServerInv
  <1>10. CASE SpuriousMainWakeup
    <2>1. /\ num_threads' = num_threads
          /\ \A d \in Conns : Alive(d)' <=> Alive(d)
          /\ (main' = "increase") <=> (main = "increase")
      BY <1>10 DEF SpuriousMainWakeup, EndTurn
    <2> QED BY <2>1, AccountUnmoved DEF ServerInv
  <1>11. ASSUME NEW c \in Conns, StartRequest(c) PROVE ThreadsAccounted'
    <2>1. /\ num_threads' = num_threads
          /\ \A d \in Conns : Alive(d)' <=> Alive(d)
          /\ (main' = "increase") <=> (main = "increase")
      BY <1>11 DEF StartRequest, EndTurn
    <2> QED BY <2>1, AccountUnmoved DEF ServerInv
  <1>12. ASSUME NEW c \in Conns, Reply(c) PROVE ThreadsAccounted'
    <2>1. /\ num_threads' = num_threads
          /\ \A d \in Conns : Alive(d)' <=> Alive(d)
          /\ (main' = "increase") <=> (main = "increase")
      BY <1>12 DEF Reply, AfterReply
    <2> QED BY <2>1, AccountUnmoved DEF ServerInv
  <1>13. ASSUME NEW c \in Conns, CloseConn(c) PROVE ThreadsAccounted'
    <2>1. /\ num_threads' = num_threads
          /\ \A d \in Conns : Alive(d)' <=> Alive(d)
          /\ (main' = "increase") <=> (main = "increase")
      BY <1>13 DEF CloseConn, EndTurn
    <2> QED BY <2>1, AccountUnmoved DEF ServerInv
  <1>14. ASSUME NEW c \in Conns, DecreaseNumThreads(c) PROVE ThreadsAccounted'
    <2> DEFINE A == {d \in Conns : Alive(d)}
    <2>1. /\ worker[c] = "decrease" /\ num_threads' = num_threads - 1
          /\ worker' = [worker EXCEPT ![c] = "exited"]
          /\ (main' = "increase") <=> (main = "increase")
      BY <1>14 DEF DecreaseNumThreads
    <2>2. c \in A /\ A' = A \ {c}
      BY <2>1
    <2>3. IsFiniteSet(A)
      BY FS_Subset
    <2>4. Cardinality(A \ {c}) = Cardinality(A) - 1 /\ Cardinality(A) \in Nat
      <3> HIDE DEF A
      <3> QED BY <2>2, <2>3, FS_RemoveElement, FS_CardinalityType
    <2>5. Cardinality(A') = Cardinality(A) - 1
      <3> HIDE DEF A
      <3> QED BY <2>2, <2>4
    <2> QED BY <2>1, <2>4, <2>5 DEF ThreadsAccounted
  <1> QED BY <1>1, <1>2, <1>3, <1>4, <1>5, <1>6, <1>7, <1>8,
             <1>9, <1>10, <1>11, <1>12, <1>13, <1>14
             DEF ServerNext, MainStep, WorkerStep

(* The shutdown sees a counter of 0, and then nothing can change it. *)
LEMMA DownStep ==
  ASSUME ServerInv, Typed', [ServerNext]_<<vars, serverVars>>
  PROVE  DownIsQuiet'
  <1> USE ServerConstants DEF ServerInv, Typed, DownIsQuiet, MainPlaces
  <1>1. CASE UNCHANGED <<vars, serverVars>>
    BY <1>1 DEF serverVars
  <1>2. CASE DecoderStep
    BY <1>2 DEF DecoderStep, serverVars
  <1>3. ASSUME NEW c \in Conns, Accept(c) PROVE DownIsQuiet'
    BY <1>3 DEF Accept, EndTurn
  <1>4. CASE GetRequestType
    BY <1>4 DEF GetRequestType, EndTurn
  <1>5. CASE GetUserId
    BY <1>5 DEF GetUserId, EndTurn
  <1>6. CASE InitUserParsReturned
    BY <1>6 DEF InitUserParsReturned, EndTurn
  <1>7. CASE SpawnWorker
    BY <1>7 DEF SpawnWorker, AfterSpawn, EndTurn
  <1>8. CASE IncreaseNumThreads
    BY <1>8 DEF IncreaseNumThreads, EndTurn
  <1>9. CASE AwaitThreads
    <2>1. num_threads \in Nat \/ main # "wait"
      BY FS_Subset, FS_CardinalityType DEF ThreadsAccounted
    <2> QED BY <1>9, <2>1 DEF AwaitThreads
  <1>10. CASE SpuriousMainWakeup
    BY <1>10 DEF SpuriousMainWakeup, EndTurn
  <1>11. ASSUME NEW c \in Conns, StartRequest(c) PROVE DownIsQuiet'
    BY <1>11 DEF StartRequest, EndTurn
  <1>12. ASSUME NEW c \in Conns, Reply(c) PROVE DownIsQuiet'
    BY <1>12 DEF Reply
  <1>13. ASSUME NEW c \in Conns, CloseConn(c) PROVE DownIsQuiet'
    BY <1>13 DEF CloseConn, EndTurn
  <1>14. ASSUME NEW c \in Conns, DecreaseNumThreads(c) PROVE DownIsQuiet'
    BY <1>14 DEF DecreaseNumThreads, EndTurn
  <1> QED BY <1>1, <1>2, <1>3, <1>4, <1>5, <1>6, <1>7, <1>8,
             <1>9, <1>10, <1>11, <1>12, <1>13, <1>14
             DEF ServerNext, MainStep, WorkerStep

-----------------------------------------------------------------------------
(* The theorems.                                                           *)

LEMMA ServerInitInv == ServerInit => ServerInv
  <1> SUFFICES ASSUME ServerInit PROVE ServerInv
    OBVIOUS
  <1> USE ServerConstants, ConstantsAssumption
  <1>1. Typed
    <2>1. pc \in [Threads -> Places]
      BY DEF ServerInit, Init, Places
    <2>2. call \in [Threads -> [op : AllOps \cup {"none"}, user : Users \cup {None}]]
      BY DEF ServerInit, Init
    <2>3. req \in [Conns -> [type : Requests \cup {"unknown"}, user : Users \cup {None}]]
      BY DEF ServerInit
    <2>4. /\ sock \in [Conns -> {"unconnected", "open", "answered", "closed", "abandoned"}]
          /\ worker \in [Conns -> {"none", "run", "incall", "close", "decrease", "exited"}]
      BY DEF ServerInit
    <2>5. /\ main \in MainPlaces /\ cur \in Conns \cup {None}
          /\ end_server \in BOOLEAN /\ user_set \subseteq Users
          /\ num_threads \in Int /\ num_threads_var_mut \in {"main", None}
      <3>1. main = "accept" /\ cur = None /\ num_threads = 0 /\ num_threads_var_mut = None
        BY DEF ServerInit
      <3>2. end_server = FALSE /\ user_set = {}
        BY DEF ServerInit
      <3>3. end_server \in BOOLEAN
        BY <3>2
      <3>4. main \in MainPlaces
        BY <3>1 DEF MainPlaces
      <3>5. num_threads \in Int
        BY <3>1
      <3> QED BY <3>1, <3>2, <3>3, <3>4, <3>5
    <2> QED BY <2>1, <2>2, <2>3, <2>4, <2>5 DEF Typed
  <1>2. TurnHasConn /\ SocketsFollow /\ OpenSocketsOwned /\ DownIsQuiet
    BY DEF ServerInit, TurnHasConn, SocketsFollow, OpenSocketsOwned, DownIsQuiet
  <1>3. ConnsBegin /\ CallsFollow
    BY CallsOfConns DEF ServerInit, Init, ConnsBegin, ConnBegun, CallsFollow, CallsAwaited
  <1>4. ThreadsAccounted
    <2>1. {c \in Conns : Alive(c)} = {} /\ num_threads = 0 /\ main = "accept"
      BY DEF ServerInit, Alive
    <2>2. Cardinality({}) = 0
      BY FS_EmptySet
    <2>3. Cardinality({c \in Conns : Alive(c)}) = 0
      BY <2>1, <2>2
    <2>4. (IF main = "increase" THEN 1 ELSE 0) = 0
      BY <2>1
    <2>5. 0 = 0 - 0
      OBVIOUS
    <2> QED BY <2>1, <2>3, <2>4, <2>5 DEF ThreadsAccounted
  <1> QED BY <1>1, <1>2, <1>3, <1>4 DEF ServerInv

LEMMA ServerStepInv ==
  ASSUME ServerInv, [ServerNext]_<<vars, serverVars>>
  PROVE  ServerInv'
  <1>1. Typed'
    BY TypedStep DEF ServerInv
  <1>2. TurnHasConn' /\ SocketsFollow' /\ OpenSocketsOwned'
    BY <1>1, TurnHasConnStep, SocketsStep
  <1>3. \A d \in Conns : ConnBegun(d)' /\ CallsAwaited(d)'
    BY <1>1, CallsStep DEF ServerInv, CallsFollow
  <1>4. ThreadsAccounted' /\ DownIsQuiet'
    BY <1>1, AccountedStep, DownStep
  <1> QED BY <1>1, <1>2, <1>3, <1>4 DEF ServerInv, ConnsBegin, CallsFollow

(* The inductive invariant holds of the server. *)
THEOREM ServerInvariance == ServerSpec => []ServerInv
  BY ServerInitInv, ServerStepInv, PTL DEF ServerSpec

(* The server's variables have their types, and num_threads is never below
   -1 nor above the number of connections. *)
THEOREM ServerTypeCorrect == ServerSpec => []ServerTypeOK
  <1>1. ServerInv => ServerTypeOK
    <2> SUFFICES ASSUME ServerInv PROVE ServerTypeOK
      OBVIOUS
    <2> DEFINE A == {c \in Conns : Alive(c)}
    <2>1. Cardinality(A) \in 0..Cardinality(Conns) /\ Cardinality(Conns) \in Nat
      BY ServerConstants, FS_Subset, FS_CardinalityType
    <2>2. num_threads \in -1..Cardinality(Conns)
      BY <2>1 DEF ServerInv, ThreadsAccounted
    <2>3. [type : Requests \cup {"unknown"}, user : Users \cup {None}]
            \subseteq [type : DOMAIN OpOf \cup {"unknown"}, user : Users \cup {None}]
      BY ServerConstants
    <2> QED BY <2>2, <2>3 DEF ServerInv, Typed, MainPlaces, ServerTypeOK
  <1> QED BY <1>1, ServerInvariance, PTL

(* num_threads accounts for the request threads that run. *)
THEOREM CounterIsExact == ServerSpec => []ThreadsAccounted
  <1>1. ServerInv => ThreadsAccounted
    BY DEF ServerInv
  <1> QED BY <1>1, ServerInvariance, PTL

(* An open socket belongs to the main thread or to a request thread. *)
THEOREM NoSocketForgotten == ServerSpec => []OpenSocketsOwned
  <1>1. ServerInv => OpenSocketsOwned
    BY DEF ServerInv
  <1> QED BY <1>1, ServerInvariance, PTL

(* When main deletes the decoder, no thread runs and no call is inside. *)
THEOREM ShutdownIsQuiet == ServerSpec => []QuietAtShutdown
  <1>1. ServerInv => QuietAtShutdown
    <2> SUFFICES ASSUME ServerInv, main = "down"
                 PROVE  /\ \A c \in Conns : ~Alive(c)
                        /\ \A t \in Threads : pc[t] \in {"idle", "done"}
      BY DEF QuietAtShutdown
    <2> DEFINE A == {c \in Conns : Alive(c)}
    <2>1. IsFiniteSet(A) /\ Cardinality(A) \in Nat
      BY ServerConstants, FS_Subset, FS_CardinalityType
    <2>2. Cardinality(A) = 0
      BY <2>1 DEF ServerInv, DownIsQuiet, ThreadsAccounted
    <2>3. \A c \in Conns : ~Alive(c)
      BY <2>1, <2>2, FS_EmptySet
    <2>4. \A c \in Conns : /\ pc[<<c, "init">>] \in {"idle", "done"}
                           /\ pc[<<c, "serve">>] \in {"idle", "done"}
      BY <2>3 DEF ServerInv, CallsFollow, CallsAwaited, Alive
    <2> QED BY <2>3, <2>4, CallsOfConns
  <1> QED BY <1>1, ServerInvariance, PTL

-----------------------------------------------------------------------------
(* The server as a caller of the decoder.                                  *)

(* A step lets the calls go on, or makes one, of an accepted connection. *)
LEMMA CallsChange ==
  ASSUME ServerInv, [ServerNext]_<<vars, serverVars>>
  PROVE  \/ CallsGoOn
         \/ /\ GetUserId /\ cur \in Conns
            /\ CallMade(<<cur, "init">>, "initUserPars", req[cur].user)
         \/ \E c \in Conns :
              /\ StartRequest(c) /\ req[c].type # "unknown"
              /\ CallMade(<<c, "serve">>, OpOf[req[c].type], req[c].user)
  <1> DEFINE Goal ==
        \/ CallsGoOn
        \/ /\ GetUserId /\ cur \in Conns
           /\ CallMade(<<cur, "init">>, "initUserPars", req[cur].user)
        \/ \E d \in Conns :
             /\ StartRequest(d) /\ req[d].type # "unknown"
             /\ CallMade(<<d, "serve">>, OpOf[req[d].type], req[d].user)
  <1> USE DEF ServerInv
  <1>1. CASE UNCHANGED <<vars, serverVars>>
    BY <1>1, StutterGoesOn
  <1>2. CASE DecoderStep
    BY <1>2, DecoderGoesOn
  <1>3. ASSUME NEW c \in Conns, Accept(c) PROVE Goal
    BY <1>3, StutterGoesOn DEF Accept
  <1>4. CASE GetRequestType
    BY <1>4, StutterGoesOn DEF GetRequestType
  <1>5. CASE GetUserId
    BY <1>5, UserIdTaken
  <1>6. CASE InitUserParsReturned
    BY <1>6, StutterGoesOn DEF InitUserParsReturned
  <1>7. CASE SpawnWorker
    BY <1>7, StutterGoesOn DEF SpawnWorker
  <1>8. CASE IncreaseNumThreads
    BY <1>8, StutterGoesOn DEF IncreaseNumThreads
  <1>9. CASE AwaitThreads
    BY <1>9, StutterGoesOn DEF AwaitThreads
  <1>10. CASE SpuriousMainWakeup
    BY <1>10, StutterGoesOn DEF SpuriousMainWakeup
  <1>11. ASSUME NEW c \in Conns, StartRequest(c) PROVE Goal
    BY <1>11, RequestStarted
  <1>12. ASSUME NEW c \in Conns, Reply(c) PROVE Goal
    BY <1>12, StutterGoesOn DEF Reply
  <1>13. ASSUME NEW c \in Conns, CloseConn(c) PROVE Goal
    BY <1>13, StutterGoesOn DEF CloseConn
  <1>14. ASSUME NEW c \in Conns, DecreaseNumThreads(c) PROVE Goal
    BY <1>14, StutterGoesOn DEF DecreaseNumThreads
  <1> QED BY <1>1, <1>2, <1>3, <1>4, <1>5, <1>6, <1>7, <1>8,
             <1>9, <1>10, <1>11, <1>12, <1>13, <1>14
             DEF ServerNext, MainStep, WorkerStep

(* The request of an accepted connection does not change. *)
LEMMA RequestsKept ==
  ASSUME ServerInv, [ServerNext]_<<vars, serverVars>>
  PROVE  \A d \in Conns : sock[d] # "unconnected" => req'[d] = req[d]
  <1> USE DEF ServerInv, Typed
  <1>1. CASE UNCHANGED <<vars, serverVars>>
    BY <1>1 DEF serverVars
  <1>2. CASE DecoderStep
    BY <1>2 DEF DecoderStep, serverVars
  <1>3. ASSUME NEW c \in Conns, Accept(c)
        PROVE  \A d \in Conns : sock[d] # "unconnected" => req'[d] = req[d]
    BY <1>3 DEF Accept
  <1>4. CASE GetRequestType
    BY <1>4 DEF GetRequestType
  <1>5. CASE GetUserId
    BY <1>5 DEF GetUserId
  <1>6. CASE InitUserParsReturned
    BY <1>6 DEF InitUserParsReturned
  <1>7. CASE SpawnWorker
    BY <1>7 DEF SpawnWorker
  <1>8. CASE IncreaseNumThreads
    BY <1>8 DEF IncreaseNumThreads
  <1>9. CASE AwaitThreads
    BY <1>9 DEF AwaitThreads
  <1>10. CASE SpuriousMainWakeup
    BY <1>10 DEF SpuriousMainWakeup
  <1>11. ASSUME NEW c \in Conns, StartRequest(c)
         PROVE  \A d \in Conns : sock[d] # "unconnected" => req'[d] = req[d]
    BY <1>11 DEF StartRequest
  <1>12. ASSUME NEW c \in Conns, Reply(c)
         PROVE  \A d \in Conns : sock[d] # "unconnected" => req'[d] = req[d]
    BY <1>12 DEF Reply
  <1>13. ASSUME NEW c \in Conns, CloseConn(c)
         PROVE  \A d \in Conns : sock[d] # "unconnected" => req'[d] = req[d]
    BY <1>13 DEF CloseConn
  <1>14. ASSUME NEW c \in Conns, DecreaseNumThreads(c)
         PROVE  \A d \in Conns : sock[d] # "unconnected" => req'[d] = req[d]
    BY <1>14 DEF DecreaseNumThreads
  <1> QED BY <1>1, <1>2, <1>3, <1>4, <1>5, <1>6, <1>7, <1>8,
             <1>9, <1>10, <1>11, <1>12, <1>13, <1>14
             DEF ServerNext, MainStep, WorkerStep

(* A user that has been initialized stays so. *)
LEMMA ReadyGrows ==
  ASSUME ServerInv, [ServerNext]_<<vars, serverVars>>
  PROVE  Ready \subseteq Ready'
  <1> SUFFICES ASSUME NEW u \in Users, NEW s \in Threads,
                      call[s] = [op |-> "initUserPars", user |-> u], pc[s] = "done"
               PROVE  call'[s] = call[s] /\ pc'[s] = pc[s]
    BY DEF Ready, Initialized
  <1>1. CASE CallsGoOn
    BY <1>1 DEF CallsGoOn
  <1>2. ASSUME NEW t \in Threads, NEW op, NEW v, CallMade(t, op, v)
        PROVE  call'[s] = call[s] /\ pc'[s] = pc[s]
    BY <1>2 DEF CallMade
  <1> QED BY <1>1, <1>2, CallsChange, CallsOfConns

(* A call that has been made is not undone. *)
LEMMA InitCallStays ==
  ASSUME ServerInv, [ServerNext]_<<vars, serverVars>>, NEW c \in Conns,
         pc[<<c, "init">>] # "idle"
  PROVE  pc'[<<c, "init">>] # "idle"
  <1>1. CASE CallsGoOn
    BY <1>1, CallsOfConnsGoOn
  <1>2. ASSUME NEW t \in Threads, NEW op, NEW v, CallMade(t, op, v)
        PROVE  pc'[<<c, "init">>] # "idle"
    BY <1>2, CallsOfConns DEF CallMade
  <1> QED BY <1>1, <1>2, CallsChange, CallsOfConns

(* The calls stay those of the connection's request. *)
LEMMA RequestCallsStep ==
  ASSUME ServerInv, [ServerNext]_<<vars, serverVars>>, NEW d \in Conns, RequestCalls(d)
  PROVE  RequestCalls(d)'
  <1>1. \/ req'[d] = req[d]
        \/ pc[<<d, "init">>] = "idle" /\ pc[<<d, "serve">>] = "idle"
    BY RequestsKept DEF ServerInv, ConnsBegin, ConnBegun
  <1>2. sock[d] # "unconnected" => req'[d] = req[d]
    BY RequestsKept
  <1>3. CASE CallsGoOn
    <2>1. call' = call
      BY <1>3 DEF CallsGoOn
    <2> QED BY <1>1, <1>3, <2>1, CallsOfConnsGoOn DEF RequestCalls
  <1>4. CASE GetUserId /\ cur \in Conns /\ CallMade(<<cur, "init">>, "initUserPars", req[cur].user)
    <2>1. req' = req
      BY <1>4 DEF GetUserId
    <2>2. CASE d = cur
      <3>1. /\ pc'[<<d, "init">>] # "idle"
            /\ call'[<<d, "init">>] = [op |-> "initUserPars", user |-> req[d].user]
        BY <1>4, <2>2 DEF CallMade
      <3>2. pc'[<<d, "serve">>] = pc[<<d, "serve">>] /\ call'[<<d, "serve">>] = call[<<d, "serve">>]
        BY <1>4, <2>2, CallsOfConns DEF CallMade
      <3> QED BY <2>1, <3>1, <3>2 DEF RequestCalls
    <2>3. CASE d # cur
      <3>1. /\ pc'[<<d, "init">>] = pc[<<d, "init">>] /\ call'[<<d, "init">>] = call[<<d, "init">>]
            /\ pc'[<<d, "serve">>] = pc[<<d, "serve">>] /\ call'[<<d, "serve">>] = call[<<d, "serve">>]
        BY <1>4, <2>3, CallsOfConns DEF CallMade
      <3> QED BY <2>1, <3>1 DEF RequestCalls
    <2> QED BY <2>2, <2>3
  <1>5. ASSUME NEW c \in Conns, StartRequest(c), req[c].type # "unknown",
               CallMade(<<c, "serve">>, OpOf[req[c].type], req[c].user)
        PROVE  RequestCalls(d)'
    <2>1. req' = req
      BY <1>5 DEF StartRequest
    <2>2. CASE d = c
      <3>1. /\ pc'[<<d, "serve">>] # "idle" /\ req[d].type # "unknown"
            /\ call'[<<d, "serve">>] = [op |-> OpOf[req[d].type], user |-> req[d].user]
        BY <1>5, <2>2 DEF CallMade
      <3>2. pc'[<<d, "init">>] = pc[<<d, "init">>] /\ call'[<<d, "init">>] = call[<<d, "init">>]
        BY <1>5, <2>2, CallsOfConns DEF CallMade
      <3> QED BY <2>1, <3>1, <3>2 DEF RequestCalls
    <2>3. CASE d # c
      <3>1. /\ pc'[<<d, "init">>] = pc[<<d, "init">>] /\ call'[<<d, "init">>] = call[<<d, "init">>]
            /\ pc'[<<d, "serve">>] = pc[<<d, "serve">>] /\ call'[<<d, "serve">>] = call[<<d, "serve">>]
        BY <1>5, <2>3, CallsOfConns DEF CallMade
      <3> QED BY <2>1, <3>1 DEF RequestCalls
    <2> QED BY <2>2, <2>3
  <1> QED BY <1>3, <1>4, <1>5, CallsChange

(* An END_SERVER ends the loop. *)
LEMMA EndsStep ==
  ASSUME ServerInv, CurEnds, [ServerNext]_<<vars, serverVars>>,
         NEW d, d \in Conns => WorkerEnds(d)
  PROVE  CurEnds' /\ (d \in Conns => WorkerEnds(d)')
  <1> USE DEF ServerInv, Typed, TurnHasConn, CurEnds, WorkerEnds
  <1>0. d \in Conns /\ sock[d] = "unconnected" => worker[d] = "none"
    BY DEF ConnsBegin, ConnBegun
  <1>1. CASE UNCHANGED <<vars, serverVars>>
    BY <1>1 DEF serverVars
  <1>2. CASE DecoderStep
    BY <1>2 DEF DecoderStep, serverVars
  <1>3. ASSUME NEW c \in Conns, Accept(c)
        PROVE  CurEnds' /\ (d \in Conns => WorkerEnds(d)')
    BY <1>0, <1>3 DEF Accept, EndTurn
  <1>4. CASE GetRequestType
    <2>1. main = "gettype" /\ cur \in Conns /\ UNCHANGED <<req, worker>>
      BY <1>4 DEF GetRequestType
    <2>2. d \in Conns => WorkerEnds(d)'
      BY <2>1
    <2>3. CASE EndTurn(FALSE, "closed") /\ UNCHANGED end_server
      BY <2>1, <2>2, <2>3 DEF EndTurn
    <2>4. CASE /\ end_server' = (req[cur].type = "END_SERVER")
             /\ main' = "getuser" /\ UNCHANGED <<cur, sock>>
      BY <2>1, <2>2, <2>4
    <2> QED BY <1>4, <2>3, <2>4 DEF GetRequestType
  <1>5. CASE GetUserId
    BY <1>0, <1>5 DEF GetUserId, EndTurn
  <1>6. CASE InitUserParsReturned
    BY <1>0, <1>6 DEF InitUserParsReturned, EndTurn
  <1>7. CASE SpawnWorker
    BY <1>0, <1>7 DEF SpawnWorker, AfterSpawn, EndTurn
  <1>8. CASE IncreaseNumThreads
    BY <1>0, <1>8 DEF IncreaseNumThreads, EndTurn
  <1>9. CASE AwaitThreads
    BY <1>0, <1>9 DEF AwaitThreads, EndTurn
  <1>10. CASE SpuriousMainWakeup
    BY <1>0, <1>10 DEF SpuriousMainWakeup, EndTurn
  <1>11. ASSUME NEW c \in Conns, StartRequest(c)
         PROVE  CurEnds' /\ (d \in Conns => WorkerEnds(d)')
    BY <1>0, <1>11 DEF StartRequest, EndTurn
  <1>12. ASSUME NEW c \in Conns, Reply(c)
         PROVE  CurEnds' /\ (d \in Conns => WorkerEnds(d)')
    BY <1>0, <1>12 DEF Reply, AfterReply
  <1>13. ASSUME NEW c \in Conns, CloseConn(c)
         PROVE  CurEnds' /\ (d \in Conns => WorkerEnds(d)')
    BY <1>0, <1>13 DEF CloseConn, EndTurn
  <1>14. ASSUME NEW c \in Conns, DecreaseNumThreads(c)
         PROVE  CurEnds' /\ (d \in Conns => WorkerEnds(d)')
    BY <1>0, <1>14 DEF DecreaseNumThreads, EndTurn
  <1> QED BY <1>1, <1>2, <1>3, <1>4, <1>5, <1>6, <1>7, <1>8,
             <1>9, <1>10, <1>11, <1>12, <1>13, <1>14
             DEF ServerNext, MainStep, WorkerStep

(* The users that requests are served for are initialized. *)
LEMMA ReadyStep ==
  ASSUME ServerInv, [ServerNext]_<<vars, serverVars>>, Ready \subseteq Ready',
         NEW d, d \in Conns => WorkerReady(d), NEW u, UsersReady, CurReady,
         \A c \in Conns : RequestCalls(c)
  PROVE  (d \in Conns => WorkerReady(d)') /\ UserReady(u)' /\ CurReady'
  <1> USE DEF ServerInv, Typed, TurnHasConn, WorkerReady, UserReady, CurReady
  <1>a. d \in Conns /\ sock[d] = "unconnected" => worker[d] = "none"
    BY DEF ConnsBegin, ConnBegun
  <1>c. main = "initpars" => pc'[<<cur, "init">>] # "idle"
    BY InitCallStays
  <1>b. UserReady(u)
    BY DEF UsersReady
  <1>1. CASE UNCHANGED <<vars, serverVars>>
    BY <1>1, <1>b DEF vars, serverVars
  <1>2. CASE DecoderStep
    BY <1>b, <1>c, <1>2 DEF DecoderStep, serverVars
  <1>3. ASSUME NEW c \in Conns, Accept(c)
        PROVE  (d \in Conns => WorkerReady(d)') /\ UserReady(u)' /\ CurReady'
    BY <1>a, <1>b, <1>3 DEF Accept, EndTurn, vars
  <1>4. CASE GetRequestType
    <2>1. /\ main = "gettype" /\ UNCHANGED <<req, worker, user_set>>
          /\ main' \in {"accept", "getuser"}
      BY <1>4 DEF GetRequestType, EndTurn
    <2> QED BY <1>b, <2>1
  <1>5. CASE GetUserId
    <2>1. cur \in Conns /\ main = "getuser" /\ UNCHANGED <<req, worker>>
      BY <1>5, UserIdTaken
    <2>2. CASE EndTurn(end_server, "closed") /\ user_set' = user_set
      BY <1>b, <2>1, <2>2 DEF EndTurn
    <2>3. CASE /\ user_set' = user_set \cup {req[cur].user}
             /\ main' = "initpars" /\ cur' = cur
             /\ CallMade(<<cur, "init">>, "initUserPars", req[cur].user)
      <3>1. pc'[<<cur, "init">>] # "idle"
        BY <2>3 DEF CallMade
      <3> QED BY <1>b, <2>1, <2>3, <3>1
    <2>4. CASE /\ req[cur].user \in user_set /\ user_set' = user_set
             /\ main' = "spawn" /\ cur' = cur
      <3>1. req[cur].user \in Ready
        BY <1>b, <2>1, <2>4 DEF UsersReady
      <3> QED BY <1>b, <2>1, <2>4, <3>1
    <2> QED BY <1>5, <2>2, <2>3, <2>4, UserIdTaken
  <1>6. CASE InitUserParsReturned
    <2>1. /\ cur \in Conns /\ main = "initpars" /\ pc[<<cur, "init">>] = "done"
          /\ UNCHANGED <<req, worker, user_set>> /\ main' \in {"accept", "wait", "spawn"}
          /\ main' = "spawn" => cur' = cur
      BY <1>6 DEF InitUserParsReturned, EndTurn
    <2>2. req[cur].user \in Users
      BY <1>b, <2>1 DEF ConnsBegin, ConnBegun
    <2>3. call[<<cur, "init">>] = [op |-> "initUserPars", user |-> req[cur].user]
      BY <1>b, <2>1 DEF RequestCalls
    <2>4. req[cur].user \in Ready
      BY <1>b, <2>1, <2>2, <2>3, CallsOfConns DEF Ready, Initialized
    <2> QED BY <1>b, <2>1, <2>4
  <1>7. CASE SpawnWorker
    BY <1>a, <1>b, <1>7 DEF SpawnWorker, AfterSpawn, EndTurn, vars
  <1>8. CASE IncreaseNumThreads
    BY <1>a, <1>b, <1>8 DEF IncreaseNumThreads, EndTurn, vars
  <1>9. CASE AwaitThreads
    BY <1>a, <1>b, <1>9 DEF AwaitThreads, EndTurn, vars
  <1>10. CASE SpuriousMainWakeup
    BY <1>a, <1>b, <1>10 DEF SpuriousMainWakeup, EndTurn, vars
  <1>11. ASSUME NEW c \in Conns, StartRequest(c)
         PROVE  (d \in Conns => WorkerReady(d)') /\ UserReady(u)' /\ CurReady'
    <2>1. /\ worker[c] = "run" /\ UNCHANGED <<main, cur, req, user_set>>
          /\ \E w \in {"incall", "close"} : worker' = [worker EXCEPT ![c] = w]
      BY <1>11 DEF StartRequest
    <2> QED BY <1>b, <1>c, <2>1
  <1>12. ASSUME NEW c \in Conns, Reply(c)
         PROVE  (d \in Conns => WorkerReady(d)') /\ UserReady(u)' /\ CurReady'
    BY <1>a, <1>b, <1>12 DEF Reply, AfterReply, vars
  <1>13. ASSUME NEW c \in Conns, CloseConn(c)
         PROVE  (d \in Conns => WorkerReady(d)') /\ UserReady(u)' /\ CurReady'
    BY <1>a, <1>b, <1>13 DEF CloseConn, EndTurn, vars
  <1>14. ASSUME NEW c \in Conns, DecreaseNumThreads(c)
         PROVE  (d \in Conns => WorkerReady(d)') /\ UserReady(u)' /\ CurReady'
    BY <1>a, <1>b, <1>14 DEF DecreaseNumThreads, EndTurn, vars
  <1> QED BY <1>1, <1>2, <1>3, <1>4, <1>5, <1>6, <1>7, <1>8,
             <1>9, <1>10, <1>11, <1>12, <1>13, <1>14
             DEF ServerNext, MainStep, WorkerStep
LEMMA CallerInitInv == ServerInit => CallerInv
  <1> SUFFICES ASSUME ServerInit PROVE CallerInv
    OBVIOUS
  <1>1. \A c \in Conns : RequestCalls(c)
    BY CallsOfConns DEF ServerInit, Init, RequestCalls
  <1>2. \A c \in Conns : WorkerReady(c) /\ WorkerEnds(c)
    BY DEF ServerInit, WorkerReady, WorkerEnds
  <1>3. UsersReady /\ CurReady /\ CurEnds
    BY DEF ServerInit, UsersReady, UserReady, CurReady, CurEnds
  <1> QED BY <1>1, <1>2, <1>3 DEF CallerInv

LEMMA CallerStepInv ==
  ASSUME ServerInv, CallerInv, [ServerNext]_<<vars, serverVars>>
  PROVE  CallerInv'
  <1>1. \A d \in Conns : RequestCalls(d)'
    BY RequestCallsStep DEF CallerInv
  <1>2. CurEnds' /\ \A d \in Conns : WorkerEnds(d)'
    BY EndsStep DEF CallerInv
  <1>3. UsersReady' /\ CurReady' /\ \A d \in Conns : WorkerReady(d)'
    BY ReadyGrows, ReadyStep DEF CallerInv, UsersReady
  <1> QED BY <1>1, <1>2, <1>3 DEF CallerInv

(* The operation of a call, made or not. *)
LEMMA OpOfCall ==
  ASSUME Typed, CallerInv, NEW c \in Conns
  PROVE  /\ pc[<<c, "init">>] = "idle" => call[<<c, "init">>].op = "none"
         /\ pc[<<c, "init">>] # "idle" => call[<<c, "init">>].op = "initUserPars"
         /\ pc[<<c, "serve">>] = "idle" => call[<<c, "serve">>].op = "none"
         /\ pc[<<c, "serve">>] # "idle" => /\ req[c].type \in Requests \ {"unknown"}
                                           /\ call[<<c, "serve">>].op = OpOf[req[c].type]
  <1>1. RequestCalls(c)
    BY DEF CallerInv
  <1>2. req[c].type \in Requests \cup {"unknown"}
    BY DEF Typed
  <1>3. /\ pc[<<c, "init">>] = "idle" => call[<<c, "init">>].op = "none"
        /\ pc[<<c, "serve">>] = "idle" => call[<<c, "serve">>].op = "none"
    BY <1>1 DEF RequestCalls
  <1>4. pc[<<c, "init">>] # "idle" => call[<<c, "init">>].op = "initUserPars"
    <2> SUFFICES ASSUME pc[<<c, "init">>] # "idle"
                 PROVE  call[<<c, "init">>].op = "initUserPars"
      OBVIOUS
    <2>1. call[<<c, "init">>] = [op |-> "initUserPars", user |-> req[c].user]
      BY <1>1 DEF RequestCalls
    <2> QED BY <2>1
  <1>5. pc[<<c, "serve">>] # "idle" => /\ req[c].type # "unknown"
                                       /\ call[<<c, "serve">>].op = OpOf[req[c].type]
    <2> SUFFICES ASSUME pc[<<c, "serve">>] # "idle"
                 PROVE  /\ req[c].type # "unknown"
                        /\ call[<<c, "serve">>].op = OpOf[req[c].type]
      OBVIOUS
    <2>1. /\ req[c].type # "unknown"
          /\ call[<<c, "serve">>] = [op |-> OpOf[req[c].type], user |-> req[c].user]
      BY <1>1 DEF RequestCalls
    <2> QED BY <2>1
  <1> QED BY <1>2, <1>3, <1>4, <1>5

(* A call that the server makes is one that ThotDecoder allows. *)
LEMMA InitMayBeCalled ==
  ASSUME ServerInv, CallerInv, main = "getuser", cur \in Conns, NEW u \in Users
  PROVE  MayCall(<<cur, "init">>, "initUserPars", u)
  <1>1. \A s \in Threads : call[s].op \notin {"release_user_data", "clearTrans"}
    <2>1. ASSUME NEW c \in Conns
          PROVE  call[<<c, "init">>].op \notin {"release_user_data", "clearTrans"}
      BY <2>1, OpOfCall DEF ServerInv
    <2>2. ASSUME NEW c \in Conns
          PROVE  call[<<c, "serve">>].op \notin {"release_user_data", "clearTrans"}
      <3>1. CASE pc[<<c, "serve">>] = "idle"
        BY <3>1, OpOfCall DEF ServerInv
      <3>2. CASE pc[<<c, "serve">>] # "idle"
        <4>1. worker[c] # "none" /\ req[c].type \in Requests \ {"unknown"}
          BY <3>2, OpOfCall DEF ServerInv, CallsFollow, CallsAwaited
        <4>2. req[c].type # "END_SERVER"
          BY <4>1 DEF CallerInv, WorkerEnds
        <4>3. call[<<c, "serve">>].op = OpOf[req[c].type]
          BY <3>2, OpOfCall DEF ServerInv
        <4> QED BY <4>1, <4>2, <4>3, OpsOfRequests
      <3> QED BY <3>1, <3>2
    <2> QED BY <2>1, <2>2, CallsOfConns
  <1> QED BY <1>1 DEF MayCall

LEMMA ServeMayBeCalled ==
  ASSUME ServerInv, CallerInv, NEW c \in Conns, worker[c] = "run", req[c].type # "unknown"
  PROVE  MayCall(<<c, "serve">>, OpOf[req[c].type], req[c].user)
  <1> DEFINE op == OpOf[req[c].type]
  <1>1. req[c].type \in Requests \ {"unknown"}
    BY DEF ServerInv, Typed
  <1>2. /\ op \notin {"initUserPars", "release_user_data", "none"}
        /\ op = "clearTrans" => req[c].type = "END_SERVER"
    BY <1>1, OpsOfRequests
  <1>3. Initialized(req[c].user)
    BY DEF CallerInv, WorkerReady, Ready
  <1>4. \A s \in Threads : call[s].op # "release_user_data"
    <2>1. ASSUME NEW d \in Conns PROVE call[<<d, "init">>].op # "release_user_data"
      BY <2>1, OpOfCall DEF ServerInv
    <2>2. ASSUME NEW d \in Conns PROVE call[<<d, "serve">>].op # "release_user_data"
      <3>1. CASE pc[<<d, "serve">>] = "idle"
        BY <3>1, OpOfCall DEF ServerInv
      <3>2. CASE pc[<<d, "serve">>] # "idle"
        <4>1. /\ req[d].type \in Requests \ {"unknown"}
              /\ call[<<d, "serve">>].op = OpOf[req[d].type]
          BY <3>2, OpOfCall DEF ServerInv
        <4> QED BY <4>1, OpsOfRequests
      <3> QED BY <3>1, <3>2
    <2> QED BY <2>1, <2>2, CallsOfConns
  <1>5. ASSUME op = "clearTrans", NEW s \in Threads, call[s].op = "initUserPars"
        PROVE  pc[s] = "done"
    <2>1. main \in {"increase", "wait", "condwait", "down"}
      BY <1>2, <1>5 DEF CallerInv, WorkerEnds
    <2>2. PICK d \in Conns : s = <<d, "init">> \/ s = <<d, "serve">>
      BY CallsOfConns
    <2>3. pc[s] # "idle"
      BY <1>5, <2>2, OpOfCall DEF ServerInv
    <2>4. s # <<d, "serve">>
      <3> SUFFICES ASSUME s = <<d, "serve">> PROVE FALSE
        OBVIOUS
      <3>1. /\ req[d].type \in Requests \ {"unknown"}
            /\ call[s].op = OpOf[req[d].type]
        BY <2>3, OpOfCall DEF ServerInv
      <3> QED BY <1>5, <3>1, OpsOfRequests
    <2> QED BY ZenonT(60), <2>1, <2>2, <2>3, <2>4 DEF ServerInv, CallsFollow, CallsAwaited
  <1> QED BY <1>2, <1>3, <1>4, <1>5 DEF MayCall

LEMMA ServerCallsProperly ==
  ASSUME ServerInv, CallerInv, [ServerNext]_<<vars, serverVars>>
  PROVE  [Next]_vars
  <1>1. CASE UNCHANGED <<vars, serverVars>>
    BY <1>1
  <1>2. CASE DecoderStep
    BY <1>2 DEF DecoderStep, Next
  <1>3. CASE GetUserId
    <2>1. cur \in Conns /\ req[cur].user \in Users /\ main = "getuser"
      BY <1>3, UserIdTaken DEF ServerInv
    <2>2. MayCall(<<cur, "init">>, "initUserPars", req[cur].user)
      BY <2>1, InitMayBeCalled
    <2>3. <<cur, "init">> \in Threads /\ "initUserPars" \in Ops
      BY <2>1, CallsOfConns, OpsOfRequests
    <2>4. CASE Enter(<<cur, "init">>, "initUserPars", req[cur].user)
      BY <2>1, <2>2, <2>3, <2>4 DEF Next, Invoke
    <2> QED BY <1>3, <2>4 DEF GetUserId
  <1>4. ASSUME NEW c \in Conns, StartRequest(c) PROVE [Next]_vars
    <2>1. worker[c] = "run" /\ req[c].user \in Users /\ req[c].type \in Requests
      BY <1>4, RequestStarted DEF ServerInv
    <2>2. CASE req[c].type # "unknown" /\ Enter(<<c, "serve">>, OpOf[req[c].type], req[c].user)
      <3>1. MayCall(<<c, "serve">>, OpOf[req[c].type], req[c].user)
        BY <2>1, <2>2, ServeMayBeCalled
      <3>2. <<c, "serve">> \in Threads /\ OpOf[req[c].type] \in Ops
        BY <2>1, <2>2, CallsOfConns, OpsOfRequests
      <3> QED BY <2>1, <2>2, <3>1, <3>2 DEF Next, Invoke
    <2> QED BY <1>4, <2>2 DEF StartRequest
  <1>5. ASSUME NEW c \in Conns, Accept(c) \/ Reply(c) \/ CloseConn(c) \/ DecreaseNumThreads(c)
        PROVE  UNCHANGED vars
    BY <1>5 DEF Accept, Reply, CloseConn, DecreaseNumThreads
  <1>6. CASE GetRequestType
    BY <1>6 DEF GetRequestType
  <1>7. CASE InitUserParsReturned
    BY <1>7 DEF InitUserParsReturned
  <1>8. CASE SpawnWorker
    BY <1>8 DEF SpawnWorker
  <1>9. CASE IncreaseNumThreads
    BY <1>9 DEF IncreaseNumThreads
  <1>10. CASE AwaitThreads
    BY <1>10 DEF AwaitThreads
  <1>11. CASE SpuriousMainWakeup
    BY <1>11 DEF SpuriousMainWakeup
  <1> QED BY <1>1, <1>2, <1>3, <1>4, <1>5, <1>6, <1>7, <1>8, <1>9, <1>10, <1>11
             DEF ServerNext, MainStep, WorkerStep

(* The server calls the decoder as ThotDecoder assumes: a user is initialized
   before it is served, and none is after clearTrans is called. *)
THEOREM ServerUsesDecoderProperly == ServerSpec => UsesDecoderProperly
  <1>1. ServerInit => Init
    BY DEF ServerInit
  <1>2. ServerSpec => [](ServerInv /\ CallerInv)
    BY ServerInitInv, ServerStepInv, CallerInitInv, CallerStepInv, PTL DEF ServerSpec
  <1> QED BY <1>1, <1>2, ServerCallsProperly, PTL DEF ServerSpec, UsesDecoderProperly, Spec

(* So what ThotDecoder promises holds inside the server. *)
THEOREM DecoderSafeInServer ==
  ServerSpec => /\ [](AtomicRunsAlone /\ OneThreadPerUser /\ ModelsStableInBody)
                /\ [](NoFreedUserInUse /\ ParsSetBeforeUse)
                /\ TablesNotMovedInUse /\ ImplementsGate
  BY ServerUsesDecoderProperly, AtomicOpsRunAlone, UserMutualExclusion, ModelsStable,
     NoUseAfterRelease, ParsSetFirst, TablesStayInPlace, GateRefinement, PTL
     DEF UsesDecoderProperly
=============================================================================
