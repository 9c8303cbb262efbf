------------------------------ MODULE ThotServer ------------------------------
(***************************************************************************)
(* thot_server (src/src/stack_dec/thot_server.cc) over ThotDecoder: the    *)
(* accept loop of the main thread, one detached thread per request, the    *)
(* counter of running threads that the shutdown waits on, and the calls    *)
(* both make of the decoder.                                               *)
(*                                                                         *)
(* A connection carries one request.  Its calls of the decoder are two     *)
(* members of Threads: <<c, "init">>, which the main thread makes, and     *)
(* <<c, "serve">>, which the request's thread makes.                       *)
(***************************************************************************)
EXTENDS ThotDecoder, Integers

CONSTANTS Conns,      \* the connections that clients make
          Requests    \* the request types they send

\* The operation that serves each type of request; a type that the switch
\* does not know gets no operation and no answer.
OpOf == [OL_TRAIN_PAIR |-> "onlineTrainSentPair", TRAIN_ECM |-> "trainEcm",
         TRANSLATE_SENT |-> "translateSentence",
         TRANSLATE_SENT_HYPINFO |-> "translateSentence", VERIFY_COV |-> "sentPairVerCov",
         START_CAT |-> "startCat", ADD_STR_TO_PREF |-> "addStrToPref",
         RESET_PREF |-> "resetPrefix", PRINT_MODELS |-> "printModels",
         END_SERVER |-> "clearTrans"]

ASSUME ServerConstants ==
  /\ IsFiniteSet(Conns)
  /\ Threads = Conns \X {"init", "serve"}
  /\ Requests \subseteq DOMAIN OpOf \cup {"unknown"}
  /\ None \notin Conns \cup {"main"}
  /\ {"initUserPars"} \cup {OpOf[r] : r \in Requests \ {"unknown"}} \subseteq Ops

VARIABLES
  main,                 \* place of the main thread in start_server
  cur,                  \* the connection it is dealing with
  end_server,
  user_set,             \* users whose parameters have been initialized
  num_threads,
  num_threads_var_mut,  \* "main" once the shutdown keeps it
  sock,                 \* state of each connection's socket
  req,                  \* request type and user that each client sends
  worker                \* place of each request's thread

serverVars == <<main, cur, end_server, user_set, num_threads,
                num_threads_var_mut, sock, req, worker>>

ServerInit ==
  /\ Init
  /\ main = "accept" /\ cur = None
  /\ end_server = FALSE /\ user_set = {}
  /\ num_threads = 0 /\ num_threads_var_mut = None
  /\ sock = [c \in Conns |-> "unconnected"]
  /\ req = [c \in Conns |-> [type |-> "unknown", user |-> None]]
  /\ worker = [c \in Conns |-> "none"]

-----------------------------------------------------------------------------
(* The main thread.                                                        *)

\* The end of a turn of the loop, with the connection's socket in state s.
EndTurn(end, s) ==
  /\ main' = IF end THEN "wait" ELSE "accept"
  /\ sock' = [sock EXCEPT ![cur] = s]
  /\ cur' = None

Accept(c) ==
  /\ main = "accept" /\ sock[c] = "unconnected"
  /\ main' = "gettype" /\ cur' = c
  /\ sock' = [sock EXCEPT ![c] = "open"]
  /\ \E r \in Requests, u \in Users : req' = [req EXCEPT ![c] = [type |-> r, user |-> u]]
  /\ UNCHANGED <<vars, end_server, user_set, num_threads, num_threads_var_mut, worker>>

\* get_request_type, which fails when the client is gone.
GetRequestType ==
  /\ main = "gettype"
  /\ \/ EndTurn(FALSE, "closed") /\ UNCHANGED end_server
     \/ /\ end_server' = (req[cur].type = "END_SERVER")
        /\ main' = "getuser"
        /\ UNCHANGED <<cur, sock>>
  /\ UNCHANGED <<vars, user_set, num_threads, num_threads_var_mut, req, worker>>

\* mutant: the test of the iterator is inverted.
InitRequiredInverted(u) == u \in user_set

InitRequired(u) == u \notin user_set

\* get_user_id, and init_user_pars_if_required up to its call.
GetUserId ==
  LET u == req[cur].user IN
  /\ main = "getuser"
  /\ \/ EndTurn(end_server, "closed") /\ UNCHANGED <<vars, user_set>>
     \/ /\ InitRequired(u)
        /\ user_set' = user_set \cup {u}
        /\ Enter(<<cur, "init">>, "initUserPars", u)
        /\ main' = "initpars"
        /\ UNCHANGED <<cur, sock>>
     \/ /\ ~InitRequired(u)
        /\ main' = "spawn"
        /\ UNCHANGED <<vars, user_set, cur, sock>>
  /\ UNCHANGED <<end_server, num_threads, num_threads_var_mut, req, worker>>

\* A user whose initialization fails stays in user_set.
InitUserParsReturned ==
  /\ main = "initpars" /\ pc[<<cur, "init">>] = "done"
  /\ IF ret[<<cur, "init">>] = "THOT_ERROR"
     THEN EndTurn(end_server, "closed")
     ELSE main' = "spawn" /\ UNCHANGED <<cur, sock>>
  /\ UNCHANGED <<vars, end_server, user_set, num_threads, num_threads_var_mut, req, worker>>

\* mutant: the thread is not counted.
AfterSpawnForgotten == IF end_server THEN "wait" ELSE "accept"

AfterSpawn == "increase"

\* pthread_create; when it fails nobody closes the socket.
SpawnWorker ==
  /\ main = "spawn"
  /\ \/ /\ worker' = [worker EXCEPT ![cur] = "run"]
        /\ main' = AfterSpawn
        /\ UNCHANGED <<cur, sock>>
     \/ EndTurn(end_server, "abandoned") /\ UNCHANGED worker
  /\ UNCHANGED <<vars, end_server, user_set, num_threads, num_threads_var_mut, req>>

IncreaseNumThreads ==
  /\ main = "increase" /\ num_threads_var_mut = None
  /\ num_threads' = num_threads + 1
  /\ EndTurn(end_server, sock[cur])
  /\ UNCHANGED <<vars, end_server, user_set, num_threads_var_mut, req, worker>>

\* wait_on_num_threads_var_cond keeps the mutex when it returns; then
\* start_server returns and main deletes the decoder.
AwaitThreads ==
  /\ main = "wait" /\ num_threads_var_mut = None
  /\ IF num_threads > 0
     THEN main' = "condwait" /\ UNCHANGED num_threads_var_mut
     ELSE main' = "down" /\ num_threads_var_mut' = "main"
  /\ UNCHANGED <<vars, cur, end_server, user_set, num_threads, sock, req, worker>>

SpuriousMainWakeup ==
  /\ main = "condwait" /\ main' = "wait"
  /\ UNCHANGED <<vars, cur, end_server, user_set, num_threads, num_threads_var_mut,
                 sock, req, worker>>

-----------------------------------------------------------------------------
(* The thread of a request: process_request and process_request_switch.    *)

\* Receives the arguments and calls the decoder.  A failed receive throws,
\* and an unknown request does nothing.
StartRequest(c) ==
  /\ worker[c] = "run"
  /\ \/ /\ req[c].type # "unknown"
        /\ Enter(<<c, "serve">>, OpOf[req[c].type], req[c].user)
        /\ worker' = [worker EXCEPT ![c] = "incall"]
     \/ worker' = [worker EXCEPT ![c] = "close"] /\ UNCHANGED vars
  /\ UNCHANGED <<main, cur, end_server, user_set, num_threads, num_threads_var_mut,
                 sock, req>>

\* mutant: the exception for a THOT_ERROR ends the thread at once.
AfterReplyUncaught(r) == IF r = "THOT_ERROR" THEN "exited" ELSE "close"

\* The result is written, and a THOT_ERROR is thrown only after that; the
\* handler does what the normal end does.
AfterReply(r) == "close"

Reply(c) ==
  /\ worker[c] = "incall" /\ pc[<<c, "serve">>] = "done"
  /\ worker' = [worker EXCEPT ![c] = AfterReply(ret[<<c, "serve">>])]
  /\ sock' = [sock EXCEPT ![c] = "answered"]
  /\ UNCHANGED <<vars, main, cur, end_server, user_set, num_threads,
                 num_threads_var_mut, req>>

CloseConn(c) ==
  /\ worker[c] = "close"
  /\ worker' = [worker EXCEPT ![c] = "decrease"]
  /\ sock' = [sock EXCEPT ![c] = "closed"]
  /\ UNCHANGED <<vars, main, cur, end_server, user_set, num_threads,
                 num_threads_var_mut, req>>

DecreaseNumThreads(c) ==
  /\ worker[c] = "decrease" /\ num_threads_var_mut = None
  /\ num_threads' = num_threads - 1
  /\ main' = IF num_threads' = 0 /\ main = "condwait" THEN "wait" ELSE main
  /\ worker' = [worker EXCEPT ![c] = "exited"]
  /\ UNCHANGED <<vars, cur, end_server, user_set, num_threads_var_mut, sock, req>>

-----------------------------------------------------------------------------
MainStep ==
  \/ GetRequestType \/ GetUserId \/ InitUserParsReturned
  \/ SpawnWorker \/ IncreaseNumThreads \/ AwaitThreads

WorkerStep(c) ==
  StartRequest(c) \/ Reply(c) \/ CloseConn(c) \/ DecreaseNumThreads(c)

DecoderStep ==
  /\ \E t \in Threads : RejectEmptyPair(t) \/ SpuriousWakeup(t) \/ Step(t)
  /\ UNCHANGED serverVars

ServerNext ==
  \/ \E c \in Conns : Accept(c) \/ WorkerStep(c)
  \/ MainStep \/ SpuriousMainWakeup
  \/ DecoderStep

ServerSpec == ServerInit /\ [][ServerNext]_<<vars, serverVars>>

\* No thread is forgotten by the scheduler, and a client that has connected
\* sends its request or goes away; no client has to connect.
FairServerSpec ==
  /\ ServerSpec
  /\ WF_<<vars, serverVars>>(MainStep)
  /\ \A c \in Conns : WF_<<vars, serverVars>>(WorkerStep(c))
  /\ \A t \in Threads : WF_<<vars, serverVars>>(Step(t) /\ UNCHANGED serverVars)

-----------------------------------------------------------------------------
(* Properties.                                                             *)

Alive(c) == worker[c] \in {"run", "incall", "close", "decrease"}

ServerTypeOK ==
  /\ main \in {"accept", "gettype", "getuser", "initpars", "spawn", "increase",
               "wait", "condwait", "down"}
  /\ cur \in Conns \cup {None}
  /\ end_server \in BOOLEAN
  /\ user_set \subseteq Users
  /\ num_threads \in -1..Cardinality(Conns)
  /\ num_threads_var_mut \in {"main", None}
  /\ sock \in [Conns -> {"unconnected", "open", "answered", "closed", "abandoned"}]
  /\ req \in [Conns -> [type : DOMAIN OpOf \cup {"unknown"}, user : Users \cup {None}]]
  /\ worker \in [Conns -> {"none", "run", "incall", "close", "decrease", "exited"}]

\* num_threads is the number of request threads that run, except between
\* pthread_create and the increase, when it is one less and may even be -1:
\* the increase is the creator's so that the shutdown, which comes later in
\* the same thread, cannot miss a thread that has not started yet.
ThreadsAccounted ==
  num_threads = Cardinality({c \in Conns : Alive(c)}) - (IF main = "increase" THEN 1 ELSE 0)

\* Once the shutdown is past its wait, and main deletes the decoder, no
\* request thread runs and no call is inside the decoder.
QuietAtShutdown ==
  main = "down" =>
    /\ \A c \in Conns : ~Alive(c)
    /\ \A t \in Threads : pc[t] \in {"idle", "done"}

\* An open socket belongs to the main thread or to a request thread, unless
\* pthread_create failed for it.
OpenSocketsOwned ==
  \A c \in Conns : sock[c] \in {"open", "answered"} => cur = c \/ Alive(c)

\* The server is a caller ThotDecoder can rely on: a user is initialized
\* before it is served, none is after clearTrans is called.
UsesDecoderProperly == Spec

\* After END_SERVER the server shuts down.
ServerStops == end_server ~> main = "down"

\* Every request that got a thread is done with, its socket closed.
RequestsEnd == \A c \in Conns : Alive(c) ~> worker[c] = "exited" /\ sock[c] = "closed"
=============================================================================
