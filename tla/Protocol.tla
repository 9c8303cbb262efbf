------------------------------ MODULE Protocol ------------------------------
(***************************************************************************)
(* One request over one connection: the client                             *)
(* (src/src/stack_dec/ThotDecoderClient.cc), the server's accept loop and  *)
(* the request's thread (thot_server.cc), and the reads and writes of both *)
(* (src/src/nlp_common/BasicSocketUtils.cc) on two streams of bytes.  A    *)
(* field is an integer of IntSize bytes, or a string after its length.     *)
(*                                                                         *)
(* A recv returns what has arrived of what was written, which may be less  *)
(* than it asks for, and the code never looks at how much that was.        *)
(***************************************************************************)
EXTENDS Integers, SequencesExt

CONSTANTS
  Codes,      \* what thot_client is asked for
  UserIds,
  Texts,      \* the strings, of bytes [char |-> c]
  IntSize,    \* bytes of an int
  Garbage     \* the values of an int that was not read, or not as a whole

\* src/src/stack_dec/client_server_defs.h
VERIFY_COV == 1
TRANSLATE_SENT == 2
TRANSLATE_SENT_HYPINFO == 3
OL_TRAIN_PAIR == 4
TRAIN_ECM == 5
START_CAT == 6
ADD_STR_TO_PREF == 7
RESET_PREF == 8
PRINT_MODELS == 9
END_CLIENT_DIALOG == 10
END_SERVER == 11

\* src/src/nlp_common/ErrorDefs.h
THOT_OK == 0
THOT_ERROR == 1

ASSUME ProtocolConstants ==
  /\ IntSize \in Nat \ {0} /\ Codes \subseteq 1 .. 11 /\ UserIds \subseteq Int
  /\ Garbage \subseteq Int /\ Texts \subseteq Seq(UNION {Range(t) : t \in Texts})
  /\ \A t \in Texts : \A c \in Range(t) : "int" \notin DOMAIN c

Sides == {"client", "server"}
Peer == [client |-> "server", server |-> "client"]

VARIABLES
  request,    \* what the client is to do
  state,      \* where each side is
  todo,       \* the reads and writes that are left of what a side is doing
  stream,     \* of each side, the bytes written to it and unread
  got,        \* the fields that it has read
  done,       \* the server's operation, once it has run
  bad         \* of each side, what its reads have missed: part, or all

vars == <<request, state, todo, stream, got, done, bad>>

-----------------------------------------------------------------------------
(* Fields.                                                                 *)

IntBytes(v) == [b \in 1 .. IntSize |-> [int |-> v, byte |-> b]]

\* The values that recvInt may make of the bytes it was given.
IntsOf(bytes) ==
  IF bytes # <<>> /\ "int" \in DOMAIN bytes[1] /\ bytes = IntBytes(bytes[1].int)
    THEN {bytes[1].int} ELSE Garbage

WriteInt(v) == <<[op |-> "writeInt", bytes |-> IntBytes(v)]>>
WriteStr(s) ==
  WriteInt(Len(s)) \o IF s = <<>> THEN <<>> ELSE <<[op |-> "writeBytes", bytes |-> s]>>
WriteStrs(strings) == FlattenSeq([k \in DOMAIN strings |-> WriteStr(strings[k])])

RecvInt == <<[op |-> "recvInt"]>>
RecvStlStr == <<[op |-> "recvLength"]>>
Times(n, calls) == FlattenSeq([k \in 1 .. n |-> calls])

-----------------------------------------------------------------------------
(* The client's side of each request.                                      *)

\* sendSentToTranslate serves two of them.
CodeSent(c) == IF c = TRANSLATE_SENT_HYPINFO THEN TRANSLATE_SENT ELSE c

StringsSent(c) ==
  CASE c \in {OL_TRAIN_PAIR, TRAIN_ECM, VERIFY_COV} -> 2
    [] c \in {TRANSLATE_SENT, TRANSLATE_SENT_HYPINFO, START_CAT, ADD_STR_TO_PREF} -> 1
    [] OTHER -> 0

AnswerRead(c) ==
  CASE c \in {TRANSLATE_SENT, TRANSLATE_SENT_HYPINFO} -> Times(2, RecvStlStr)
    [] c \in {VERIFY_COV, START_CAT, ADD_STR_TO_PREF} -> RecvStlStr
    [] c = END_CLIENT_DIALOG -> <<>>
    [] OTHER -> RecvInt

Dialog(r) ==
  WriteInt(CodeSent(r.code)) \o WriteInt(r.user) \o WriteStrs(r.strings) \o AnswerRead(r.code)

\* The client throws for the requests whose result it looks at.
Outcome(c, answer) ==
  IF c \in {OL_TRAIN_PAIR, TRAIN_ECM, PRINT_MODELS} /\ answer[1].int = THOT_ERROR
    THEN "refused" ELSE "ok"

-----------------------------------------------------------------------------
(* The server's side: process_request_switch.                              *)

\* mutant: the reference of a verification is not received.
StringsReceivedShort(t) ==
  IF t \in {OL_TRAIN_PAIR, TRAIN_ECM} THEN 2
  ELSE IF t \in {VERIFY_COV, TRANSLATE_SENT, TRANSLATE_SENT_HYPINFO, START_CAT, ADD_STR_TO_PREF}
    THEN 1 ELSE 0

\* mutant: every translation has two arguments.
StringsReceivedLong(t) ==
  IF t \in {OL_TRAIN_PAIR, TRAIN_ECM, VERIFY_COV, TRANSLATE_SENT, START_CAT} THEN 2
  ELSE IF t \in {TRANSLATE_SENT_HYPINFO, ADD_STR_TO_PREF} THEN 1 ELSE 0

StringsReceived(t) ==
  IF t \in {OL_TRAIN_PAIR, TRAIN_ECM, VERIFY_COV} THEN 2
  ELSE IF t \in {TRANSLATE_SENT, TRANSLATE_SENT_HYPINFO, START_CAT, ADD_STR_TO_PREF} THEN 1
  ELSE 0

\* The fields that an operation may answer; none if there is no such case.
Replies(t) ==
  CASE t \in {TRANSLATE_SENT, TRANSLATE_SENT_HYPINFO} ->
         {<<[str |-> a], [str |-> b]>> : a \in Texts, b \in Texts}
    [] t \in {VERIFY_COV, START_CAT, ADD_STR_TO_PREF} -> {<<[str |-> a]>> : a \in Texts}
    [] t \in {OL_TRAIN_PAIR, TRAIN_ECM, PRINT_MODELS} ->
         {<<[int |-> ret]>> : ret \in {THOT_OK, THOT_ERROR}}
    [] t \in {RESET_PREF, END_SERVER} -> {<<[int |-> THOT_OK]>>}
    [] OTHER -> {}

WriteReply(fields) ==
  FlattenSeq([k \in DOMAIN fields |-> IF "str" \in DOMAIN fields[k] THEN WriteStr(fields[k].str)
                                      ELSE WriteInt(fields[k].int)])

-----------------------------------------------------------------------------
(* Sockets.                                                                *)

Closed(s) == state[s] \in {"ok", "refused", "error", "dead", "closed"}

\* The peer has closed its end and left something unread there.
Reset(s) == Closed(Peer[s]) /\ stream[Peer[s]] # <<>>

Calls(s, op) == ~Closed(s) /\ todo[s] # <<>> /\ Head(todo[s]).op = op

\* An exception: thot_client ends, and the server closes the connection.
Throw(s) ==
  /\ state' = [state EXCEPT ![s] = IF s = "client" THEN "error" ELSE "closed"]
  /\ todo' = [todo EXCEPT ![s] = <<>>]

\* write: the bytes are on their way even if the peer has just closed.
Write(s) ==
  /\ Calls(s, "writeInt") \/ Calls(s, "writeBytes")
  /\ stream' = [stream EXCEPT ![Peer[s]] = @ \o Head(todo[s]).bytes]
  /\ todo' = [todo EXCEPT ![s] = Tail(@)]
  /\ UNCHANGED <<request, state, got, done, bad>>

\* A failed write throws for an integer.  For a string it does not: the -1 is
\* added to the four bytes of the length before it is looked at.
WriteFails(s) ==
  /\ Reset(s)
  /\ \/ Calls(s, "writeInt") /\ Throw(s)
     \/ Calls(s, "writeBytes") /\ todo' = [todo EXCEPT ![s] = Tail(@)] /\ UNCHANGED state
  /\ UNCHANGED <<request, stream, got, done, bad>>

\* recv blocks while nothing has arrived and more may come; wanted is what the
\* caller asks for, and bytes what it gets.
Recv(s, wanted, bytes) ==
  LET n == Len(bytes) IN
  /\ IF n = 0 THEN Closed(Peer[s]) /\ stream[s] = <<>>
     ELSE n <= wanted /\ IsPrefix(bytes, stream[s])
  /\ stream' = [stream EXCEPT ![s] = SubSeq(@, n + 1, Len(@))]
  /\ bad' = [bad EXCEPT ![s] = CASE n = wanted -> @
                                 [] n = 0      -> @ \cup {"all"}
                                 [] OTHER      -> @ \cup {"part"}]
  /\ UNCHANGED <<request, done>>

\* The field is read, and the call is over.
Field(s, field) ==
  /\ got' = [got EXCEPT ![s] = Append(@, field)]
  /\ todo' = [todo EXCEPT ![s] = Tail(@)]
  /\ UNCHANGED state

ReadInt(s) ==
  /\ Calls(s, "recvInt")
  /\ \E bytes \in Prefixes(stream[s]) :
       /\ Recv(s, IntSize, bytes)
       /\ \E v \in IntsOf(bytes) : Field(s, [int |-> v])

\* recvStlStr up to its second recv; nobody can allocate a negative length, and
\* the process ends.
ReadLength(s) ==
  /\ Calls(s, "recvLength")
  /\ \E bytes \in Prefixes(stream[s]) :
       /\ Recv(s, IntSize, bytes)
       /\ \E n \in IntsOf(bytes) :
            \/ n = 0 /\ Field(s, [str |-> <<>>])
            \/ /\ n > 0 /\ UNCHANGED <<state, got>>
               /\ todo' = [todo EXCEPT ![s] = <<[op |-> "recvBytes", size |-> n]>> \o Tail(@)]
            \/ /\ n < 0 /\ UNCHANGED got
               /\ state' = [state EXCEPT ![s] = "dead"] /\ todo' = [todo EXCEPT ![s] = <<>>]

ReadBytes(s) ==
  /\ Calls(s, "recvBytes")
  /\ \E bytes \in Prefixes(stream[s]) :
       Recv(s, Head(todo[s]).size, bytes) /\ Field(s, [str |-> bytes])

RecvFails(s) ==
  /\ Reset(s)
  /\ Calls(s, "recvInt") \/ Calls(s, "recvLength") \/ Calls(s, "recvBytes")
  /\ Throw(s)
  /\ UNCHANGED <<request, stream, got, done, bad>>

-----------------------------------------------------------------------------
(* The two sides.                                                          *)

Requests ==
  UNION {[code : {c}, user : UserIds, strings : [1 .. StringsSent(c) -> Texts]] : c \in Codes}

Init ==
  /\ request \in Requests
  /\ state = [client |-> "running", server |-> "accept"]
  /\ todo = [client |-> Dialog(request), server |-> RecvInt \o RecvInt]
  /\ stream = [s \in Sides |-> <<>>] /\ got = [s \in Sides |-> <<>>]
  /\ done = <<>> /\ bad = [s \in Sides |-> {}]

Idle(s, where) == state[s] = where /\ todo[s] = <<>>

\* thot_client exits, which closes the connection; so does disconnect.
ClientEnds ==
  /\ Idle("client", "running")
  /\ state' = [state EXCEPT !.client = Outcome(request.code, got.client)]
  /\ UNCHANGED <<request, todo, stream, got, done, bad>>

ClientDies ==
  /\ ~Closed("client")
  /\ state' = [state EXCEPT !.client = "dead"] /\ todo' = [todo EXCEPT !.client = <<>>]
  /\ UNCHANGED <<request, stream, got, done, bad>>

\* The main thread has the type and the user.  It closes the connection if the
\* user's parameters cannot be initialized, and keeps it, for nobody, if there
\* is no thread for it.
StartThread ==
  /\ Idle("server", "accept")
  /\ \/ state' = [state EXCEPT !.server = "closed"] /\ UNCHANGED todo
     \/ state' = [state EXCEPT !.server = "abandoned"] /\ UNCHANGED todo
     \/ /\ state' = [state EXCEPT !.server = "args"]
        /\ todo' = [todo EXCEPT !.server = Times(StringsReceived(got.server[1].int), RecvStlStr)]
  /\ UNCHANGED <<request, stream, got, done, bad>>

\* The decoder's operation, and what is then to be written.  A THOT_ERROR is
\* thrown when it has been written, and comes to the same.
Operate ==
  LET t == got.server[1].int IN
  /\ Idle("server", "args")
  /\ \/ \E reply \in Replies(t) :
          /\ done' = <<[asked |-> got.server, reply |-> reply]>>
          /\ todo' = [todo EXCEPT !.server = WriteReply(reply)]
     \/ Replies(t) = {} /\ UNCHANGED <<done, todo>>
  /\ state' = [state EXCEPT !.server = "reply"]
  /\ UNCHANGED <<request, stream, got, bad>>

CloseConnection ==
  /\ Idle("server", "reply")
  /\ state' = [state EXCEPT !.server = "closed"]
  /\ UNCHANGED <<request, todo, stream, got, done, bad>>

Socket(s) ==
  Write(s) \/ WriteFails(s) \/ ReadInt(s) \/ ReadLength(s) \/ ReadBytes(s) \/ RecvFails(s)

SideStep(s) ==
  \/ Socket(s)
  \/ s = "client" /\ ClientEnds
  \/ s = "server" /\ (StartThread \/ Operate \/ CloseConnection)

Next ==
  \/ ClientDies
  \/ \E s \in Sides : SideStep(s)

Spec == Init /\ [][Next]_vars

\* Threads are scheduled, and something arrives of what is written.
FairSpec == Spec /\ \A s \in Sides : WF_vars(SideStep(s))

-----------------------------------------------------------------------------
(* Properties.                                                             *)

Asked(r) ==
  <<[int |-> CodeSent(r.code)], [int |-> r.user]>>
    \o [k \in DOMAIN r.strings |-> [str |-> r.strings[k]]]

\* As long as the server's reads are whole it runs the operation that the
\* client asks for, for that user and with those strings; and as long as the
\* client's are too, the client takes what the operation answered for its
\* answer and reports a failure exactly when it failed.
AnswersAreTrue ==
  /\ bad.server = {} /\ done # <<>> => done[1].asked = Asked(request)
  /\ bad = [s \in Sides |-> {}] /\ state.client \in {"ok", "refused"}
       /\ request.code # END_CLIENT_DIALOG =>
         /\ done # <<>> /\ got.client = done[1].reply
         /\ state.client = Outcome(request.code, done[1].reply)

\* Nobody waits for ever: if no read is torn, and the server has a thread for
\* the request, the client ends and the server closes the connection, though
\* the client may die, the initialization fail, or a write be lost.
DialogEnds ==
  [](\A s \in Sides : "part" \notin bad[s]) /\ [](state.server # "abandoned")
    => <>(Closed("client") /\ Closed("server"))
=============================================================================
