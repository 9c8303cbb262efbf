# A verification of Thot's decoder and server

Thot is a toolkit for statistical machine translation. This directory models
the part of it that runs as a service: a multi-threaded translation decoder
(`ThotDecoder`), the server and the plugin that own one (`thot_server`, casmacat), the
protocol of the server's clients, the decoder's search with its data structures, and the
word graphs and error correction that assisted translation works with. The TLA+ modules are translated from the C++
source under `src/`; file and line of each definition are in `PROJECT.json`
("map"). TLC checks small instances, TLAPS proves the central results for every
value of the constants.

## 1. Inventory

Paths are relative to `src/src/`.

| Part | State it keeps | Operations | What makes it correct |
|---|---|---|---|
| `stack_dec/ThotDecoder.cc` | five kinds of mutex, the counter `non_atomic_ops_running` with its condition variable, the map `userIdToIdx`, the vectors `tdPerUserVarsVec`, `idxDataReleased`, `per_user_mut`, the shared models | `initUserPars`, `onlineTrainSentPair`, `trainEcm`, `translateSentence`, `sentPairVerCov`, `startCat`, `addStrToPref`, `setPref`, `resetPrefix`, `clearTrans`, `printModels`, `user_id_new`, `release_user_data` | training runs alone, users do not disturb each other, no freed or moved data is used, every call returns |
| `stack_dec/thot_server.cc` | the accept loop, `user_set`, `num_threads` with its mutex and condition, one detached thread per request | one per request type, `END_SERVER` | a user is initialized before it is served, the shutdown waits for every thread, sockets are closed |
| `nlp_common/BasicSocketUtils.cc`, `stack_dec/ThotDecoderClient.cc` | byte streams | framed integers and strings, one request per connection | both sides read what the other wrote |
| `stack_dec/SmtStack.h`, `_smtStack.h`, `_smtMultiStack.h`, `SmtMultiStackRec.h`, `HypStateDict.h` | ordered stacks of hypotheses, a sorted map of the non-empty ones, recombination map, dictionary of states | push, pop, clear | the indexes agree, each stack keeps its best hypotheses, one hypothesis per state |
| `stack_dec/_stackDecoder.h`, `_stackDecoderRec.h`, `multi_stack_decoder_rec.h` | search state, stacks, word graph, best complete hypothesis | set parameters, `translate`, `getNextTrans`, `verifyCoverage...`, `clear` | the result is the best complete hypothesis the pruning left; the word graph contains it |
| `stack_dec/WgUncoupledAssistedTrans.h`, `_nbUncoupledAssistedTrans.h` | prefix, word graph or n-best list of the session | `translateWithPrefix`, `addStrToPref`, `resetPrefix` | the answer extends the prefix; a session answers from its own sentence |
| `stack_dec/ThotImt*.cc`, `ThotMt*.cc`, `UserNameToUserIdMap.cc` | user names and identifiers, sessions, prefixes, rejected words | create and delete engines and sessions, translate, set prefix, validate | identifiers are unique, a session is released once and last |
| `stack_dec/_phraseBasedTransModel.h`, `_pbTransModel.h`, `StdFeatureHandler.cc`, `PhrLocalSwLiTm.cc` | models, caches, partial hypotheses | expand, score, extend | coverage and segmentation stay consistent |
| `stack_dec/KbMiraLlWu.cc`, `WeightUpdateUtils.cc` | weights | one batch update | numeric |
| `sw_models/`, `incr_models/` | counts, sufficient statistics, sample window | add a sentence pair, EM steps | removed statistics equal the added ones |
| `phrase_models/` | phrase tables | extraction, counts | every extracted pair is consistent with the alignment |
| `error_correction/` | word graphs, edit-distance tables, the rows that the word-graph processor keeps for a prefix | build, prune, order and reduce a graph, best path, n-best list; distances; correct a graph for a prefix | passes over the arcs agree with the paths; what is kept for a prefix is right for the next one |
| `hat_trie/`, `picojson/` | vendored | | not modelled |
| `smt_preproc/`, `downhill_simplex/`, command-line tools, `utils/` scripts | batch | | not modelled |

How they interact. `thot_server`'s main thread calls `initUserPars` itself and
gives each request to a detached thread, which makes exactly one call of the one
shared `ThotDecoder`. The casmacat plugins share one decoder among all engines
and sessions, on the threads of the host program. Inside the decoder an
operation is either *atomic* (it takes `atomic_op_mut`, waits until no
non-atomic operation runs and then keeps `non_atomic_op_mut`), *non-atomic* (it
is counted and takes the mutex of its user), `printModels` (only
`atomic_op_mut`) or `release_user_data` (only `user_id_to_idx_mut`). A non-atomic
operation drives its user's stack decoder and CAT engine, which read the shared
models that atomic operations train.

Where it is hard: the hand-made readers-and-writers lock, mutexes in a vector
that grows, tables that are looked up under one lock and used under another,
users that are created by whichever operation comes first, failures that return
in the middle of a critical section, a shutdown that counts detached threads, reads
that return less than was asked for, and caches that are kept from one prefix, and
from one word graph, to the next.
`PROJECT.json` lists each of these hazards at its line.

## 2. Modules

| Module | Models | Role |
|---|---|---|
| `OpGate` | what the decoder's locks promise: atomic operations overlap nothing | abstract specification |
| `ThotDecoder` | mutexes, counter, condition variable, per-user tables, every operation | component; its last section is the refinement of `OpGate` |
| `ThotDecoder_proofs` | | theorems and their proofs |
| `ThotServer` | `thot_server` over `ThotDecoder` (which it EXTENDS) | composition |
| `ThotServer_proofs` | | theorems and their proofs |
| `Beam` | what the search expects of its container of hypotheses | abstract specification |
| `SmtMultiStackRec` | sub-stacks, map of the non-empty ones, recombination map, dictionary of states | component; its last section is the refinement of `Beam` |
| `SmtMultiStackRec_proofs` | | theorems and their proofs |
| `ThotImt` | the casmacat plugin for interactive translation over `ThotDecoder` (which it EXTENDS) | composition |
| `ThotImt_proofs` | | theorems and their proofs |
| `Protocol` | a client, the server's two threads and the bytes between them, for one request | component |
| `Protocol_proofs` | | theorems and their proofs |
| `StackDecoder` | translate and its variants, `getNextTrans`, the search, the word graph | composition over `SmtMultiStackRec`, whose actions its steps use |
| `StackDecoder_proofs` | | theorems and their proofs: of the hypotheses and the word graph, and of the result |
| `Induction_proofs` | | induction over the naturals, which the proofs about `Protocol`, `StackDecoder` and `WordGraphUse` use |
| `WordGraph` | word graphs as values, their operations as operators | algorithms |
| `WordGraphUse` | the life of a word graph | component over `WordGraph` |
| `WordGraphUse_proofs` | | theorems and their proofs |
| `EditDist` | the edit distances and the corrections that follow them | algorithms |
| `WgProcessor` | the word-graph processor with its incremental rows | algorithms over `WordGraph` and `EditDist` |
| `CatSession` | the CAT sessions of one user | component over `WgProcessor` |
| `MC...` | | instances for TLC, one for each module that is checked |

### ThotDecoder

A *thread* is one call: it starts at `"idle"`, ends at `"done"`, and in between
its `pc` says which lock it waits for or what it is doing. `call[t]` is the
operation and its user, `idx[t]` the local variable `idx` of the operation,
`ret[t]` its result. `Enter` is the call, `Step` everything the call then does:

| Code | Actions |
|---|---|
| `pthread_mutex_lock(&atomic_op_mut)` | `LockAtomicOp` |
| `wait_on_non_atomic_op_cond` | `AwaitNonAtomicOps`, `SpuriousWakeup`; the broadcast is in `DecreaseNonAtomicOps` |
| `get_vecidx_for_user_id` | `GetVecIdx` |
| body of `initUserPars` / `onlineTrainSentPair`, `trainEcm` / `clearTrans` / `printModels` | `InitUserPars` / `Train` / `ClearTrans` / `PrintModels` |
| the unlocks at their end | `UnlockNonAtomicOp`, `UnlockAtomicOp` |
| `increase_non_atomic_ops_running`, lock and unlock of `per_user_mut[idx]`, `decrease_non_atomic_ops_running` | `IncreaseNonAtomicOps`, `LockUser`, `UnlockUser`, `DecreaseNonAtomicOps` |
| `release_user_data` | `ReleaseUserData` |
| the empty-sentence test of `onlineTrainSentPair` | `RejectEmptyPair` |

`user_id_to_idx_mut` is not a variable: the code takes no other lock and does
nothing that waits while it owns it, so each of its critical sections is one
step. `clearTrans` and `release_idx_data` do not take it, and change the same
tables; they are steps too, and that no other step can fall among theirs is what
`AtomicRunsAlone` shows of the operations that run beside `clearTrans`. Two calls take
no part in that exclusion, `user_id_new` and `release_user_data`, and could fall among the
assignments of a `clearTrans`. They are kept whole because no program of the repository puts
them together: the server calls `clearTrans` and neither of them, and the plugin, which calls
both, clears only in the destructor of its decoder, once its factory is deleted.

What the operations compute is abstracted to what the properties tell apart: for
a user, whether its data are released and whether its parameters were set; for
the models, a version number that training and clearing increase. `set_S`,
`set_be`, ... inside `initUserPars` are one step. The callers are constrained by
`MayCall`, which states what `thot_server` and the casmacat engines do before
they call: `ThotServer` shows for the first that it does.

An operator marked "mutant" in a comment is a plausible mistake, kept beside the
definition it would spoil; no specification uses one. Each property has such a
mistake that breaks it.

### ThotServer

`main` is the place of the main thread in `start_server`, `cur` the connection
it deals with, `worker[c]` the place of the thread that serves connection `c`.
The calls of the decoder for `c` are two threads of `ThotDecoder`,
`<<c, "init">>` on the main thread and `<<c, "serve">>` on the request's thread.
A failed `get_request_type`, `get_user_id`, `recvStlStr`, `pthread_create` or
operation is a choice of the step that makes it. The destruction of
`num_threads_var_mut` while it is locked, which the code comments on, happens at
`main = "down"`, after which no thread needs it: `QuietAtShutdown`.

### ThotImt

All engines and sessions of a casmacat factory share one decoder and the map
`strToIntMap` of user names. `at[h]` is the place of a thread of the host program,
`engine[h]` and `session[h]` the users of its engine and session, and the calls it makes
of the decoder are `<<h, 1>>`, `<<h, 2>>`, ... The host is not in the repository: that it
uses an engine and its session from one thread, and deletes the session first, is
assumed. `idForUserName` and `genNewUserNameIdPair` each hold the map's mutex from
beginning to end and are steps (`MapWithName`, `NewUserName`). The history variable
`names` records what names engines and sessions got.

### Protocol

`request` is what `thot_client` is asked for. Both sides are lists of socket calls
(`todo`) that the operators `Dialog`, `StringsReceived` and `WriteReply` translate from
`ThotDecoderClient` and `process_request_switch`; a `recv` takes some of the bytes that
have been written (`stream`), or none once the peer has closed. `recvInt`, `recvStlStr`,
`writeInt` and `writeStr` are modelled with what they do not look at: how many bytes
arrived, and whether a string could be written. An integer that was not read whole has
any value of `Garbage`. `bad` records what the reads of a side have missed. The decoder
is any answer of the operation's kind; what the accept loop and the request's thread do
to other connections is in `ThotServer`.

### SmtMultiStackRec

The container is four indexes of the same hypotheses: `multiContainer`, a
sub-stack for each equivalence class; `sortedStacksMap`, the sub-stacks that are
not empty; `recInfoMap`, an iterator into a sub-stack for each hypothesis state;
and `hypStateDict`, the best score seen of each state. A hypothesis is its class,
its state and its score (heuristic included), which is all the container looks at;
an iterator is the node it points to. `Push` is `pushIter` with `pushOnSmtStack`,
`pushOnSmtStackIdx` and `SmtStack::pushIter`; `Pop` is `pop` in both orders;
`Clear`, `SetMaxStackSize` and `SetBf` are what the decoder calls. Two abstractions:
the index that the dictionary gives a state is the state itself (indexes are never
reused before a clear), and among equal scores, where the code takes the oldest
first and prunes the newest, the model takes any. The decoder clears the
container between a change of its size and the next push; `ready` says so.

`Beam` says what this amounts to: of a class at most the given number of
hypotheses is held, the best of those that compete; of a state whose hypotheses are
all of one class at most one, the best; they are handed out best first.

### StackDecoder

One decoder as its callers see it: they set parameters, ask for a translation
(`Translate`, one action for the four calls up to the null hypothesis, which they
insert in the same way), ask for the next one, or clear. Between the first and
the last step of a call nobody else can act, because the decoder belongs to one user
and the user's mutex is held (`ThotDecoder`). A search step is one `pop`
(`Select`), one complete hypothesis dealt with (`TakeComplete`, `ReturnComplete`), one
expansion (`Expand`) or one expanded hypothesis pushed (`PushExpanded`, which is
`pushGivenPredHyp` with the arc of the word graph). The variables named "locals"
are those of `decode`. The four `decode...` loops differ only in which expansions
they ask for and in that `decode` keeps an incomplete result.

`PushHyp` and `PopHyp` conjoin actions of the container, so a step changes the
stacks as `SmtMultiStackRec` says and in no other way. What they add is what the
decoder does: the heuristic and the term g in the score, best-score pruning, and
the switch of the container's order, which the variable `bf` keeps from one
search to the next as the code does.

The translation model is data. A request is the lattice of its partial hypotheses:
arcs between states, each with a score and with or without a jump, and a
heuristic for each state. `Lattice` and `Translations` compute, independently of
the search, everything that the model allows; the properties compare the result and
the word graph with them. Scores are integers; what rounding loses is not modelled.

### WordGraph, WordGraphUse

A graph is a record with the members of the class: arcs, their pruning flags and score
components, for each state the arcs that enter and leave it, final states and the score
of the initial one. The loops over the arcs are folds, in the order of the code, with
its clamping at `SMALL_SCORE`; that makes them depend on the order of the arcs as the
code does. `WordGraphUse` is what the programs do with a graph: build it in any order
of arcs, make states final, then prune once, order, reduce to the useful states, and
clear. The search of the n-best list goes on until there are enough complete hypotheses or
none to extend. Its stack drops what exceeds `NBEST_MAX_STACK_SIZE` (10000); the model drops
nothing, and the property is stated for graphs with no more paths than that. `TakeUseful` has a guard that the code lacks and its callers provide: the arcs are in
topological order and have not been reordered. Without it
`obtainWgComposedOfUsefulStates` registers arcs with states it has not created.

### EditDist, WgProcessor, CatSession

`EditDist` has the distance matrices of words and of sentences, with the free deletions
after an incomplete last word, the row-by-row version for a growing prefix
(`ExtendFirstRow`, `ExtendRow`), and the corrections that follow the operations. `WgProcessor`
is `WgProcessorForAnlp` with `PfsmEcmForWg`: a record of rows, which `Processed`
brings from one prefix to the next as `getValidProcPrefixVec`, `updateSizeOfVars` and
`procWgGivenPrefDiff` do. `of` is the graph that the rows were made for, which the code
does not keep: the processor holds a pointer to the graph it is linked to, and
whoever owns that graph may replace its contents. `CatSession` is the user's calls.
Each is one step, because the user's mutex is held (`ThotDecoder`). `linked` says whether
the processor uses the graph of a file or that of the stack decoder;
`TranslateSentence`, `SentPairVerCov` and `OnlineTrainSentPair` are the other calls that
clear the decoder's graph, and build one if that is enabled: it is by training, and by
`StartCat` unless `wgp` is `DISABLE_WORDGRAPH`. A correction with rows of another graph is
`Undefined`. Two details of the code have no effect and no counterpart: `correct` looks at
the last letter of an empty prefix (`WgProcessorForAnlp.h:321`), and `initVars` leaves the
word-graph scores of the states unset until arcs set them. The
translations and the predicted words are data; strings are sequences of letters because
the properties are about blanks and incomplete words.

## 3. Runs

| Run | Instance | Question |
|---|---|---|
| `decoder_safety` | 5 calls, 2 users, one operation of each kind, with `release_user_data`, no failing initialization | safety and refinement of `OpGate` |
| `engine` | 2 host threads with 4 and 2 calls, engines for "ann" and for "0", sessions | the plugin calls the decoder as `ThotDecoder` assumes; nobody works with parameters that are still to be set |
| `decoder_liveness` | 4 calls, 1 user, one operation of each locking discipline, fair threads | every call returns |
| `decoder_init_error` | as `decoder_safety`, but `initUserPars` may fail | finds the leaked mutexes (below) |
| `server_safety` | 3 connections, 1 user, one exclusive and one shared request type and `END_SERVER`, every failure | the shutdown, sockets, the decoder's calling conventions |
| `server_liveness` | 2 connections, 2 users, five kinds of request, fair threads | the server stops, requests end |
| `stack` | 9 hypotheses: one state in two classes, one state in each class alone, 2 or 3 scores; sizes 0, 1, 2 | the indexes agree, the container keeps the best and implements `Beam` |
| `stack_recombination` | the same | finds two hypotheses of one state (below) |
| `search` | 5 requests (full lattice, one with a heuristic that is not admissible, dead ends with an arc of probability zero, a reference, a sentence too long), stacks of 1 and 6, 1 or 2 expansions an iteration, all flags | optimality, no loss of all translations, the word graph holds the search, termination |
| `word_graph` | up to 4 arcs over 4 states, in any order, scores -2 and -1, three thresholds, lists of 1 and 3 | passes over arcs agree with paths |
| `cat` | two sentences, one with a word graph in a file, prefixes of up to 5 letters, 3 corrections a session, rejected words, a predictor, verified references, three pruning thresholds | the answer keeps what was typed; the rows fit and are exact |
| `protocol` | one request of each of the 11 types, strings of 0 and 2 bytes, integers of 2 bytes, fair threads | both sides agree; nobody waits for ever |

Bounds. Five calls suffice for an atomic operation that waits for two non-atomic
ones while another atomic operation and an initialization wait behind it; two
users are the fewest that can be confused. One operation of each locking
discipline stands for the others of its kind, which differ only in their body;
`AllOps` has them all, and the proofs are about all. In the server three
connections are the shutdown, a request that runs and one that is being accepted;
the second user is in the liveness run. A finished call stays at `"done"`, so
the calls of an instance are also its only bound on counters. Symmetry is used in
the safety runs only; calls, connections and users differ only in their names.
Size 2 is the smallest at which a sub-stack is pruned and keeps a hypothesis that
was there; five nodes are two full sub-stacks and one that is being pushed; the
proofs have no bounds.
In `search` five names for nodes are more than are ever alive, so size 6 never
prunes; two words make three levels of classes, enough for a recombination across
classes, a complete hypothesis that waits while incomplete ones are expanded, and
an iteration that holds both. `MAX_NUM_OF_ITER` is 20 there and never reached,
which `IterationsBounded` shows with the bound it has in general: the number of
partial hypotheses. Together with the absence of deadlock this is termination of the
search, without an assumption on fairness.
Four arcs are enough for parallel arcs, a path around another and a dead end beside a
translation; the joined states include an arc to a lower number, so that topological
order is not the order of the states. Three corrections are a prefix that grows, shrinks or
changes after another did; the rows are shown to be those of a fresh processor, so a fourth
would start from rows that a session has already. `MaxPrefix` leaves room for a
complete word, an incomplete one and a blank. An integer of two bytes can be torn, and
a string of two as well.
Deadlock is checked in `search`, `stack`, `word_graph` and `cat`. In the others it is not:
when every call of an instance has returned, nothing more happens.

What `search` shows, and under which conditions. The result is optimal
(`ResultIsOptimal`) when one hypothesis is expanded at a time, as in `ThotDecoder`, the
stacks prune nothing and the heuristic never underestimates and expects nothing of a
complete hypothesis (`Admissible`); with two expansions an
iteration a complete hypothesis popped beside an incomplete one ends the
search at once. It also needs that no breadth-first search left the container's flag
set (`bf => breadthFirst`): `set_breadthFirst(false)` does not reset it, and a
best-first search would then return the first complete hypothesis of the first
sub-stack. Without any of these conditions a lattice without dead ends always
yields a translation (`BeamFindsTranslation`), and the word graph contains the result
and every hypothesis of the stacks with its score (`GraphHoldsSearch`).
`getNextTrans`, which no program of the repository calls, is modelled for
callers that set no parameter in between.

What `engine` shows. `ThotDecoder` constrains its callers by `MayCall`; `ThotServer` and
`ThotImt` show that both programs keep to it. The plugin does so as long as no engine is
created for a user whose name is a number that a session was given before: sessions
take the first number that names no user, and an engine for "0" then works with the
session's user, also after its data were released. The instance contains that case and
`NamesApart` excludes it. With `UsesDecoderProperly` and `EnginesUseDecoderProperly` the
theorems about `ThotDecoder` apply to the server and to the plugin.

What `word_graph` shows. `prune` retains exactly the arcs of the paths within the
threshold of the best, if the arcs are in topological order and the initial state has no
score: `calcPrevScores` and `calcRestScores` both add that score, so it counts twice and
shifts the threshold. With a threshold of 1 the arcs of the best translations remain, not "the best
arc arriving to each state" (`WordGraph.h:178`). Reducing and
ordering keep every translation with its score. The n-best list is right, with the best path
first, for paths that do not go on after a final state, which the search never extends.
Two conditions are part of the property: the scores of the arcs are negative, as logarithms
of probabilities are (with an arc above 0, the path that goes on after a final state
would be the better one), and there are no more paths than the search's stack has room for.
`WordGraphConstants` states what the rest needs: the arcs make no cycle, and
`SMALL_SCORE`, which is -999999999, is so far below the scores and the thresholds that sums
along a path stay above it.

What `cat` shows, and under which conditions. The answer always begins with what the
user typed (`AnswerKeepsPrefix`), whatever the costs prefer, except where the processor works
with rows of another graph. That happens only after the same user has translated or trained
a sentence, or verified a pair, within the session (`CachesFitGraph`): `startCat`,
`translateSentence` (or `sentPairVerCov`, or `onlineTrainSentPair`), `addStrToPref`. Working
out only what is new of a prefix is exact (`IncrementalIsExact`) when one prefix continues
the other. `getValidProcPrefixVec` does not stop at the first word that differs
(`WgProcessorForAnlp.h:472`), so from "a b" to "c b" it takes one word for processed that is
not; and a last word that was processed as incomplete counts as processed when it is complete in the
next prefix. So the property covers a user who types letter by letter, but not one who
makes "b a" of "b" in one step. The answer keeps the prefix then too, but the rest may not
be the best. The graphs are pruned by thresholds that keep all, some and none of the arcs.
`DistancesAreLeast`, an assumption that TLC evaluates, compares the distances with their
definition on all words of up to three letters.

What `protocol` shows. As long as reads are whole, the server runs what the client asked
for and the client takes the operation's answer for its answer (`AnswersAreTrue`). With torn
reads nothing of the kind holds: `recvInt` and `recvStlStr` do not look at how many bytes
they got. A server that closes without an answer, because the user's initialization failed,
is such a case: `recvInt` returns an uninitialised value and the client may report
success. `DialogEnds` shows that lost writes, a dead client and such a server leave nobody
waiting, unless a read is torn or `pthread_create` failed, when the socket stays open.

Fairness. `FairSpec` makes the steps of each thread weakly fair. A thread that
waits for a free mutex is *enabled*, so weak fairness says only that the
scheduler runs it if the mutex stays free; with the finitely many calls of an
instance that is enough, and it is what POSIX gives. Spurious wake-ups and new
calls are not fair. Because calls are finite, the starvation of an atomic
operation by an endless stream of translations, which the code's own comment
admits, is outside this result. `FairServerSpec` adds that the main thread and
request threads go on and that a client, once connected, sends what is received
next or goes away; no client has to connect. A silent client does stop the
server's accept loop: that is a hazard, not a theorem. `FairSpec` of `Protocol` makes the steps
of each side weakly fair: its threads run, and something of what was written arrives.

What the runs found. `initUserPars` returns from the middle of its critical
section when `set_wgp` or `use_caseconv` reports an error
(`stack_dec/ThotDecoder.cc:1066`) and leaves `atomic_op_mut` and
`non_atomic_op_mut` locked. `decoder_init_error` shows it. Safety is not
affected (`server_safety` and the theorems allow these failures), but no later operation
returns, so `decoder_liveness`, `server_liveness` and `engine` exclude them
(`InitRets = {"THOT_OK"}`).

Recombination is incomplete. The programs sort hypotheses into sub-stacks by the
number of covered words and by whether they made jumps
(`PhrHypNumcovJumps01EqClassF`), and the state of a hypothesis does not say whether
it made jumps. In non-monotone search the two hypotheses of one state can be in two
sub-stacks. Then `pos->second.remove(...)` (`stack_dec/SmtMultiStackRec.h:353`),
commented "remove hypothesis with lower score", removes nothing, the worse
hypothesis stays and is expanded, and its pop erases the entry of the better
one. `stack_recombination` shows the two hypotheses. The search only does more work
than it has to: `Recombines`, `DictDominates` and `NoDanglingIterator` hold all the
same, the first for states of one class.

## 4. Proofs

`ThotDecoder_proofs` proves, for every finite set of calls, every set of users and
every choice of operations:

| Theorem | Statement |
|---|---|
| `TypeCorrect` | `Spec => []TypeOK` |
| `Invariance` | `Spec => []IndInv` |
| `AtomicOpsRunAlone` | `Spec => []AtomicRunsAlone` |
| `UserMutualExclusion` | `Spec => []OneThreadPerUser` |
| `ModelsStable` | `Spec => []ModelsStableInBody` |
| `NoUseAfterRelease` | `Spec => []NoFreedUserInUse` |
| `NothingHeldAfterReturn` | if `initUserPars` cannot fail, `Spec => []ReturnedHoldsNothing` |
| `GateRefinement` | `Spec => ImplementsGate` |
| `TablesStayInPlace` | `Spec => TablesNotMovedInUse` |
| `ParsSetFirst` | `Spec => []ParsSetBeforeUse` |

The only assumption is `ConstantsAssumption`. The argument: none of these
properties is inductive. `IndInv` adds who owns each mutex at each place
(`AtomicOpOwner`, `NonAtomicOpOwner`, `UserOwners`; a failed `initUserPars`
owns both for ever), that the counter is the number of counted threads
(`CounterCountsOps`) and is zero while somebody keeps `non_atomic_op_mut`
(`GateClosed`), that the map gives each user a place of its own
(`UsersHaveOwnPlace`), that an index read under `user_id_to_idx_mut` stays right
until it is used (`IdxIsCurrent`), that a released user has no other call in
progress (`ReleasedLast`), and that what an operation saw of the models is what
they are (`SeenIsCurrent`). The proof has one lemma per conjunct and kind of
step; the central one, `AloneExcludes`, derives from the owners, the counter and
the closed gate that a thread at `"alone"` or `"work"` excludes all others. The
refinement maps each step to a step of the gate or to a stutter.

The two theorems about the users need more than the locks: that a call that is let in
cannot find its user missing. `UsersInv` says that the users in the map, and of any
call, are users that `initUserPars` was called for (`BegunFirst`), that until
`clearTrans` empties the tables such a user is known before another call is made for it
(`KnownFirst`), and that `clearTrans` waits for initializations (`InitsBeforeClear`).
So until then only `initUserPars`, which runs alone, creates users. After it any call
may create its user again, but there are never more of them than mutexes: when the
tables were emptied every one of them was in the map (`TablesFit`, a comparison of
cardinalities), so `per_user_mut` does not grow. `ParsSetBeforeUse` holds even if
`initUserPars` fails, because a failed call keeps everybody out (`SettingExcludes`).

`SmtMultiStackRec_proofs` proves of the container, for any hypotheses, classes and
sizes (`StackConstants` only says what a hypothesis is and that sizes are
numbers):

| Theorem | Statement |
|---|---|
| `StackInvariance` | `Spec => []StackInv` |
| `StackTypes`, `SortedMapExact`, `StackSizeBound`, `IteratorsValid`, `DictionaryBest`, `OneHypOfClassState` | the parts of `StackInv`, one by one |
| `RecombinationComplete` | if states determine classes, `Spec => []OneHypPerState` |
| `PushesKeepBest` | `Spec => BestKept` |
| `BeamRefinement` | `Spec => ImplementsBeam` |

Here the safety properties are inductive together, with the finiteness of the
sub-stacks (`StacksOfClass`), and none alone. The interesting dependence is in
`RestBounded` and `PushKinds`: after `remove` has erased a node, the insertion
cannot be refused, because the sub-stack was within its size (`SizeRespected`) and is
one smaller now; so the entry that still points to the erased node is always
overwritten. Every push is then one of four kinds, and the other lemmas go by
these.

`ThotServer_proofs` proves of the server, for any finite set of connections, any
users and any subset of the request types:

| Theorem | Statement |
|---|---|
| `ServerInvariance` | `ServerSpec => []ServerInv` |
| `ServerTypeCorrect` | `ServerSpec => []ServerTypeOK` |
| `CounterIsExact` | `ServerSpec => []ThreadsAccounted` |
| `NoSocketForgotten` | `ServerSpec => []OpenSocketsOwned` |
| `ShutdownIsQuiet` | `ServerSpec => []QuietAtShutdown` |
| `ServerUsesDecoderProperly` | `ServerSpec => UsesDecoderProperly`, that is `Spec` of `ThotDecoder` |
| `DecoderSafeInServer` | the safety theorems of `ThotDecoder_proofs`, for `ServerSpec` |

`ServerConstants` says that a connection has two calls, that the operations of its
requests are among `Ops` and that `None` is no connection and no mutex owner.
`QuietAtShutdown` is not inductive: the counter has to be exact at every step
(`ThreadsAccounted`), the shutdown must keep its mutex (`DownIsQuiet`), and a call in
progress must have a thread that waits for it (`CallsFollow`). For the last two
theorems `CallerInv` says that a user for whom a thread runs has been initialized
(`WorkerReady`, from `user_set` by `UserReady`: an entry whose initialization failed
still counts, since the call has been made), and that no turn of the loop follows an
END_SERVER (`CurEnds`, `WorkerEnds`), so that nothing is initialized after
`clearTrans`. Every step then lets the calls go on (`CallsGoOn`) or makes one that
`MayCall` allows, and the decoder's theorems carry over without being proved again.

`ThotImt_proofs` proves of the interactive plugin, for any host threads, numbers of
calls and names:

| Theorem | Statement |
|---|---|
| `ImtInvariance` | `ImtSpec => []ImtInv` |
| `PluginUsesDecoderProperly` | `ImtSpec => EnginesUseDecoderProperly` |
| `DecoderSafeInPlugin` | if no engine is created for a number, the safety theorems of `ThotDecoder_proofs`, for `ImtSpec` |

`ImtConstants` says which calls a host can make and that identifiers are numbers;
`DecoderSafeInPlugin` also assumes that every number may be one (`Users = Nat`). The
argument: an identifier is the size of the map when its name was added, so two names
never share one (`IdsDistinct`, which needs that the map is finite and its identifiers
below its size). The name of a new session is in nobody's hands yet, so two hosts work
for one user only if an engine does (`SessionsApart`), and the user of a release is that
of a session that its host has given up (`ReleasedGone`). `ImtInv` holds whatever the
names are; only the last step, that the user of an engine is none that a session
releases, needs `NamesApart`. The lemmas about what a step of the decoder means for a
caller (`CallsGoOn`, `CallMade`, at the end of `ThotDecoder_proofs`) serve this
module and `ThotServer_proofs`.

`StackDecoder_proofs` proves of the search, for any requests (lattices, heuristics,
modes), stack sizes, numbers of expansions and calls in any order:

| Theorem | Statement |
|---|---|
| `DecoderInvariance` | `Spec => []DecoderInv` |
| `DecoderTypes` | `Spec => []TypeOK` |
| `GraphInvariance` | `Spec => []GraphHoldsSearch` |

`DecoderConstants` says what a lattice is: an arc covers more words than the state
it leaves and no more than there are, scores and heuristics are numbers, and the
container has a class for each number of words with and without jumps. `TypeOK`
alone is not inductive, because the classes of the container are those of the
hypotheses that are pushed, which depend on what was popped. `SearchInv` says that
every hypothesis in the container or in a local of `decode` is one that the request can
produce (`HypOK`, `KeyOK`), and that the dictionary has the state of each that was
popped; `PhaseInv` says that nothing but a parameter setter between two calls
leaves the container with hypotheses of another search (`settled => ready`). The null
hypothesis is the only one of the root state; `StoredRestored` is the fact that the
score with heuristic and g that is pushed, and the score that is restored when the
hypothesis is popped, are inverse.

`GraphHoldsSearch` speaks of paths, and the property's `GraphPaths` is a
recursive function: `PathTable` is its table, `PathTableExists` shows that one exists, and
the lemmas after it that the table grows with the graph (`TableOfLargerGraph`) and that
an arc takes a path one state further (`PathExtended`), each by induction over the number
of arcs. The invariant `GraphInv` is stronger than the property. It must say of each
hypothesis of the stacks *and of the locals* that the graph has a path to it with its
score (`Charted`), because a hypothesis is in neither container nor result between
its pop and the pushes of its successors; and that, once there is an arc, the score of the initial state is the heuristic of the
root, which every arc from there writes. That a state popped with one score may have been replaced in the container by a
better one costs nothing: arcs are only added.

It also proves what the search finds, for any lattices, stack sizes,
classes and calls in any order:

| Theorem | Statement |
|---|---|
| `BeamInvariance` | `Spec => [](NotGivenUp => BeamFindsTranslation)` |
| `OptimalInvariance` | `Spec => [](NotGivenUp => ResultIsOptimal)` |
| `IterationInvariance` | `Spec => []IterationsBounded` |
| `ResultInvariance` | `Spec => [](EnoughIterations => BeamFindsTranslation /\ ResultIsOptimal)` |

`NotGivenUp` says that fewer than `MAX_NUM_OF_ITER` iterations were made: the loop of
`decode` ends there, whatever it has found. `IterationInvariance` shows that
this needs a lattice of about that size, and `ResultInvariance` puts the three together:
for any smaller lattice (`EnoughIterations`; the code's bound is 1000000) the two
properties hold as the run checks them. Beyond `DecoderConstants` as described above the
proofs use its last part: lattices and the names of nodes are finite, the factor of g
is not above 0, and the lowest score that push accepts, `-FLT_MAX`, is not above 0.

The properties compare the search with `Lattice`, a recursive function that enumerates
sequences of arcs. `DerivationTable` is its table; from it follow, by induction, that
the lattice is closed under what leads on from a derivation and holds nothing else
(`LatticeExtended`, `LatticeMembers`), that the arcs determine the score (`LatticeUnique`), that every
first part of a derivation is in it (`LatticeParts`), so that from a first part of a
translation some arc leads on (`NextOn`) and its heuristic bounds the rest
(`HeuristicBounds`), and that it is finite (`LatticeFinite`). On the side of the
container, `ContainerInv` repeats for the search what `StackInv` says of
the container alone: sub-stacks are finite and of their class, the dictionary is not
below any of its nodes. Every push then has one of three outcomes (`PushOutcome`): the
hypothesis is dropped for its score, a better one of its state was known, or it is
taken, and what it displaces leaves at least one of the same number of covered words; with
stacks above the number of names nothing is displaced but hypotheses of the same
state that are not better. `DerivedInv` says that no hypothesis has a score that the
lattice does not give it.

For `BeamFindsTranslation` the invariant is that something that can still be expanded,
in the container, popped, or about to be pushed, covers as many words as any state the
dictionary knows (`Furthest`). A push cannot lose it: if a better hypothesis of
the state is known, its number of words is in the dictionary already; if it is taken, the
sub-stack of its class keeps one. When it is expanded, a lattice without dead ends
has a successor that covers more. So the search cannot run out of hypotheses before a complete one is
popped. For `ResultIsOptimal` it is that, as long as there is no result, each
translation has a first part to which the search holds the best hypothesis of its state, in the container
or in its hands (`WaysOpen`): its score with heuristic is then at least that of the
translation. `WaysOpen` has to follow a first part through a pop (from the
container to the queue), an expansion (one arc further) and a push (recombined with
another hypothesis of the state that is at least as good). Best-score pruning drops only what is
worse than a complete hypothesis that is still open (`BestHeld`), and what is
popped complete is the best (`PopsBest`): a best-first search pops the best of all, a
breadth-first one a complete hypothesis only when the best of its sub-stack is complete. This
is where `bf => breadthFirst` is needed.

`IterationsBounded` counts, and what it counts is in no variable: the partial
hypotheses that were expanded. `IterInv` says that there is a set `E` of derivations, at least as large as
the number of iterations that are over, and a naming (`Names`) of everything that can still be expanded
by derivations outside `E`, each of its own, and each one arc longer than one in `E`. A
hypothesis is told from another of the same state and score by its place (`Token`). A pop, the
next of the queue and a push move a name from place to place (`SelectTokens`, `NextTokens`,
`PushToken`); an expansion puts one into `E` and names the successors with one arc more
(`NamesExpanded`), which are new because a derivation tells what it extends
(`ThenInjective`). That recombination leaves some hypotheses of a state twice
(`stack_recombination`) does not matter: they are different derivations.

`Protocol_proofs` proves of one connection, for texts and integers of any size and
whatever arrives, is torn or lost:

| Theorem | Statement |
|---|---|
| `ProtocolInvariance` | `Spec => []ProtocolInv` |
| `AnswersTrue` | `Spec => []AnswersAreTrue` |
| `OneOperation` | `Spec => [][done # <<>> => UNCHANGED done]_vars`: a request never runs two operations |

`ProtocolConstants` says that an integer has at least one byte, that a text is a sequence of
characters and that a character is not a byte of an integer, so that the two kinds of field
can be told apart by what they are written as. `AnswersAreTrue` compares the ends of a
dialog; what makes it inductive is the middle. `ReaderAt` says of a side
that what it has read (`got`), what is left of the field it is reading, the bytes
that have arrived (`stream`) and the bytes that its peer has still to write are
together exactly the fields of the message, with the socket calls that are left (`todo`) those
that read the rest; `WriterAt` says the same of the other side. `Asking` joins the two for the
request and `Answering` for the answer; both hold as long as `bad` is empty. Between
the two lie `First` and `Silent` (while the server reads, nobody has written an answer)
and `Once` (after the operation the server only answers). A `recv` moves bytes from one
part of that equation to another, so the argument is that concatenation can be
regrouped (`Regrouped`, `SameBytes`), and that a field is told from what follows
it by its length, which is written first. The theorems about the socket calls
(`RecvEffect`, `ReadIntEffect`, `ReadBytesEffect`, `WriteEffect`, ...) hold for either
side.

`WordGraphUse_proofs` proves of word graphs, for any states, arcs, scores, thresholds and
lengths of lists, and graphs of any size:

| Theorem | Statement |
|---|---|
| `UseInvariance` | `Spec => []UseInv` |
| `WgTypes` | `Spec => []WgTypeOK` |
| `ReshapingIsFaithful` | `Spec => ReshapingKeepsTranslations` |
| `PruningIsByPaths` | `Spec => PruneKeepsGoodPaths` |
| `NbestIsRight` | `Spec => []NbestIsBest` |

The only assumption is `WordGraphConstants` (section 3). Everything here is a fold over
the arcs, so the first part of the module says what a fold is, row by row: there is a table of its
intermediate values (`FoldTableExists`), each from the one before, and a fact that each
step keeps holds of the last row (`FoldStays`). What a pass has made of the
first arcs, or of the last, is then an invariant of its rows. `UseInv` is that of the
graph: arcs join states that there are, the lists of the states are those of the arcs
until these are reordered, there are no more arcs, and no other scores, than the constants
allow (`InBounds`), and no arc of a graph in topological order leaves a state that nothing enters
(`Grounded`, which is what an acyclic model gives).

- Pruning. `PrevAfter` says of `calcPrevScores` that after n arcs it has, for each state they
  enter, the score of a best path to it; `RestAfter` says the same of `calcRestScores`,
  from the last arc down, with `SMALL_SCORE` for a state from which no final state can be
  reached. What the two say of an arc is then what the best path through it has
  (`GoesBy` splits a path at an arc), and the bounds leave a gap between an arc that is on
  no translation and any threshold.
- Reshaping. The useful states are those on some complete path; renaming states and moving
  arcs by a one-to-one mapping that keeps what they join keeps words and scores.
- The n-best list. The heuristic is another backward pass (`HeurFits`); it never promises less than
  what follows brings, so the estimate of a hypothesis never rises when it is extended (`EstimatesFall`). The
  search is the iteration of one step (`SearchByIterations`, `IterationKeeps`). Its
  invariant `Searched` says that the hypotheses that were popped and those that may be are
  different paths, that the extensions of an incomplete one that was popped are among them, and
  so is what each extends (`Taken`), and that the complete ones that were
  popped are the list, best first, and no worse than what any other promises
  (`AreComplete`). An iteration pops one path of the finitely many (`PathsAreFinite`),
  so the search ends (`SearchEnds`), and a complete path that was not popped has a first
  part that may be, hence is not better than what was (`NoneIsMissed`).
- The best path. The last arcs that the pass has kept lead back to the initial state, since
  each comes later than the one before (`ArcsBack`, `BackExists`), and the path they make has the score of the pass
  (`BackLeads`). It cannot go on after a final state, because every arc makes it worse (`NoArcHelps`).

`Induction_proofs` has what the modules about `StackDecoder`, `Protocol` and `WordGraphUse` need of induction. The library's theorem
takes a predicate as an operator, which the provers cannot instantiate; here the
predicate is a *set* of numbers (`InductionOnSet`, `InductionUpTo`), derived from
the fact that a non-empty set of naturals has a least element (`LeastOfSet`). That suffices for
recursive functions over numbers, such as the tables of paths and of derivations, and for folds.

The invariants of the modules were first checked by TLC on the instances of
`search`, `protocol` and `word_graph`, except `IterInv`, which speaks of functions that TLC would have to
enumerate; `IterationsBounded` itself is checked.

Model-checked only, and why:

- liveness (`decoder_liveness`, `server_liveness`, `DialogEnds`), which is out of the
  prover's reach;
- `CachesFitGraph`, `AnswerKeepsPrefix` and `IncrementalIsExact` of `CatSession`. All three
  rest on every kept place having a best predecessor, that is, on no score of a correction
  being as low as `SMALL_SCORE`. That is a bound on edit distances of words and sentences (a
  dozen folds, each within another) times the weights, over graphs that were pruned and
  reduced before; `IncrementalIsExact` needs besides that two folds over different
  prefixes agree.

## 5. Plan

1. `OpGate`, `ThotDecoder`, proofs, `ThotServer`, `ThotImt`: done, as above.
2. `SmtMultiStackRec`, `Beam`, proofs: done, as above.
3. `StackDecoder`, proofs: done, as above; all the properties of its run are proved.
4. `WordGraph`, `WordGraphUse`, proofs: done, as above; all the properties of the run are
   proved. `EditDist`, `WgProcessor`, `CatSession`: done, as above. To prove: that stale
   rows follow only from another translation (the second part of `CachesFitGraph`), then
   `RowsFit`.
5. `Protocol`, proofs: done, as above.
6. Pure algorithms against reference definitions: phrase extraction, the coverage
   and segmentation of partial hypotheses.
7. Incremental models: statistics taken out and put back, sample window.
8. Cluster scripts: how jobs wait for each other.

### Not modelled

Floating-point estimation and scoring (`sw_models/`, `incr_models/`, `KbMiraLlWu`, the
features of `_phraseBasedTransModel.h`): what these programs compute is a matter of
rounding and of data, which a model checker cannot enumerate; to the modules above they are
data. Phrase extraction, the sample window of the incremental models and the cluster
scripts could be modelled and are the rest of the plan. The engine over n-best
lists, error correction models that are not based on edit distance, the files that
graphs and models are read from and written to, pre- and post-processing, vendored
containers, option parsing and the command-line tools are left out.
