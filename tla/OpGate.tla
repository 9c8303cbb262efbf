------------------------------- MODULE OpGate -------------------------------
(***************************************************************************)
(* What ThotDecoder promises about the order of its operations, without    *)
(* the mutexes, the counter and the condition variable that achieve it:    *)
(* non-atomic operations may overlap each other, an atomic operation       *)
(* overlaps nothing.  ThotDecoder is shown to implement this module.       *)
(***************************************************************************)
CONSTANT Threads

VARIABLE mode   \* what each thread is doing inside the decoder

Modes == {"out", "nonatomic", "atomic"}

GateInit == mode = [t \in Threads |-> "out"]

\* A non-atomic operation may start whenever no atomic one is running.
EnterNonAtomic(t) ==
  /\ mode[t] = "out"
  /\ \A s \in Threads : mode[s] # "atomic"
  /\ mode' = [mode EXCEPT ![t] = "nonatomic"]

\* An atomic operation starts only when nothing at all is running.
EnterAtomic(t) ==
  /\ \A s \in Threads : mode[s] = "out"
  /\ mode' = [mode EXCEPT ![t] = "atomic"]

Leave(t) ==
  /\ mode[t] # "out"
  /\ mode' = [mode EXCEPT ![t] = "out"]

GateNext == \E t \in Threads : EnterNonAtomic(t) \/ EnterAtomic(t) \/ Leave(t)

GateSpec == GateInit /\ [][GateNext]_mode

=============================================================================
