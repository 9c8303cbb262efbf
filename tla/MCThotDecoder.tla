--------------------------- MODULE MCThotDecoder ---------------------------
(* Instances of ThotDecoder for TLC. *)
EXTENDS ThotDecoder, TLC

CONSTANTS t1, t2, t3, t4, t5, u1, u2

FourThreads == {t1, t2, t3, t4}
FiveThreads == {t1, t2, t3, t4, t5}
OneUser == {u1}
TwoUsers == {u1, u2}

\* The operations of the server and of the engines; those that lock alike are
\* one here.
CallerOps == {"initUserPars", "onlineTrainSentPair", "translateSentence",
              "release_user_data", "printModels", "clearTrans"}

\* One operation of each locking discipline.
DisciplineOps == {"initUserPars", "onlineTrainSentPair", "translateSentence",
                  "printModels"}

\* Threads differ only in their name, and so do users.
Symmetry4 == Permutations(FourThreads) \cup Permutations(TwoUsers)
Symmetry5 == Permutations(FiveThreads) \cup Permutations(TwoUsers)
=============================================================================
