---------------------------- MODULE MCThotServer ----------------------------
(* Instances of ThotServer for TLC. *)
EXTENDS ThotServer, TLC

CONSTANTS c1, c2, c3, u1, u2

TwoConns == {c1, c2}
ThreeConns == {c1, c2, c3}
TwoCalls == TwoConns \X {"init", "serve"}
ThreeCalls == ThreeConns \X {"init", "serve"}
OneUser == {u1}
TwoUsers == {u1, u2}

\* One request of each kind: alone, beside the others, printing, unknown, end.
SomeRequests == {"OL_TRAIN_PAIR", "TRANSLATE_SENT", "PRINT_MODELS", "END_SERVER", "unknown"}
SomeOps == {"initUserPars", "onlineTrainSentPair", "translateSentence", "printModels",
            "clearTrans"}

\* The kinds that race at a shutdown.
FewRequests == {"OL_TRAIN_PAIR", "TRANSLATE_SENT", "END_SERVER"}
FewOps == {"initUserPars", "onlineTrainSentPair", "translateSentence", "clearTrans"}

\* Connections differ only in their name.
ServerSymmetry == Permutations(ThreeConns)
=============================================================================
