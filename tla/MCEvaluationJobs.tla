-------------------------- MODULE MCEvaluationJobs --------------------------
(* Instances of EvaluationJobs for TLC.                                    *)
EXTENDS EvaluationJobs, TLC

CONSTANTS w1, w2, s1, s2, t1, t2, t3, t4, none

OneWorker == {w1}
TwoWorkers == {w1, w2}
OneSweeper == {s1}
ThreeTokens == {t1, t2, t3}
FourTokens == {t1, t2, t3, t4}

Symmetry == Permutations(Workers) \cup Permutations(Token)
=============================================================================
