---------------------------- MODULE MCApiObjects ----------------------------
(* Instances of ApiObjects for TLC.                                        *)
EXTENDS ApiObjects, TLC

CONSTANTS t1, t2, a

MCThreads == {t1, t2}
OneThread == {t1}
MCNames   == {a}
ThreadSymmetry == Permutations(MCThreads)

NoPut  == AllVerbs \ {"PUT"}
OfPods == {"pods"}
=============================================================================
