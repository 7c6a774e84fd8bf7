---------------------------- MODULE MCEventWindow ----------------------------
(* The two worker threads of leelod's runtime over three windows.            *)
EXTENDS EventWindow

CONSTANTS t1, t2

MCThreads == {t1, t2}
=============================================================================
