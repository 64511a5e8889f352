------------------------------ MODULE MCMutex ------------------------------
(* Three tasks contend for one mutex whose queue admits two of them. *)
EXTENDS Mutex

CONSTANTS t1, t2, t3

ThreeTasks == {t1, t2, t3}
=============================================================================
