--------------------------- MODULE MCCarrierSleep ---------------------------
(* Finite instances of CarrierSleep.                                       *)
EXTENDS CarrierThread, TLC

CONSTANTS t1, t2, x1

\* Two tasks of one scope: an abort of one waits for the other's publisher.
OneScope == [t \in Tasks |-> x1]

\* The first task parks, the second keeps running.
FirstParks == [t \in Tasks |-> IF t = t1 THEN 1 ELSE 0]

ThreadSymmetry == Permutations(Threads)

MCSpec == Sleep!Spec
MCFairSpec == Sleep!FairSpec

\* inbox.rs:149: every admitted start is received.
StartReceived == Sleep!StartReceived
\* carrier.rs: a stopped carrier halts.
StopHalts == Sleep!StopHalts
=============================================================================
