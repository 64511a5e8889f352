------------------------------- MODULE MCGate -------------------------------
(* Finite instances of Gate and Condvar: the kind picked in the initial    *)
(* state says whose steps are taken.                                       *)
EXTENDS Condvar

CONSTANTS t1, t2, t3, o1

MCCallers == [semaphore |-> {t1, t2, t3}, notify |-> {t2, t3}, condvar |-> {t2, t3}]
MCCalls == [t \in Tasks |-> IF t = t1 THEN 2 ELSE 1]

MCNext ==
  \/ CondvarNext
  \/ kind # "condvar" /\ Next /\ UNCHANGED loopVars

\* Threads are scheduled; the predicate mutex is fair, and whoever holds it
\* goes on; a caller inside signal or close finishes.
Scheduled(t) ==
  IF kind = "condvar" THEN t \in Waiters /\ Runs(t)
                      ELSE Proceed(t) /\ UNCHANGED loopVars
MCSpec ==
  /\ CondvarInit /\ [][MCNext]_allVars
  /\ \A t \in Tasks : WF_allVars(Scheduled(t))
  /\ \A t \in Waiters : SF_allVars(kind = "condvar" /\ lock(t))
  /\ WF_allVars(kind = "condvar" /\ unlock)
  /\ \A o \in Outsiders : WF_vars(signal(o))
  /\ WF_vars(close_drain)
=============================================================================
