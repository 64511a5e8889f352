------------------------------ MODULE Condvar ------------------------------
(***************************************************************************)
(* The condition variable of sync/condvar.rs, used as it asks to be: tasks *)
(* that wait in a loop for a predicate, and a notifier that changes it     *)
(* under the same mutex.  The condvar is a Gate that stores no permits; a  *)
(* waiter registers there before it drops the guard.  The mutex is what    *)
(* the module Mutex shows it to be, a lock that everyone obtains.          *)
(***************************************************************************)
EXTENDS Gate

CONSTANTS
  Notifier,     \* makes the predicate true
  NoOwner

ASSUME CondvarAssumption ==
  /\ Notifier \notin Tasks
  /\ NoOwner \notin Tasks \cup {Notifier}

VARIABLES
  owner,        \* of the predicate mutex
  ready,        \* the predicate
  stage         \* of each task's loop, and of the notifier

loopVars == <<owner, ready, stage>>
allVars == <<vars, loopVars>>

Waiters == Callers["condvar"]

Stage(a, from, to) == stage[a] = from /\ stage' = [stage EXCEPT ![a] = to]

CondvarInit ==
  /\ Init
  /\ owner = NoOwner /\ ready = FALSE
  /\ stage = [a \in Waiters \cup {Notifier} |-> "start"]

-----------------------------------------------------------------------------
(* The predicate loop of a task *)

\* mutex.lock, at the beginning and at the end of wait.
lock(t) ==
  /\ owner = NoOwner /\ owner' = t
  /\ Stage(t, "start", "locked") \/ Stage(t, "relock", "locked")
  /\ UNCHANGED <<vars, ready>>

\* The task's own policy ends the reacquisition.
lock_refused(t) ==
  /\ Stage(t, "relock", "failed")
  /\ UNCHANGED <<vars, owner, ready>>

look(t) ==
  /\ IF ready THEN Stage(t, "locked", "done") /\ UNCHANGED pc
              ELSE Stage(t, "locked", "waiting") /\ Goto(t, "out", "enter")
  /\ UNCHANGED <<kind, gateVars, cellVars, calls, signals, owner, ready>>

\* Mutant: the guard is dropped before the wait is registered.
RegisteredAt_early == {"enter", "reserved", "ticket"}

\* Where in the gate a waiter drops its guard.
RegisteredAt == {"ticket"}

\* The guard is dropped once the wait is registered, with the error, or when
\* the loop is over.
drop_guard(t) ==
  /\ owner = t /\ owner' = NoOwner
  /\ \/ stage[t] \in {"done", "failed"}
     \/ stage[t] = "waiting" /\ pc[t] \in RegisteredAt
  /\ UNCHANGED <<vars, ready, stage>>

\* Whatever the gate does for a task inside wait.  The ticket waits only after
\* the guard is gone, and a completed one leads to the mutex.
wait(t) ==
  /\ Proceed(t) \/ rollback(t) \/ select_cancelled(t)
  /\ owner = t => pc[t] # "ticket"
  /\ stage' = IF pc[t] # "out" /\ pc'[t] = "out"
              THEN [stage EXCEPT ![t] = IF pc[t] = "consume" THEN "relock" ELSE "failed"]
              ELSE stage
  /\ UNCHANGED <<owner, ready>>

-----------------------------------------------------------------------------
(* The notifier, and notifications that mean nothing *)

change ==
  /\ owner = NoOwner /\ owner' = Notifier
  /\ Stage(Notifier, "start", "changed")
  /\ ready' = TRUE
  /\ UNCHANGED vars

\* Before or after notify_all.
unlock ==
  /\ owner = Notifier /\ owner' = NoOwner
  /\ UNCHANGED <<vars, ready, stage>>

notify_all ==
  /\ Stage(Notifier, "changed", "announced")
  /\ broadcast
  /\ UNCHANGED <<owner, ready>>

\* Notifications of others: each may wake one waiter, or all, for nothing.  One
\* signal is left to the notifier.
stray ==
  /\ \/ /\ signals < MaxSignals - 1
        /\ broadcast \/ \E o \in Outsiders : notify_one(o)
     \/ \E o \in Outsiders : signal(o)
     \/ close_flag \/ close_drain
  /\ UNCHANGED loopVars

TaskProgress(t) == look(t) \/ drop_guard(t) \/ (stage[t] = "waiting" /\ wait(t))

CondvarNext ==
  /\ kind = "condvar"
  /\ \/ \E t \in Waiters : TaskProgress(t) \/ lock(t) \/ lock_refused(t)
     \/ change \/ unlock \/ notify_all \/ stray

CondvarSpec == CondvarInit /\ [][CondvarNext]_allVars

\* The mutex is fair, and whoever holds it goes on.
Runs(t) == look(t) \/ drop_guard(t) \/ (stage[t] = "waiting" /\ wait(t) /\ Proceed(t))

-----------------------------------------------------------------------------
(* Properties *)

\* Once the change is announced, or the condvar closed, every wait ends: the
\* task returns with the mutex or with an error.
WaitReturns ==
  kind = "condvar" /\ (stage[Notifier] = "announced" \/ closed)
    ~> \A t \in Waiters : stage[t] \in {"done", "failed"}
=============================================================================
