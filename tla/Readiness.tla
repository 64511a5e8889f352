----------------------------- MODULE Readiness -----------------------------
(***************************************************************************)
(* Socket operations that retry on advisory readiness (net/io.rs) and the  *)
(* reactor they register with (readiness.rs, readiness/driver.rs).         *)
(*                                                                         *)
(* Each task reads one socket.  The reactor's mutex makes each locked      *)
(* section a step; zio's poll is the set of keys installed in it and the   *)
(* level of each socket.  Its wait is bounded by a timeout, so it may      *)
(* always return, and its waker, which only shortens it, is left out.      *)
(***************************************************************************)
EXTENDS Naturals, FiniteSets

CONSTANTS
  Readers,         \* tasks, each with a socket of its own
  Capacity,        \* io_capacity
  Messages,        \* bound on the data that arrives on a socket
  Calls,           \* per task: bound on its operations
  MaxFaults        \* bound on the failed wakes and failed polls

\* What a proof about every instance takes for granted.
ReadinessAssumption == Capacity \in Nat

VARIABLES
  waits, closed,   \* State: the waits registered, by key
  driver,          \* pc, keys installed in the poll, events in hand, entry taken
  avail, sent,     \* data readable on, and sent to, each socket
  op,              \* per task: pc, winner and operations begun
  closing,         \* waits taken by close, still to be selected
  errors

reactor == <<waits, closed, closing>>
vars == <<reactor, driver, avail, sent, op, errors>>

Init ==
  /\ waits = {} /\ closed = FALSE /\ closing = {}
  /\ driver = [pc |-> "sync", installed |-> {}, events |-> {}, taken |-> {}]
  /\ avail = [t \in Readers |-> 0] /\ sent = [t \in Readers |-> 0]
  /\ op = [t \in Readers |-> [pc |-> "try", winner |-> "none", calls |-> 1]]
  /\ errors = 0

Go(t, pc) == op' = [op EXCEPT ![t].pc = pc]

\* The peer sends.
arrive(t) ==
  /\ sent[t] < Messages
  /\ sent' = [sent EXCEPT ![t] = @ + 1] /\ avail' = [avail EXCEPT ![t] = @ + 1]
  /\ UNCHANGED <<reactor, driver, op, errors>>

-----------------------------------------------------------------------------
(* retry_operation and wait_with_source *)

\* The task calls again after success, cancellation or refusal.
call(t) ==
  /\ op[t].pc = "returned" /\ op[t].calls < Calls[t]
  /\ op' = [op EXCEPT ![t].pc = "try", ![t].calls = @ + 1]
  /\ UNCHANGED <<reactor, driver, avail, sent, errors>>

\* One attempt: it succeeds, or blocks and the task yields or registers.
operation(t) ==
  /\ op[t].pc = "try"
  /\ \/ /\ avail[t] > 0
        /\ avail' = [avail EXCEPT ![t] = @ - 1]
        /\ Go(t, "returned")
     \/ avail[t] = 0 /\ Go(t, "register") /\ UNCHANGED avail
  /\ UNCHANGED <<reactor, driver, sent, errors>>

\* next_key counts up, so that a key names one registration only.
Key(t) == <<op[t].calls, t>>

\* register_owned under the lock; the wake follows.
register(t) ==
  /\ op[t].pc = "register"
  /\ \/ /\ closed \/ Cardinality(waits) = Capacity
        /\ Go(t, "returned") /\ UNCHANGED waits
     \/ /\ ~closed /\ Cardinality(waits) < Capacity
        /\ waits' = waits \cup {Key(t)} /\ Go(t, "wake")
  /\ UNCHANGED <<closed, closing, driver, avail, sent, errors>>

\* Mutant: the waits are dropped without selecting their waits.
Close_silent(left) ==
  /\ closed' = TRUE
  /\ waits' = {} /\ closing' = closing

\* Inner::close: the entries left are taken under the lock and selected after it.
Close(left) ==
  /\ closed' = TRUE
  /\ waits' = {} /\ closing' = closing \cup left

wake(t) ==
  /\ op[t].pc = "wake"
  /\ \/ Go(t, "parked") /\ UNCHANGED <<reactor, errors>>
     \/ /\ errors < MaxFaults /\ errors' = errors + 1
        /\ Close(waits) /\ Go(t, "leave")
  /\ UNCHANGED <<driver, avail, sent>>

\* The exact wait of a key is selected, or nothing.
Selected(e, cause) ==
  LET t == e[2] IN
  IF e = Key(t) /\ op[t].pc \in {"wake", "parked"} /\ op[t].winner = "none"
  THEN [op EXCEPT ![t].winner = cause] ELSE op

\* Cancellation or a deadline.
interrupt(t) ==
  /\ op[t].pc = "parked" /\ op[t].winner = "none"
  /\ op' = [op EXCEPT ![t].winner = "cancelled"]
  /\ UNCHANGED <<reactor, driver, avail, sent, errors>>

resume(t) ==
  /\ op[t].pc = "parked" /\ op[t].winner # "none"
  /\ Go(t, "leave")
  /\ UNCHANGED <<reactor, driver, avail, sent, errors>>

\* Where the task goes once its wait is over: a ready task tries again.
After(t) == IF op[t].winner = "ready" /\ ~closed THEN "try" ELSE "returned"

\* Mutant: the lease is dropped without its entry.
drop_lease_kept(t) ==
  /\ op[t].pc = "leave"
  /\ op' = [op EXCEPT ![t].pc = After(t), ![t].winner = "none"]
  /\ UNCHANGED <<reactor, driver, avail, sent, errors>>

\* A lease that finds its entry removes it and wakes the driver; a failed wake
\* closes the reactor.
drop_lease(t) ==
  LET left == waits \ {Key(t)} IN
  /\ op[t].pc = "leave"
  /\ op' = [op EXCEPT ![t].pc = After(t), ![t].winner = "none"]
  /\ \/ waits' = left /\ UNCHANGED <<closed, closing, errors>>
     \/ /\ Key(t) \in waits /\ errors < MaxFaults /\ errors' = errors + 1
        /\ Close(left)
  /\ UNCHANGED <<driver, avail, sent>>

select_closed(e) ==
  /\ e \in closing
  /\ closing' = closing \ {e} /\ op' = Selected(e, "stopped")
  /\ UNCHANGED <<waits, closed, driver, avail, sent, errors>>

stop ==
  /\ ~closed /\ Close(waits)
  /\ UNCHANGED <<driver, avail, sent, op, errors>>

-----------------------------------------------------------------------------
(* drive *)

\* Keys no longer waited for are deleted from the poll, new ones registered.
sync ==
  /\ driver.pc = "sync"
  /\ IF closed THEN driver' = [driver EXCEPT !.pc = "exit"]
                ELSE driver' = [driver EXCEPT !.pc = "wait", !.installed = waits]
  /\ UNCHANGED <<reactor, avail, sent, op, errors>>

\* A level-triggered wait returns the installed keys whose socket is readable,
\* a wake or a timeout; it may fail.
wait ==
  LET ready == {e \in driver.installed : avail[e[2]] > 0} IN
  /\ driver.pc = "wait"
  /\ \/ /\ driver' = [driver EXCEPT !.pc = "events", !.events = ready]
        /\ UNCHANGED <<reactor, errors>>
     \/ /\ errors < MaxFaults /\ errors' = errors + 1
        /\ Close(waits) /\ driver' = [driver EXCEPT !.pc = "exit", !.installed = {}]
  /\ UNCHANGED <<avail, sent, op>>

\* An event takes its entry, if it is still there, under the lock.
event ==
  /\ driver.pc = "events" /\ driver.taken = {}
  /\ \/ /\ driver.events = {} /\ driver' = [driver EXCEPT !.pc = "sync", !.installed = {}]
        /\ UNCHANGED waits
     \/ \E e \in driver.events :
          /\ driver' = [driver EXCEPT !.events = @ \ {e}, !.taken = {e} \cap waits]
          /\ waits' = waits \ {e}
  /\ UNCHANGED <<closed, closing, avail, sent, op, errors>>

\* Readiness then selects that exact wait, without the lock.
select_ready ==
  /\ driver.pc = "events"
  /\ \E e \in driver.taken : op' = Selected(e, "ready")
  /\ driver' = [driver EXCEPT !.taken = {}]
  /\ UNCHANGED <<reactor, avail, sent, errors>>

-----------------------------------------------------------------------------
TaskStep(t) == operation(t) \/ register(t) \/ wake(t) \/ resume(t) \/ drop_lease(t)
DriverStep == sync \/ wait \/ event \/ select_ready

Next == \/ \E t \in Readers : arrive(t) \/ call(t) \/ TaskStep(t) \/ interrupt(t)
        \/ \E e \in closing : select_closed(e)
        \/ DriverStep \/ stop

\* The driver thread, the tasks and the thread inside close are scheduled.
Fairness == /\ \A t \in Readers : WF_vars(TaskStep(t))
            /\ WF_vars(DriverStep) /\ WF_vars(\E e \in closing : select_closed(e))
Spec == Init /\ [][Next]_vars /\ Fairness

-----------------------------------------------------------------------------
(* Properties *)

\* readiness.rs:185: an entry never outlives the wait it was made for, so a
\* cancelled or woken reader frees its share of the capacity, and after a
\* stop nothing is left that cleanup would wait for.
EntriesOwned ==
  /\ \A e \in waits : e = Key(e[2]) /\ op[e[2]].pc \in {"wake", "parked", "leave"}
  /\ closed => waits = {}

\* A parked reader has data to read, or no reactor to tell it.
Due(t) == op[t].pc = "parked" /\ (avail[t] > 0 \/ closed)

\* driver.rs:84: data that arrives while the driver is between its lock and
\* its poll still wakes the reader, and a stop or a failure wakes every one;
\* readers call a bounded number of times, so all of them get away.
ReadersWake == (\E t \in Readers : Due(t)) ~> (\A t \in Readers : ~Due(t))
=============================================================================
