-------------------------------- MODULE Gate --------------------------------
(***************************************************************************)
(* The FIFO permit gate of sync/gate.rs and its users: a Semaphore, whose  *)
(* permits come back when they are dropped, a Notify, which stores at most *)
(* one, and the gate of a Condvar, which stores none.                      *)
(*                                                                         *)
(* A task waits on its resident wait cell, of which the gate sees a phase, *)
(* the stored permit, the resource and the close mark (WaitCell has the    *)
(* rest).  Offers and closes run under the queue lock up to their          *)
(* publication, and nobody acts on a claimed cell, so they are one step.   *)
(* Everything else under the lock is one step too, except that close() is  *)
(* seen half done by the path that takes a permit without the lock.  A     *)
(* task's work on a cell that nobody else can reach, because it is not     *)
(* queued, is one step with the access to shared state beside it.          *)
(***************************************************************************)
EXTENDS Naturals, FiniteSets, Sequences, SequencesExt

CONSTANTS
  Tasks,
  Outsiders,    \* callers of notify_one, on any thread
  Callers,      \* per primitive, "semaphore", "notify" or "condvar", its users
  Permits,      \* the permits of the semaphore
  Capacity,     \* wait_capacity
  MaxCalls,     \* per task: bound on its calls
  MaxSignals    \* bound on the notifications from outside

Kinds == {"semaphore", "notify", "condvar"}

ASSUME GateAssumption ==
  /\ Tasks \cap Outsiders = {}
  /\ \A k \in Kinds : Callers[k] \subseteq Tasks
  /\ Permits \in Nat \ {0} /\ Capacity \in Nat \ {0}
  /\ MaxCalls \in [Tasks -> Nat] /\ MaxSignals \in Nat

VARIABLES
  kind,         \* which primitive this gate serves
  available,    \* stored permits
  closed,       \* the gate's flag
  closing,      \* close() holds the lock and has only set the flag
  outstanding,  \* live tickets
  entries,      \* the queue of waits, by task
  pc,           \* where each task is in take and in the drops that follow,
                \* and each outsider in signal
  phase,        \* of its cell: Idle, Active, Ready, Other (cancelled or late), Closed
  permit,       \* the stored permit of its cell
  resource,     \* the selection in its cell
  shut,         \* the close mark of its cell
  calls, signals

gateVars == <<available, closed, closing, outstanding, entries>>
cellVars == <<phase, permit, resource, shut>>
vars == <<kind, gateVars, pc, cellVars, calls, signals>>

Goto(t, from, to) == pc[t] = from /\ pc' = [pc EXCEPT ![t] = to]

\* The queue lock is free.
Unlocked == ~closing

Initially == [semaphore |-> Permits, notify |-> 0, condvar |-> 0]

Maximum == [semaphore |-> Permits, notify |-> 1, condvar |-> 0]

Init ==
  /\ kind \in Kinds
  /\ available = Initially[kind]
  /\ closed = FALSE /\ closing = FALSE
  /\ outstanding = 0 /\ entries = <<>>
  /\ pc = [a \in Tasks \cup Outsiders |-> "out"]
  /\ phase = [t \in Tasks |-> "Idle"]
  /\ permit = [t \in Tasks |-> FALSE]
  /\ resource = [t \in Tasks |-> "none"]
  /\ shut = [t \in Tasks |-> FALSE]
  /\ calls = [t \in Tasks |-> 0] /\ signals = 0

-----------------------------------------------------------------------------
(* take: the path without the lock *)

\* Where a task that obtained its permit goes: it keeps a semaphore's.
Served == IF kind = "semaphore" THEN "holding" ELSE "out"

call(t) ==
  /\ kind # "condvar" /\ t \in Callers[kind] /\ calls[t] < MaxCalls[t]
  /\ Goto(t, "out", "try")
  /\ calls' = [calls EXCEPT ![t] = @ + 1]
  /\ UNCHANGED <<kind, gateVars, cellVars, signals>>

\* try_take reads the flag, ...
try_closed(t) ==
  /\ Goto(t, "try", IF closed THEN "out" ELSE "grab")
  /\ UNCHANGED <<kind, gateVars, cellVars, calls, signals>>

\* ... takes a permit by exchange or finds none, ...
try_take(t) ==
  /\ \/ /\ available > 0
        /\ Goto(t, "grab", Served)
        /\ available' = available - 1
     \/ /\ available = 0
        /\ Goto(t, "grab", "empty")
        /\ UNCHANGED available
  /\ UNCHANGED <<kind, closed, closing, outstanding, entries, cellVars, calls,
                 signals>>

\* ... and reads the flag again.  WouldBlock leads to a wait, or is the answer
\* of try_acquire and try_notified.
try_empty(t) ==
  /\ \/ Goto(t, "empty", IF closed THEN "out" ELSE "enter")
     \/ Goto(t, "empty", "out")
  /\ UNCHANGED <<kind, gateVars, cellVars, calls, signals>>

-----------------------------------------------------------------------------
(* subscribe *)

Recyclable(t) == phase[t] = "Idle" /\ ~shut[t]

has_room == outstanding < Capacity

\* The resident cell is recycled, or found active or closed: a fault.  Then a
\* ticket is reserved, or the gate is at its limit.
reserve(t) ==
  /\ IF Recyclable(t)
     THEN /\ Goto(t, "enter", IF has_room THEN "reserved" ELSE "out")
          /\ outstanding' = IF has_room THEN outstanding + 1 ELSE outstanding
          /\ permit' = [permit EXCEPT ![t] = FALSE]
          /\ resource' = [resource EXCEPT ![t] = "none"]
     ELSE Goto(t, "enter", "out") /\ UNCHANGED <<outstanding, permit, resource>>
  /\ UNCHANGED <<kind, available, closed, closing, entries, phase, shut, calls,
                 signals>>

\* Mutant: an offer to a task that has not parked yet is refused.
offerable_parked(t) == phase[t] = "Active"

\* What a resource offer finds in a cell (WaitWord::resource_offer).
offerable(t) ==
  /\ ~shut[t] /\ phase[t] \in {"Idle", "Active"}
  /\ ~permit[t] /\ resource[t] = "none"

\* An accepted offer is left for a task about to park, or wakes a parked one.
offer_resource(t, selection) ==
  /\ resource' = [resource EXCEPT ![t] = selection]
  /\ phase' = [phase EXCEPT ![t] = IF @ = "Active" THEN "Ready" ELSE @]
  /\ permit' = [permit EXCEPT ![t] = phase[t] = "Idle"]
  /\ UNCHANGED shut

\* Mutant: a waiter queues without looking for a permit stored meanwhile.
recheck_never == FALSE

\* try_take under the lock.
recheck == available > 0

subscribe(t) ==
  /\ Unlocked
  /\ \/ /\ closed
        /\ Goto(t, "reserved", "out")
        /\ outstanding' = outstanding - 1
        /\ UNCHANGED <<available, entries, cellVars>>
     \/ /\ ~closed /\ recheck
        /\ IF offerable(t)
           THEN /\ Goto(t, "reserved", "ticket")
                /\ available' = available - 1
                /\ offer_resource(t, "Permit")
                /\ UNCHANGED outstanding
           ELSE /\ Goto(t, "reserved", "out")
                /\ outstanding' = outstanding - 1
                /\ UNCHANGED <<available, cellVars>>
        /\ UNCHANGED entries
     \/ /\ ~closed /\ ~recheck
        /\ Goto(t, "reserved", "ticket")
        /\ entries' = Append(entries, t)
        /\ UNCHANGED <<available, outstanding, cellVars>>
  /\ UNCHANGED <<kind, closed, closing, calls, signals>>

-----------------------------------------------------------------------------
(* Ticket::wait *)

\* begin_resident returns at once if the cell is closed or holds a permit, and
\* if a deadline has passed; otherwise the task suspends.
begin_resident(t) ==
  /\ \/ /\ shut[t] \/ permit[t]
        /\ Goto(t, "ticket", "back")
        /\ permit' = [permit EXCEPT ![t] = FALSE]
        /\ UNCHANGED phase
     \/ /\ ~shut[t] /\ ~permit[t]
        /\ Goto(t, "ticket", "parked")
        /\ phase' = [phase EXCEPT ![t] = "Active"]
        /\ UNCHANGED permit
     \/ /\ ~shut[t] /\ ~permit[t]
        /\ Goto(t, "ticket", "drop")
        /\ UNCHANGED <<phase, permit>>
  /\ UNCHANGED <<kind, gateVars, resource, shut, calls, signals>>

\* A cancellation or an inherited deadline wins the generation.
select_cancelled(t) ==
  /\ phase[t] = "Active"
  /\ phase' = [phase EXCEPT ![t] = "Other"]
  /\ UNCHANGED <<kind, gateVars, pc, permit, resource, shut, calls, signals>>

finish(t) ==
  /\ phase[t] \in {"Ready", "Other", "Closed"}
  /\ Goto(t, "parked", IF phase[t] = "Other" THEN "drop" ELSE "back")
  /\ phase' = [phase EXCEPT ![t] = "Idle"]
  /\ UNCHANGED <<kind, gateVars, permit, resource, shut, calls, signals>>

\* A failed registration or a forced unwind retires the wait as it is.
rollback(t) ==
  /\ Goto(t, "parked", "drop")
  /\ phase' = [phase EXCEPT ![t] = "Idle"]
  /\ UNCHANGED <<kind, gateVars, permit, resource, shut, calls, signals>>

\* The task's own policy may refuse to go on after any wait.  Otherwise the
\* flag is looked at, ...
resume(t) ==
  /\ Goto(t, "back", "drop") \/ Goto(t, "back", IF closed THEN "drop" ELSE "consume")
  /\ UNCHANGED <<kind, gateVars, cellVars, calls, signals>>

\* ... then the selection: the ticket is complete, or the wait was spurious.
complete(t) ==
  /\ IF resource[t] # "none"
     THEN Goto(t, "consume", Served) /\ outstanding' = outstanding - 1
     ELSE Goto(t, "consume", "ticket") /\ UNCHANGED outstanding
  /\ resource' = [resource EXCEPT ![t] = "none"]
  /\ UNCHANGED <<kind, available, closed, closing, entries, phase, permit, shut,
                 calls, signals>>

-----------------------------------------------------------------------------
(* Drop of a ticket *)

\* Mutant: an abandoned ticket forgets that it was selected.
abandoned_unseen(t) == "dropped"

\* What a ticket that is no longer queued owes: a permit it was given.
abandoned(t) == IF resource[t] = "Permit" THEN "granted" ELSE "dropped"

drop_ticket(t) ==
  /\ Unlocked
  /\ \/ /\ Contains(entries, t)
        /\ Goto(t, "drop", "dropped")
        /\ entries' = RemoveFirst(entries, t)
        /\ UNCHANGED resource
     \/ /\ ~Contains(entries, t)
        /\ Goto(t, "drop", abandoned(t))
        /\ resource' = [resource EXCEPT ![t] = "none"]
        /\ UNCHANGED entries
  /\ UNCHANGED <<kind, available, closed, closing, outstanding, phase, permit,
                 shut, calls, signals>>

reset_closed_gate(t) == shut' = [shut EXCEPT ![t] = FALSE]

\* The mark is only looked at once the gate is seen closed; then the ticket is
\* given back, and the permit, if there is one, signalled.
drop_release(t) ==
  /\ Goto(t, "dropped", "out") \/ Goto(t, "granted", "signal")
  /\ \/ closed /\ reset_closed_gate(t)
     \/ ~closed /\ UNCHANGED shut
  /\ outstanding' = outstanding - 1
  /\ UNCHANGED <<kind, available, closed, closing, entries, phase, permit,
                 resource, calls, signals>>

-----------------------------------------------------------------------------
(* signal, broadcast, close *)

store_permit == available' = IF available < Maximum[kind] THEN available + 1 ELSE available

\* One round under the lock.  An entry that refuses the permit is gone from
\* the queue, and the loop goes on.
SignalRound(ends) ==
  /\ Unlocked
  /\ \/ closed /\ ends /\ UNCHANGED <<available, entries, cellVars>>
     \/ /\ ~closed /\ entries = <<>> /\ ends
        /\ store_permit
        /\ UNCHANGED <<entries, cellVars>>
     \/ /\ ~closed /\ entries # <<>>
        /\ ends = offerable(Head(entries))
        /\ IF ends THEN offer_resource(Head(entries), "Permit") ELSE UNCHANGED cellVars
        /\ entries' = Tail(entries)
        /\ UNCHANGED available

signal(a) ==
  /\ \E ends \in BOOLEAN :
       SignalRound(ends) /\ Goto(a, "signal", IF ends THEN "out" ELSE "signal")
  /\ UNCHANGED <<kind, closed, closing, outstanding, calls, signals>>

drop_permit(t) ==
  /\ Goto(t, "holding", "signal")
  /\ UNCHANGED <<kind, gateVars, cellVars, calls, signals>>

notify_one(o) ==
  /\ kind # "semaphore" /\ signals < MaxSignals
  /\ Goto(o, "out", "signal")
  /\ signals' = signals + 1
  /\ UNCHANGED <<kind, gateVars, cellVars, calls>>

broadcast ==
  /\ kind # "semaphore" /\ signals < MaxSignals /\ Unlocked
  /\ LET woken == {t \in ToSet(entries) : offerable(t)} IN
     /\ resource' = [t \in Tasks |-> IF t \in woken THEN "Broadcast" ELSE resource[t]]
     /\ permit' = [t \in Tasks |-> IF t \in woken THEN phase[t] = "Idle" ELSE permit[t]]
     /\ phase' = [t \in Tasks |->
                    IF t \in woken /\ phase[t] = "Active" THEN "Ready" ELSE phase[t]]
  /\ entries' = <<>>
  /\ signals' = signals + 1
  /\ UNCHANGED <<kind, available, closed, closing, outstanding, pc, shut, calls>>

close_flag ==
  /\ ~closed
  /\ closed' = TRUE /\ closing' = TRUE
  /\ UNCHANGED <<kind, available, outstanding, entries, pc, cellVars, calls, signals>>

\* The rest of close: the queued cells are marked, and woken if they wait.
close_drain ==
  /\ closing
  /\ closing' = FALSE
  /\ available' = 0
  /\ shut' = [t \in Tasks |-> shut[t] \/ Contains(entries, t)]
  /\ permit' = [t \in Tasks |-> permit[t] /\ ~Contains(entries, t)]
  /\ phase' = [t \in Tasks |->
                 IF Contains(entries, t) /\ phase[t] = "Active" THEN "Closed" ELSE phase[t]]
  /\ entries' = <<>>
  /\ UNCHANGED <<kind, closed, outstanding, pc, resource, calls, signals>>

-----------------------------------------------------------------------------
\* What a task or an outsider does on its own account once it has begun.
Proceed(t) ==
  \/ try_closed(t) \/ try_take(t) \/ try_empty(t)
  \/ reserve(t) \/ subscribe(t)
  \/ begin_resident(t) \/ finish(t) \/ resume(t) \/ complete(t)
  \/ drop_ticket(t) \/ drop_release(t) \/ drop_permit(t)
  \/ signal(t)

TaskStep(t) == Proceed(t) \/ call(t) \/ select_cancelled(t) \/ rollback(t)

Others ==
  \/ \E o \in Outsiders : notify_one(o) \/ signal(o)
  \/ broadcast \/ close_flag \/ close_drain

Next == Others \/ \E t \in Tasks : TaskStep(t)

Spec == Init /\ [][Next]_vars

\* Tasks are scheduled and permits are dropped; a caller inside signal or close
\* finishes; a lock free again and again is obtained.  Nobody need call,
\* notify, close, be cancelled or be unwound.
FairSpec ==
  /\ Spec
  /\ \A t \in Tasks : WF_vars(Proceed(t))
  /\ \A o \in Outsiders : WF_vars(signal(o))
  /\ WF_vars(close_drain)

-----------------------------------------------------------------------------
(* Properties *)

Places == {"out", "try", "grab", "empty", "enter", "reserved", "ticket", "parked",
           "back", "consume", "holding", "drop", "dropped", "granted", "signal"}

\* No more permits are stored than the primitive has and no more than
\* wait_capacity tickets are outstanding.
TypeOK ==
  /\ kind \in Kinds
  /\ available \in 0..Maximum[kind]
  /\ closed \in BOOLEAN /\ closing \in BOOLEAN
  /\ outstanding \in 0..Capacity
  /\ entries \in Seq(Tasks)
  /\ pc \in [Tasks \cup Outsiders -> Places]
  /\ phase \in [Tasks -> {"Idle", "Active", "Ready", "Other", "Closed"}]
  /\ permit \in [Tasks -> BOOLEAN]
  /\ resource \in [Tasks -> {"none", "Permit", "Broadcast"}]
  /\ shut \in [Tasks -> BOOLEAN]
  /\ (\A t \in Tasks : calls[t] \in 0..MaxCalls[t]) /\ signals \in 0..MaxSignals

\* Who has a permit of the semaphore in hand, granted or on its way back.
Bearers ==
  {t \in Tasks : \/ resource[t] = "Permit"
                 \/ pc[t] \in {"holding", "granted", "signal"}}

\* A semaphore neither loses nor makes up a permit, through grants to waits
\* that are about to park, parked, cancelled or unwinding, and no gate stores
\* a permit beside a queued waiter.
PermitsConserved ==
  ~closed =>
    /\ kind = "semaphore" => available + Cardinality(Bearers) = Permits
    /\ entries # <<>> => available = 0

\* A waiter leaves the queue selected, and nobody before it stays behind; or
\* because it has given up; or because the gate is closed.
ServedInOrder ==
  [][\A i \in DOMAIN entries : LET t == entries[i] IN
       ~Contains(entries', t) =>
         \/ /\ resource'[t] # "none"
            /\ \A k \in 1..(i - 1) : ~Contains(entries', entries[k])
         \/ phase[t] = "Other" \/ pc[t] = "drop"
         \/ closed]_vars

\* Every acquisition of a semaphore returns, and so does every wait on a gate
\* that is closed.
TakeReturns ==
  \A t \in Tasks :
    pc[t] \notin {"out", "holding"} /\ (kind = "semaphore" \/ closed)
      ~> pc[t] \in {"out", "holding"}
=============================================================================
