------------------------------- MODULE Mutex -------------------------------
(***************************************************************************)
(* vthread::sync::Mutex: the ExclusiveCell state, the linear Ownership     *)
(* capability and its one-entry slot, the bounded FIFO MutexQueue, and the *)
(* Ticket whose drop must neither lose nor duplicate a granted ownership.  *)
(*                                                                         *)
(* Each task waits on its resident wait cell, seen here as WaitCell leaves *)
(* it to a resource queue: idle, active, claimed for Ready or selected,    *)
(* with its permit and resource bits.  A critical section of the queue's   *)
(* SpinMutex is one action: nothing outside it sees its middle.            *)
(***************************************************************************)
EXTENDS Naturals, FiniteSets, Sequences, SequencesExt

CONSTANTS
  Tasks,
  Capacity,       \* wait_capacity
  MaxCalls,       \* bound on the lock calls of each task
  Nobody

ASSUME MutexAssumption ==
  /\ IsFiniteSet(Tasks)
  /\ Capacity \in Nat \ {0}
  /\ MaxCalls \in Nat
  /\ Nobody \notin Tasks

VARIABLES
  state,          \* ExclusiveCell.state: 0, LOCKED, LOCKED | HAS_WAITERS
  slot,           \* MutexQueue.handoff holds the capability
  entries,        \* MutexQueue.entries
  outstanding,    \* MutexQueue.outstanding
  pc,             \* each task's place in lock, drop of a ticket or a guard
  phase,          \* its cell: phase (TimedOut, Cancelled, Closed: one cause)
  permit, resource,
  selected,       \* Ticket.selected
  target,         \* the recipient whose wake the task must still publish
  calls           \* lock calls made

cellVars == <<phase, permit, resource>>
vars == <<state, slot, entries, outstanding, pc, cellVars, selected, target, calls>>

Goto(t, from, to) == pc[t] = from /\ pc' = [pc EXCEPT ![t] = to]

Init ==
  /\ state = "free" /\ slot = FALSE
  /\ entries = <<>> /\ outstanding = 0
  /\ pc = [t \in Tasks |-> "out"]
  /\ phase = [t \in Tasks |-> "Idle"]
  /\ permit = [t \in Tasks |-> FALSE]
  /\ resource = [t \in Tasks |-> FALSE]
  /\ selected = [t \in Tasks |-> FALSE]
  /\ target = [t \in Tasks |-> Nobody]
  /\ calls = [t \in Tasks |-> 0]

-----------------------------------------------------------------------------
(* lock *)

try_lock(t) ==
  /\ calls[t] < MaxCalls
  /\ state = "free"
  /\ Goto(t, "out", "holding")
  /\ state' = "locked"
  /\ calls' = [calls EXCEPT ![t] = @ + 1]
  /\ UNCHANGED <<slot, entries, outstanding, cellVars, selected, target>>

recycle(t) ==
  /\ permit' = [permit EXCEPT ![t] = FALSE]
  /\ resource' = [resource EXCEPT ![t] = FALSE]

\* The lock is taken: enter a wait with the task's recycled cell.
Enter(t) ==
  /\ calls[t] < MaxCalls
  /\ state # "free"
  /\ Goto(t, "out", "enter")
  /\ recycle(t)
  /\ calls' = [calls EXCEPT ![t] = @ + 1]
  /\ UNCHANGED <<state, slot, entries, outstanding, phase, selected, target>>

has_room == outstanding < Capacity

reserve(t) ==
  /\ \/ /\ has_room
        /\ Goto(t, "enter", "reserved")
        /\ outstanding' = outstanding + 1
     \/ /\ ~has_room
        /\ Goto(t, "enter", "out")
        /\ UNCHANGED outstanding
  /\ UNCHANGED <<state, slot, entries, cellVars, selected, target, calls>>

\* Mutant: a waiter does not mark a lock that is merely taken.
queue_state_unmarked == state

\* queue_or_lock of a lock that is taken.
queue_state == "waiters"

\* subscribe, inside the queue lock.
subscribe(t) ==
  /\ \/ /\ state = "free"
        /\ Goto(t, "reserved", "acquired")
        /\ state' = "locked"
        /\ UNCHANGED <<entries, selected>>
     \/ /\ state # "free"
        /\ Goto(t, "reserved", "ticket")
        /\ state' = queue_state
        /\ entries' = Append(entries, t)
        /\ selected' = [selected EXCEPT ![t] = FALSE]
  /\ UNCHANGED <<slot, outstanding, cellVars, target, calls>>

\* MutexQueue::retire after the acquisition, or in Ticket::complete.
retire(t) ==
  /\ Goto(t, "acquired", "holding") \/ Goto(t, "complete", "holding")
  /\ outstanding' = outstanding - 1
  /\ UNCHANGED <<state, slot, entries, cellVars, selected, target, calls>>

\* begin_resident: a stored grant is consumed at once, an elapsed deadline or
\* a failed registration gives up, otherwise the task suspends.
begin_resident(t) ==
  /\ \/ /\ permit[t]
        /\ Goto(t, "ticket", "check")
        /\ permit' = [permit EXCEPT ![t] = FALSE]
        /\ selected' = [selected EXCEPT ![t] = TRUE]
        /\ UNCHANGED phase
     \/ /\ ~permit[t]
        /\ Goto(t, "ticket", "parked")
        /\ phase' = [phase EXCEPT ![t] = "Active"]
        /\ UNCHANGED <<permit, selected>>
     \/ /\ ~permit[t]
        /\ Goto(t, "ticket", "drop")
        /\ UNCHANGED <<phase, permit, selected>>
  /\ UNCHANGED <<state, slot, entries, outstanding, resource, target, calls>>

\* A cancellation or an inherited deadline wins the generation.
select_cancelled(t) ==
  /\ phase[t] = "Active"
  /\ phase' = [phase EXCEPT ![t] = "SelectedOther"]
  /\ UNCHANGED <<state, slot, entries, outstanding, pc, permit, resource,
                 selected, target, calls>>

\* finish_permit_ready and park_permit.
finish_permit_ready(t) ==
  /\ \/ /\ phase[t] = "SelectedReady"
        /\ Goto(t, "parked", "check")
        /\ resource' = [resource EXCEPT ![t] = FALSE]
        /\ selected' = [selected EXCEPT ![t] = TRUE]
     \/ /\ phase[t] = "SelectedOther"
        /\ Goto(t, "parked", "drop")
        /\ UNCHANGED <<resource, selected>>
  /\ phase' = [phase EXCEPT ![t] = "Idle"]
  /\ UNCHANGED <<state, slot, entries, outstanding, permit, target, calls>>

\* The wait is rolled back, by its failed registration or by the forced unwind
\* of its task; a publisher at work is waited for.
rollback(t) ==
  /\ phase[t] # "ClaimReady"
  /\ Goto(t, "parked", "drop")
  /\ phase' = [phase EXCEPT ![t] = "Idle"]
  /\ UNCHANGED <<state, slot, entries, outstanding, permit, resource, selected,
                 target, calls>>

\* The task was granted the lock; its context may still refuse to go on.
check(t) ==
  /\ Goto(t, "check", "take") \/ Goto(t, "check", "drop")
  /\ UNCHANGED <<state, slot, entries, outstanding, cellVars, selected, target,
                 calls>>

\* OwnershipSlot::take by the grantee: in Ticket::wait, in its drop, or by the
\* releaser whose offer was rejected.
take(t) ==
  /\ slot
  /\ \/ Goto(t, "take", "complete")
     \/ Goto(t, "orphan", "releasing")
     \/ Goto(t, "rejected", "releasing")
  /\ slot' = FALSE
  /\ UNCHANGED <<state, entries, outstanding, cellVars, selected, target, calls>>

-----------------------------------------------------------------------------
(* Drop of a MutexGuard *)

try_release(t) ==
  /\ \/ /\ state = "locked"
        /\ Goto(t, "holding", "out")
        /\ state' = "free"
     \/ /\ state # "locked"
        /\ Goto(t, "holding", "releasing")
        /\ UNCHANGED state
  /\ UNCHANGED <<slot, entries, outstanding, cellVars, selected, target, calls>>

unlock(t) ==
  /\ entries = <<>>
  /\ Goto(t, "releasing", "out")
  /\ state' = "free"
  /\ UNCHANGED <<slot, entries, outstanding, cellVars, selected, target, calls>>

\* Mutant: a waiter that has not parked yet is passed over.
resource_offer_parked(u) == phase[u] = "Active" /\ ~permit[u] /\ ~resource[u]

\* WaitWord::resource_offer
resource_offer(u) ==
  phase[u] \in {"Idle", "Active"} /\ ~permit[u] /\ ~resource[u]

set_waiters == IF Len(entries) = 1 THEN "locked" ELSE "waiters"

\* One round of release_ownership inside the queue lock: the capability is in
\* the slot before the recipient can learn of it.
release_ownership(t) ==
  LET u == Head(entries) IN
  /\ entries # <<>>
  /\ \/ /\ resource_offer(u) /\ phase[u] = "Active"
        /\ Goto(t, "releasing", "publish")
        /\ phase' = [phase EXCEPT ![u] = "ClaimReady"]
        /\ resource' = [resource EXCEPT ![u] = TRUE]
        /\ target' = [target EXCEPT ![t] = u]
        /\ UNCHANGED permit
     \/ /\ resource_offer(u) /\ phase[u] # "Active"
        /\ Goto(t, "releasing", "out")
        /\ resource' = [resource EXCEPT ![u] = TRUE]
        /\ permit' = [permit EXCEPT ![u] = TRUE]
        /\ UNCHANGED <<phase, target>>
     \/ /\ ~resource_offer(u)
        /\ Goto(t, "releasing", "rejected")
        /\ UNCHANGED <<cellVars, target>>
  /\ entries' = Tail(entries)
  /\ state' = set_waiters
  /\ slot' = TRUE
  /\ UNCHANGED <<outstanding, selected, calls>>

\* ResourcePublication::publish: the recipient's wake, outside the queue lock.
publish(t) ==
  /\ Goto(t, "publish", "out")
  /\ phase' = [phase EXCEPT ![target[t]] = "SelectedReady"]
  /\ target' = [target EXCEPT ![t] = Nobody]
  /\ UNCHANGED <<state, slot, entries, outstanding, permit, resource, selected,
                 calls>>

-----------------------------------------------------------------------------
(* Drop of a Ticket that was not completed *)

drop_ticket(t) ==
  /\ Goto(t, "drop", IF t \in ToSet(entries) THEN "queued" ELSE "dequeued")
  /\ entries' = RemoveFirst(entries, t)
  /\ UNCHANGED <<state, slot, outstanding, cellVars, selected, target, calls>>

drop_retire(t) ==
  /\ Goto(t, "queued", "out") \/ Goto(t, "dequeued", "abandon")
  /\ outstanding' = outstanding - 1
  /\ UNCHANGED <<state, slot, entries, cellVars, selected, target, calls>>

granted(t) == selected[t] \/ resource[t]

\* take_resource, unless the ticket knows already that it was granted.
take_resource(t) ==
  /\ Goto(t, "abandon", IF granted(t) THEN "orphan" ELSE "out")
  /\ resource' = IF selected[t] THEN resource ELSE [resource EXCEPT ![t] = FALSE]
  /\ UNCHANGED <<state, slot, entries, outstanding, phase, permit, selected,
                 target, calls>>

-----------------------------------------------------------------------------
\* What a task does on its own account once it has called lock.
Proceed(t) ==
  \/ reserve(t) \/ subscribe(t) \/ retire(t)
  \/ begin_resident(t) \/ finish_permit_ready(t) \/ check(t) \/ take(t)
  \/ try_release(t) \/ unlock(t) \/ release_ownership(t) \/ publish(t)
  \/ drop_ticket(t) \/ drop_retire(t) \/ take_resource(t)

Next ==
  \E t \in Tasks :
    \/ try_lock(t) \/ Enter(t) \/ Proceed(t)
    \/ select_cancelled(t) \/ rollback(t)

Spec == Init /\ [][Next]_vars

\* Tasks are scheduled and guards are dropped; nobody need call lock, be
\* cancelled or be unwound.
FairSpec == Spec /\ \A t \in Tasks : WF_vars(Proceed(t))

-----------------------------------------------------------------------------
(* Properties *)

Places == {"out", "enter", "reserved", "acquired", "ticket", "parked", "check",
           "take", "complete", "holding", "releasing", "rejected", "publish",
           "drop", "queued", "dequeued", "abandon", "orphan"}

\* The lock word has no marker without an owner, and at most wait_capacity
\* tickets are outstanding.
TypeOK ==
  /\ state \in {"free", "locked", "waiters"}
  /\ slot \in BOOLEAN
  /\ entries \in Seq(Tasks)
  /\ outstanding \in 0..Capacity
  /\ pc \in [Tasks -> Places]
  /\ phase \in [Tasks -> {"Idle", "Active", "ClaimReady", "SelectedReady",
                          "SelectedOther"}]
  /\ permit \in [Tasks -> BOOLEAN]
  /\ resource \in [Tasks -> BOOLEAN]
  /\ selected \in [Tasks -> BOOLEAN]
  /\ target \in [Tasks -> Tasks \cup {Nobody}]
  /\ calls \in [Tasks -> 0..MaxCalls]

\* The task was picked by a release and has not taken the slot yet.
Grantee(t) ==
  \/ pc[t] \in {"check", "take", "orphan"}
  \/ pc[t] \in {"ticket", "parked"} /\ resource[t]
  \/ pc[t] \in {"drop", "dequeued", "abandon"} /\ granted(t)

\* The task holds the capability, in its hands or in the slot.
Owns(t) ==
  \/ pc[t] \in {"acquired", "complete", "holding", "releasing", "rejected"}
  \/ Grantee(t)

\* Every lock call returns, with the lock or with an error.
LockReturns ==
  \A t \in Tasks : pc[t] \notin {"out", "holding"} ~> pc[t] \in {"out", "holding"}

GivenUp == {t \in ToSet(entries) : phase[t] = "SelectedOther" \/ pc[t] = "drop"}

Lock == INSTANCE FairLock WITH
  holders <- {t \in Tasks : Owns(t)}, line <- entries, quit <- GivenUp

\* The mutex is a first-come-first-served lock with one holder at most, in its
\* hands or in the slot, that nobody overtakes, through handoffs to waits that
\* are parked, about to park, cancelled or unwinding.
ImplementsFairLock == Lock!Fair
=============================================================================
