# A TLA+ verification of vthread

vthread runs virtual threads (stackful tasks) on a fixed set of *carrier* OS
threads. A task that has to wait parks its stack; whoever completes the wait
routes a notice to the task's carrier, which resumes it. This directory models
the protocols on which that rests, checks them with TLC on small instances and
proves most of their safety properties with TLAPS for instances of every size.

`PROJECT.json` maps every definition to the lines it models, and lists the
runs, the mutants that show each property can fail, the hazards and the
theorems. Paths below are relative to `crates/vthread/src` unless they name
another crate.

## 1. Inventory

| Part | State | Operations | Interacts with | Correct when |
|---|---|---|---|---|
| **Wait cells, parking** (`wait*.rs`, `parking*.rs`) | one 64-bit word per cell: phase, cause, permit, closed, resource, target selector, generation; beside it the target (task, route, hub) | `begin`, `notify`, `cancel`, `close`, `offer_resource`, `select_timeout`, publish, `finish`, `recycle`, retire | every primitive; the kernel's parked map | one winner per generation, routed to its owner, no wake or permit lost |
| **Wake queue** (`wake_queue_core.rs`, `wait_hub.rs`) | intrusive list of route slots, SLEEPING flag in its head, owner's batch | `push`, `pop`, `discard_notice`, `arm_wait`, `disarm_wait` | selectors push, the carrier pops | a FIFO; sleep is announced over an empty queue only |
| **Carrier loop** (`carrier.rs`, `kernel_*.rs`, `inbox.rs`, `signal.rs`) | ready, parked, timers, deferred wakes and aborts, start inbox, signal epoch and waiters | drive, receive, tick, sleep; `push`, `abort`, `stop`, `notify` from outside | all of the above | never sleeps past work, admits starts, drains aborts, halts clean |
| **Mutex** (`sync/mutex*.rs`, sync-core `exclusive.rs`) | lock word, ownership slot, FIFO of waits, ticket counter | `lock`, `try_lock`, guard drop, ticket drop | wait cells by resource offers | linear ownership, FIFO, every call returns |
| **Gate: semaphore, notify, condvar** (`sync/gate.rs` ...) | permits, closed flag, FIFO of waits | `take`, `signal`, `broadcast`, `close` | wait cells | permits conserved, nobody queued beside a stored permit |
| **Channel** (`channel/*`) | values, two lines of waits, endpoint counts | `send`, `recv`, `close`, clone and drop of endpoints | wait cells | no stuck front, every call returns |
| **Scopes: admission, placement, completion, join** (`control_*.rs`, `completion.rs`, `join*.rs`, `runtime_scope.rs`, `supervisor.rs`) | records, carrier loads, DONE/WAITER word, waiter map, admitted/retired counters, stall watch | reserve, push, release; complete, subscribe, batch, drain; begin, abort, wait, finish | inboxes, wait cells, kernel | limits kept, every joiner released, a scope ends after its last task with its failures reported |
| **Cancellation** (`cancellation*.rs`, `task_context*.rs`) | token graph with relays, domain epoch, wait slot per node | insert, cancel, drop, normalise; checkpoint, register, unregister | wait cells | a cancel reaches every descendant and nobody else |
| **Kernel** (`kernel*.rs`, `task_slab.rs`, `parked_tasks.rs`, `timer.rs`) | slabs, ready lanes, parked map, timers, deferred wakes and aborts | phases of the drive loop, dispatch, park, complete, abort | everything on one carrier | a live task is in one place; a halt leaves nothing |
| **Local scopes** (`local_*.rs`, `kernel_revoked.rs`, vthread-stack `lease.rs`, `scoped.rs`) | starts and wakes that never leave a carrier, leases | spawn, join, drain, exit, sweep | kernel | no child runs outside its scope |
| **Ready queue** (`ready_queue*.rs`) | two lanes with a wake streak | push, select, remove | kernel | bounded overtaking |
| **Blocking pool** (`blocking/*`) | queued, running, completed, discarding jobs | submit, run, commit, abandon, stop, fail | wait cells, shutdown | capacity conserved, results committed, every job reclaimed |
| **Readiness** (`readiness*`, `net/io.rs`) | entries, the poll's registrations | register, ready, drop, stop, fail | wait cells, shutdown | no lost readiness, no entry without a wait |
| **Lifecycle** (`control.rs`, `runtime*.rs`, `lifecycle_*.rs`, `join_slot.rs`, `carrier.rs`) | shutdown phase, thread handles, failures, process slots | build, request_stop, join, claim, confirm, release | everything | ordered stop, an honest terminal phase, callers return |
| Diagnostics, errors, config, sockets, assembly, lab, benchmarks, scripts | - | - | - | - |

What is hard here: a wait is decided by a race of up to five kinds of selectors
on other threads; the notice of a decision is queued *before* the decision is
published, so its owner can be early; a scope can be aborted, or a runtime
stopped, between those two steps; a carrier falls asleep while others post
work under three different conditions (epoch, list flag, start count); the
mutex passes ownership to waits that may at that moment be cancelled; a cancel
acts on a wait slot it read before the next task reused it; completions are
counted in batches after their tasks are gone, while owners read the counters;
a notice names a slot that may meanwhile belong to another task; and a stop can
miss services that are not published yet. The hazards of `PROJECT.json` place each of these at its line.

## 2. Modules

```
module (extends, or composes)            run              proofs in
WaitCell ------------- MCWaitCell        parker, waits,   WaitCellProofs
                                         live
CancelTask, WakeQueue, CancelGraph
               \------ Signals
                 \---- MCSignals         signals          CancelTaskProofs
                                         WakeQueue refines NoticeFifo
CarrierSleep - CarrierThread
                 \---- MCCarrierSleep    sleep, admission ServicesProofs
ReadyQueue --- Kernel
    \-- ReadyOrder -- Scheduler
                 \---- MCKernel          kernel           KernelProofs
Mutex ---------------- MCMutex           mutex            SyncProofs
                                         Mutex refines FairLock
Gate --------- Condvar
                 \---- MCGate            gate             GateProofs
Channel ------ Channels
                 \---- MCChannel         channel          SyncProofs
Scope ---------------- MCScope           owners           ScopeProofs
Blocking, Readiness
Lifecycle ---- Services
                 \---- MCServices        services         ServicesProofs

LineLemmas: lines of waiters, sets and recursive functions, for the proofs
```

`CarrierThread`, `Channels`, `Scheduler`, `Services` and `Signals` only instantiate a
component under names that let it stand beside others, and name its properties;
runs and proofs both extend them, and so speak of the same definitions.

The modules compose by contract. `CarrierSleep` uses the wake queue as the
FIFO with an alarm that `WakeQueue` is shown to implement, and a wait as its
owner's view of the word that `WaitCell` studies (unclaimed, claimed,
published, retired, plus the completion interest). `Kernel` has the same view
of a wait and owns the queues between which tasks move; `CarrierSleep` has the
reads and sleeps between which work arrives. `Mutex`, `Gate` and `Channel` use
the wait cell by its resource or notification interface and its resident-cell
rules, `Scope`, `Blocking` and `Readiness` by its selection: the first cause
wins. `Condvar` extends `Gate` and takes the mutex as the fair lock that
`Mutex` is shown to be. `Lifecycle` takes from `Kernel` that a stopped carrier
halts clean and from `Blocking` that stopped workers leave.

Common abstractions: atomics are sequentially consistent; weaker orderings of
the code (acquire/release) are not modelled. A compare-exchange loop whose
decision depends on the loaded word alone is one step at the exchange that
succeeds; where the code reads something else in between (`begin`,
`WakeQueue::push`, `arm_wait`) the load and the exchange are separate steps. A
std or spin mutex section that calls nothing that blocks is one step. Tasks,
cells, hubs and scopes are model values; errors are "the call returns".

### WaitCell

`word[c]` is the packed `WaitWord` as a record; `boundTask`, `primaryHub` and
`fallbackHub` are the target beside it, which is *not* covered by the word's
atomicity. `tpc` follows a task through `park_wait`: load, permit, cached
target, activate or bind, register, parked, resumed. `spc` follows a selector:
claim, route (enqueue the notice), publish, and, if the owner left its
interest in the meantime, observe and signal. `inbox`, `local`, `deferred`,
`recheck`, `signalled`, `aborting` are the kernel's side. `busy[h]` names the
task or selector occupying the carrier's OS thread, so that its kernel does
not run in the middle of a call. Actions carry the names of the functions they
model. `stored` is a history variable: whether the permit bit stands for a
real permit.

### WakeQueue and NoticeFifo

Slots are indexed by route; `head` is the tagged word of index and SLEEPING
flag. Push is write-slot, load-head, link-and-exchange with retries; pop is
probe, swap, reverse step by step, take, free; `discard_notice` counts
`pending`, pops that many, and pushes back what it retained. NoticeFifo keeps
what was ever `sent`, the `queue`, the notice `got` for the scheduler, and of a
discard the notice `sought`, how many of the notices `ahead` it must still see,
those `retained` and whether it is `returning` them, beside `armed` and
`alarm`. A notice is sent once. Outside a discard a notice can only leave the
queue to the scheduler (`Deliver`); inside one, `Sift` drops the sought notice
and keeps every other, which `PutBack` returns in order, and none is left when
it is over (`End`). The refinement mapping takes `queue` to the notices of
`Linked`, and `armed` to the SLEEPING flag: linking is `Send` or `PutBack`,
taking `Deliver` or `Sift`, and swapping and reversing stutter. So a list that
lost, repeated or reordered a notice, or a discard that cost a neighbour, would
not refine it. `Chain(i)` is the sequence of slots linked from
slot `i`; `Linked` joins three of them, the batch still to reverse
(`Newest`, backwards), the batch in order (`Oldest`) and the stack at `head`
(backwards).

### CarrierSleep

`kpc` is the carrier's place in `drive`; each condition read outside a lock is
a step of its own, because other threads act between them (`observed` version,
stop flag, abort map, receive, ticks, idle check, waiter registration, gate,
epoch check, `arm_wait`, start check, sleep). `pc[th]` follows an outside
thread through a submit, a wake (claim, link, notify, publish, bump), an abort
or a stop. The gate mutex is held exactly while `kpc \in GateHeld`. Constants
`ReadyTarget` and `DispatchBound` stand for 64 and 65536.

### Mutex and FairLock

`state` is the lock word, `slot` the OwnershipSlot, `entries` the queue of
waits, `outstanding` the ticket counter; `phase`, `permit` and `resource` are
the parts of each task's resident cell the mutex uses. Cancellation and
timeout select a parked wait at any time, unwinding drops a ticket at any
place where the code may unwind. FairLock has a holder, a line and the members
of the line that gave up. The mapping takes `holder` to the task that has the
capability in its hands, in the slot or granted in its cell, and `quit` to the
queued waits already decided otherwise or being dropped. The abstract `Pass`
gives the lock to the first of the line that has not given up, so overtaking
or skipping a live waiter is a violation.

### Gate and Condvar

`available`, `closed`, `outstanding` and `entries` are the fields of `Gate`;
`kind` chooses the primitive, that is the initial and the greatest number of
stored permits. `pc[t]` follows a task through `take`: the path without the
lock (flag, exchange, flag), reservation, registration, the wait, and the
completion or the drop of the ticket, which may go on to `signal`. `phase`,
`permit`, `resource` and `shut` are what the gate sees of each task's resident
cell. `close` is two steps, since the flag is read outside the lock; all other
critical sections are one. A permit offered to a wait that is cancelled before
it resumes is visible as `resource[t] = "Permit"` until the ticket's drop
signals it on.

Condvar adds the `owner` of the predicate mutex, the predicate, and the stage
of each task in the loop "lock, look, wait". `wait(t)` is any step of the gate
on behalf of `t`, with the guard dropped between registration and suspension.
A notifier changes the predicate under the mutex and calls `notify_all` before
or after it unlocks; others notify without reason.

### Channel

`values`, `endpoints`, `closed` and `waits` are the `State` under the metadata
mutex; a pass of `send` or `recv` is one step. `pc[t]` follows a call: pass,
enqueue, park, resume, turn, drop of the ticket. A value is named after its
sender. `phase` and `permit` are the waiter's resident cell; a notification
that comes before the park is a permit.

### CancelGraph and CancelTask

CancelGraph has `graph`, the entries with their parents, children and
signatures, `live` tokens, `retired` ones waiting for their batch, `due` ones of
a batch being removed, and the pending work of `normalize` (`known`, `dirty`).
A removed node with several parents and children becomes a relay, narrower ones
are spliced out, and relays of equal signature (the set of tokens above them)
are merged. A removal or a pass of normalize is a step, and no operation starts
while any is due, since all happens under the domain lock. `ancestors` and
`requested` are history: the true ancestry and the cancels made. Id sets,
parent sets and signatures are plain sets.

CancelTask follows executions reused by successive tasks, a domain epoch, the
flag of each token, the wait slot of each execution (primary with its epoch,
or the fallback map) and cancellers that mark under the lock and select
waits after it. Shielded waits register nowhere and are left out.

### Scope

Owners are OS threads with one scope each; tasks are identities. The steps of
`Shared.state` sections are atomic. `completions[c]` and `publishing[c]` are
the carrier's batch before and inside `publish_completions`; `quiet` holds the
waiters that read the version of `changed` and were not notified since; `watch`
is the stall bookkeeping of `wait_until`; its quiescence test looks at any
subset of the notices, since one that a carrier has taken, or that is not yet
in a hub, is not among the pending ones. `prepare_completion` and the swap of
DONE are one step. `unobserved` and `finish_scope` are two lock sections; a
supervisor takes the counts of `scope_report` in the first, so its `report` is
empty. A completion's waiter map has room for every task, so its refusal cannot
occur.

`borrows[t]` is the parent in whose LocalScope a task runs. `spawn` looks at
the parent's policy, `reserve_local` then admits the child to the parent's
scope without asking whether that is still open, on the parent's carrier and
without a probe; `push` queues it with the carrier's local starts or, when it
gets no stack, undoes the admission. The parent completes only after it has
drained its children, by waits that a cancellation does not interrupt
(`Shielded`), and when its own stack is discarded the local scope takes the
outcomes of the children left. A completed task is added to its carrier's batch
and `queue_completion` flushes it: alone after an abort, when the batch is full
or may not be deferred, and when nothing else is ready.
A configuration chosen by `Init` fixes the stall policy, the carriers, which
owners take part and what their tasks do.

### Kernel, ReadyQueue and ReadyOrder

`at` is the phase of one carrier's loop, and other threads act between phases.
Keys are pairs of kind and slot index, reused through the free list as in
`TaskSlab`. `Signalled` is what a push or a wake does to the carrier's signal:
the first packet of an inbox changes its epoch, while other packets and wakes
notify a carrier only when it waits, which it does at the top of the loop; that
it never sleeps past them is `CarrierSleep`. A wait is active, claimed (its notice queued) or selected. The
claim and the enqueue of a publisher are one step here; WaitCell separates
them. `abort` is called with no task in flight, or with one of the scope it
aborts, so the branch that keeps another flight is absent. `receive` takes the
whole visible inbox (its limits are in CarrierSleep), and any packet may lack a
stack. A local scope can be left with unstarted children only when a panic
keeps it from draining, and the code then revokes them; `sweep_revoked` finds
them. The branch of `dispatch` for a revoked lease is reached when an abort
that is deferred has taken revoked starts into the slab without refreshing
`has_borrowed`. A deadline passes when the carrier looks, or does not.

ReadyQueue has the operations of the queue as operators on a record, used by
both Kernel and ReadyOrder, which lets anything arrive in either lane and counts,
for each entry, the older entries it found and the selections it has seen.

### Blocking, Readiness and Lifecycle

Blocking: `queue`, `completed`, `running`, `discarding` are the pool's state,
`worker[w]` is where a worker is with its job, `output[c]` the result slot,
`winner[c]` what decided the caller's wait. The abandoned flag is set before
the lock is taken, as in `Lease::drop`. A caught panic of a body is a result.

Readiness: `waits` are the entries, `driver` its place between lock, poll and
events with what the poll has installed, `op[t]` a reader's call. The poll
reports a source that has data when it is asked; it waits 100 ms at most, so
the waker that shortens this is left out. A wake that fails, on registration or
in `Lease::drop`, closes the reactor as a failed poll does.

Lifecycle: `caller`, `coordinator`, `thread` and `owner` are program counters;
`told` says which parts heard of the stop, `stopping` how far each requester
is in `request_stop`, `flag` who has an unseen notification, `reclaimed` which
parts gave up all they owned. Every start may fail; a carrier may fail with or
without reclaiming its stacks; a driver, a failed wake or a worker may close
its service and record a failure (`fail_service`), and either thread may unwind
past its containment, which its join records and which leaves jobs or entries
behind (`end_service`); the coordinator may die and the owner may panic between
any two of its steps, all within `MaxFaults`. `drained` is the confirmation
that every thread was joined and every stack, entry and job given up.

## 3. Runs

| Run | Instance | Shows |
|---|---|---|
| `parker` | 1 cell, 2 tasks on 2 carriers and scopes, 2 selectors (one a carrier's own task, one outside), 3 generations | ClaimExclusive, RoutedToOwner, OneOwner |
| `waits` | 2 tasks of one scope with a cell each, one of them resident, 2 selectors, 1 generation | NoLostWake, PermitConserved |
| `live` | 1 cell shared by 2 tasks of one scope, 2 generations, fair | WakeDelivered, AbortCompletes |
| `signals` | 3 routes and 3 notices; 2 seeded graphs of up to 7 nodes, retirement in batches of 2; 2 executions, 2 parkers, 1 canceller, 3 waits | DiscardComplete, ImplementsFifo; CancelExact; CheckpointSees, CancelReachesWait, OnlyCancelled |
| `sleep` | 2 tasks of one scope, one of which parks, with a deadline; 2 threads | NoLostWakeup |
| `admission` | 2 tasks, 1 thread, fair | StartReceived, StopHalts |
| `mutex` | 3 tasks, wait capacity 2, 2 calls each, fair | ImplementsFairLock, LockReturns |
| `gate` | semaphore: 3 tasks, 1 permit; notify and condvar: 2 tasks; a notifier, wait capacity 2, 3 notifications, fair | PermitsConserved, ServedInOrder, TakeReturns, WaitReturns |
| `channel` | 2 senders, 2 receivers, capacity 1, fair | FrontAwake, CallsReturn |
| `owners` | 9 workloads of 1-2 owners, 2-3 tasks, 1-2 carriers, some with local scopes, batches of 2, max_vthreads 2, fair | CountsAgree, ScopeDrained, FailuresReported, WaitsReturn |
| `services` | pool: 2 callers, 2 workers, capacity 1 (a fault) or 2; reactor: 2 readers, capacity 2 (a fault) or 1; one runtime, 2 faults; fair | CapacityHeld, ResultCommitted, PoolSettles; EntriesOwned, ReadersWake; CompletionHonest, ShutdownReturns |
| `kernel` | 3 casts of 2 owned tasks and up to 2 children, 1 park each, aborts and a stop; lanes of 3 | TaskPlaced, RouteExact, BorrowedAlive, HaltReclaimed; HeadsServed |

All pass; no disagreement between the code and its documentation was found.

**Several questions in one run.** `signals`, `services` and `kernel` explore
independent parts side by side: the initial state picks a part, the others
keep their initial values, so the state space is the disjoint union of the
parts' and each property speaks about its own. In `signals` the delivery of
cancellations is split once more, into checkpoints and waits: these read
disjoint state of a task, and the steps both need occur in both parts. `gate`
picks the kind of gate in the same way.

**Bounds.** *Generations* (`MaxGeneration`, 2^55 - 1 in the code):
three let a shared cell move from one carrier to the other and back, with a
selector still holding an old view, and then run out. With two cells one
generation each suffices, since the interaction there is between cells through
the scope. *Two selectors* give each race its competitor; a third waits as one
of the two did. *Queue*: three slots are the least with a proper middle for
reversal, and with three notices a slot is used again while an older head is
still in a producer's hand. *Graphs*: the seeds are diamonds over diamonds, the
least in which a removal creates relays of equal signature; up to `MaxIds`
tokens are then inserted, cancelled and dropped in any order. *Cancellation*:
two executions and two parkers let a parker pass to a task that was not
cancelled while a canceller still holds the slot. *Carrier*: capacity 2 and
ready target 1 make both the full inbox and the backlog behind a busy ready
queue occur; only the first task parks, the other keeps the carrier busy, and
what a second queued notice does to the alarm is in `signals`. *Mutex*: with three tasks and capacity 2 a holder, a granted
waiter and a refused or queued third coexist; the second call meets what the
first left in the resident cell. *Gate*: with three tasks, one permit and two
tickets a holder, a queued waiter and a refused one coexist; one task calls
twice and meets what it left in its cell. *Condvar*: a waiter can be woken for
nothing before the change. *Channel*: with two of each a front and its
successor are in a line when the front gives up. *Scope*: three tasks over two
records make admission evict; two carriers make batches meet; two owners share
one carrier's batch; a task of a closed or aborted root scope, or of a closed
supervisor, admits a local child while its owner waits, on one carrier, since a
child never leaves that of its parent. *Pool and reactor*: at capacity 1 a refused caller
coexists with a retained result or a stale entry, at 2 two workers and two
entries interleave. (In the narrow pool `CapacityHeld` checks the books against
the wide one's capacity; that it keeps its own is the theorem.) *Lifecycle*: one runtime; a second one touches the first
only through the owner's claims and the slot count, and two exceed what TLC
finishes in minutes. Two faults let the owner fail over a failed part.
*Kernel*: two owned tasks reuse one slot, two children share a scope, and two
scopes let an abort of one meet work of the other. *Lanes*: with three entries
a cohort has two newest wakes and an oldest one.

`CHECK_DEADLOCK FALSE` stands where generations, parks or calls run out, a
carrier rightly sleeps for ever or has halted, or a part has come to its end.

**Symmetry** is used in `sleep`, over threads, and in `signals`, over
executions and parkers, which no definition or property tells apart; neither
checks liveness (ImplementsFifo is a safety refinement that mentions neither).

**Fairness.** A selector or thread that has begun an operation finishes it, and
a carrier keeps driving: OS scheduling. `Notify` is strongly fair, as a thread
blocked on the gate mutex gets it if it is released again and again. Dispatch
of a ready task is strongly fair: `ready_queue.rs` promises each queue head a
turn within four selections, and `HeadsServed` checks that promise. In WaitCell
the retry loops of callers and the kernel's steps are strongly fair for the
same reasons: a carrier is occupied and free in turns. In Mutex, Gate and
Channel a task makes progress once it has called, guards and permits are
dropped, and nobody need call, cancel or unwind. In Condvar the predicate mutex
is obtained by whoever keeps asking for it, which is `LockReturns`. In Scope
carriers and owners keep running and task bodies end unless they wait, so
`complete_task` is strongly fair: a body does not retry a refused spawn for
ever. In Blocking and Lifecycle bodies and destructors end, which the
documentation of shutdown presupposes; in Readiness the driver goes on.
Lifecycle has one fairness condition per thread. The worker's is conditional:
it ends once the carrier has dropped its leases, which one that kept its stacks
never does, and such a runtime is never reported. No run assumes that a
wake, an abort, a cancel or a stop is ever requested. `PoolSettles`,
`ReadersWake` and `WaitsReturn` are one leads-to for all callers, readers and
owners (from "one is due" to "none is due"), which is at least as strong as one
for each.

## 4. Proofs

Every theorem is about the `Spec` of its component, for every value of the
constants; the runs check that `Spec`, with fairness where liveness is asked
for, or `MCSpec`, in which it is one part of several. The only hypothesis is
the component's named assumption, which TLC evaluates on every run that uses
it. For CancelTask, Blocking and Readiness it stands in the theorem, and in an
ASSUME of MCSignals and MCServices; for CarrierSleep, Channel, WakeQueue and
CancelGraph in an ASSUME of CarrierThread, Channels and Signals. Components that
are instantiated have theorems about the instance: `Pool!Spec` and
`Reactor!Spec`, which Services gives capacities of their own, `Sleep!Spec`,
`Chan!Spec`, `Order!Spec`, `Queue!Spec` and `Graph!Spec`.

| Module | Theorems | Property of the run |
|---|---|---|
| `WaitCellProofs` | Ownership, TypeCorrect, BindingsAreExclusive, ClaimsAreExclusive, OneOwnerEach, ClaimsAreRoutedToTheirOwner | ClaimExclusive, OneOwner, RoutedToOwner |
| | PermitStaysConserved, WakesAreNeverLost | PermitConserved, NoLostWake |
| `CancelTaskProofs` | CancelTaskInvariance, CheckpointsSee, CancelsReachWaits, OnlyCancelledWaits | CheckpointSees, CancelReachesWait, OnlyCancelled |
| | QueueInvariance, WakeQueueImplementsFifo, DiscardsAreComplete (WakeQueue) | ImplementsFifo, DiscardComplete |
| | GraphInvariance, CancellationIsExact (CancelGraph) | CancelExact |
| `SyncProofs` | MutexInvariance, MutexImplementsFairLock; ChannelInvariance, ChannelTypes, FrontStaysAwake | ImplementsFairLock; FrontAwake |
| `GateProofs` | GateInvariance, PermitsStayConserved, GateServesInOrder; CondvarInvariance, CondvarConserved, CondvarServesInOrder | PermitsConserved, ServedInOrder |
| `ServicesProofs` | EntriesStayOwned (Readiness), CapacityStaysHeld, ResultStaysCommitted (Blocking), CompletionStaysHonest (Lifecycle), CarriersAreAwakened (CarrierSleep) | EntriesOwned, CapacityHeld, ResultCommitted, CompletionHonest, NoLostWakeup |
| `ScopeProofs` | ScopeInvariance, CountsStayAgreed, ScopesAreDrained, FailuresAreReported | CountsAgree, ScopeDrained, FailuresReported |
| `KernelProofs` | KernelInvariant, TaskIsPlaced, RoutesAreExact, BorrowedAreAlive, HaltIsReclaimed; HeadsAreServed (ReadyOrder) | TaskPlaced, RouteExact, BorrowedAlive, HaltReclaimed; HeadsServed |

Each rests on an inductive invariant, usually called `Inv`, which is a
conjunction of named parts; one lemma per action shows that it is kept, frame
lemmas say what a step of one actor cannot disturb, and the last lemmas go
through `Next` by cases. What the parts are for:

**WaitCell, ownership.** The argument is about who may write what. A claimed
word is written by its claimant alone, except for the interest bit, which only
the owner sets (`ClaimExclusive`). A word being bound is written by nobody else
(`BindingExclusive`, `OneBinder`). None of this is inductive on its own: that
a selector reads the right target after its claim needs that an activated
generation has a valid target (`OwnedTarget`), which needs that the target
`begin` probed earlier is still valid when its exchange succeeds
(`ProbedTarget`), which needs that a word with the observed generation has not
left Idle in between (`ObservedWord`), which needs that generations are never
owned twice (`OwnedGeneration`) and that a woken task's generation stays
selected until it finishes (`WokenSelected`). `CallShape` and `SelectorShape`
say which carriers are busy. The assumptions are that tasks do not migrate, a
scope's tasks are on one carrier and a resident cell has one task.

**WaitCell, permits and wakes.** The permit bit of a claimed word is borrowed
for the owner's interest, so `PermitInv` adds that a claim has no stored permit
to lose. `NoLostWake` speaks of selected waits; `WakeInv` follows the wake from
the claim on. `WakeUnderway`: a won wait has its notice about to be queued,
queued, or deferred with a promise of another look, where the promise of a
claimed word is the interest bit and later the publisher's signal.
`ObservedHub`: that signal goes to the owner's carrier. `InboxCurrent`: what is
in the inbox is still needed, so discarding an aborted wait's notice discards
no other and a route slot is never used twice. `HeldSent`: a notice that a
carrier holds is of a claim already made, so no later claim repeats it.

**CarrierSleep.** `SleepInv` says what is true between the carrier's checks:
once registered and past the check of the epoch, a changed epoch has a thread
before its notification; once armed, the queue is empty or a waker was told;
and `waiters` is 1 in these places, so no thread's peek misses the carrier. A
start pushed after the check of starts has such a thread too.

**CancelTask.** `CancelReachesWait` needs to know what a canceller will still
do: `WillSelect` has the token yet to be read, with no older slot in hand, or
the very wait. `HandsClean` says that a wait in a canceller's hand belongs to a
cancelled task for as long as its generation lasts, which survives the reuse of
a parker because `Registered` ties a slot's generation to the cell's.
`EpochSeen` is the cached epoch against the flags and the domain lock.

**CancelGraph.** The true ancestry is compared with a graph from which ancestors
were removed, so `GraphInv` speaks of `above`: for every entry, the tokens from
which edges lead to it. For a token those are its ancestors that are still
tokens (`Inherits`), and a token is cancelled exactly when it or an ancestor was
(`Told`), which survives the removal of ancestors because nothing is cancelled
above an entry that is not (`Passed`). Relays are merged by signature, and
signatures go stale: a relay whose parents changed keeps its old one until
`normalize` comes to it. `Signed` therefore claims the meaning of a signature
(its tokens and all above them are what is above the entry) only for those made
of tokens that still exist, and `Derived` that a relay which is not pending has
the union of its parents' signatures. Together they give `SmallSigned`: below
the least pending entry every signature is made of tokens. Since the least one
is taken first, and a parent is always smaller, the signatures compared in a
merge mean what they say, even that of a relay still pending. Removal may leave
stale signatures behind, but only above the entries it makes pending, and a new
token is only inserted when none is left.

**WakeQueue.** The list exists only as links, and is nowhere complete while it
is reversed. `Chained` says that some three sequences of slots follow those
links (`Links`), share no slot and end at 0; the links determine them
(`ChainCovers`: two chains from one slot agree as far as either goes), so they
are what `Chain` chooses. Each step is then a law about three sequences: a push
appends to their join (`ThreePush`), a swap or a round of `reverse` moves a
slot from one to the next and leaves the join as it was (`ThreeSwap`,
`ThreeTurn`), and a pop takes the first (`ThreeTake`). `Listed` has the join
hold exactly the slots whose push is over and that are not being freed, so a
publisher or the owner writes no slot of the list. `Discarding` bounds the
place of the discarded notice in the join by the pops still to be made: at the
start because `pending` counts every slot of the list, and later because only
slots in front of it leave and others join behind it. `Counted` likewise bounds
how many notices the discard has still `ahead`. `Fresh` says that what a
producer is about to link was never linked before, so no notice is sent twice.

**Mutex.** A step refinement: the abstract holder, line and quitters are read
from the concrete state, and every step is shown to be a step of FairLock
(`Acquire`, `Join`, `Pass`, ...) or a stutter. `OneOwner`, `WordFits` and `SlotFits` tie the lock
word, the slot and the capability together; `InLineUngranted` and `CellsFit`
say that whoever is in the line has been given nothing; `Counted` that the
ticket counter is the number of tickets.

**Gate, Condvar, Channel.** `Conserved` needs that a queued wait has received
nothing (`QueuedFresh`) and that a selection stays in its cell until it is
consumed or passed on (`CellsFit`). A condition variable takes the same steps
(`GateStep`) together with its own, so the invariant carries over. In Channel,
`FrontCalled` is kept because each pass wakes the new front of a line whenever
a transfer, a close or a leaving ticket changes it; `Ticketed` says who may
stand in a line.

**Blocking, Readiness, Lifecycle.** `PoolCounted` takes `running` and
`discarding` as the numbers of workers at such places, `Alone` and `CallFits`
that a job is in one place, `JobFits` which of the caller and the worker may
still win. `ReactorInv` ties an entry to the call of its reader. `LifeInv` has
the process owner's claim (`ClaimFits`: drained from the confirmation on, and
its verdict stays true), what a runtime may be at each stage (`RuntimeFits`: a
runtime that is done is drained, and its phase is the verdict on its failures),
and the slots as a cardinality (`PlacesCounted`). The verdict stays true since
nothing of a drained runtime is left that could fail: a service fails only
while its thread or the carrier lives, and these are joined.

**Scope.** `CountsAgree` equates seven counters with cardinalities, so every
step must show which sets it changes: `Fresh` (identities are handed out in
order), `StatusPlace` (what a task does in each status), `Pushers` (a
reservation has one submitter, who alone may undo it), `Carrying` (a completing
task holds its carrier, and a batch is of one scope and empty during an abort,
so that what `retire` publishes is what completed), `WaitersIn` (who is in a
completion's map is waiting for it). `ScopeDrained` must be shown
although a scope that is waited for still admits local children. Whoever admits
one is a task of the scope that runs, hence is not retired, so its scope is not
at zero `active()`; every other admission needs `admitting`, which is off by
then (`Closed`). A scope whose admitted tasks are all retired thus has nobody
left to admit, and stays so. `FailuresReported` because a
failure once published is in the scope's list (`FailedKept`) and its record
leaves the scope only when the outcome was seen (`RecordsKept`). The carrier
with the least load is described by the predicate `LeastLoaded`, ties from the
cursor on.

**Kernel.** The four properties need each other. That a key's task is live in
one place (`Placed`) needs that a key names one live task (`Lives`), which
needs that the free list of a slab has exactly its free slots (`SlabFits`) and
that a task on its way is in the one queue its record names (`Arrivals`). A
notice resumes the right task because whoever has a notice still has its wait
parked under that very route and token (`Waits`, `Notices`), so a slot is not
reused before its notices are consumed. A discard takes several steps: `Doomed`
says that nobody can still win the waits of the tasks to be discarded and that
a root takes its live children along, `Phase` what the loop has in hand
meanwhile, and `Halting` that after a stop nothing can arrive that the last
discard would miss. `Leases` (a stack that runs or is ready borrows from an
open scope of a live owner) is what keeps a child's stack from outliving the
frame it borrows. It holds for all finite or infinite sets of tasks, any
interleaving of other threads between two phases, and slabs of every size.

**Ready order.** A selection either takes the front of the normal lane, or the
newest or the oldest wake, as the streak says. The proof measures how many
selections an entry may still have to see: `UntilNormal(i, streak)` for place
`i` of the normal lane and `UntilWake(n, streak)` for a wake with `n` older
ones behind it. An entry's selections seen and still to see never exceed
`4 * (older + 1)` together; each selection lowers the measure of everyone who
is not selected by one, and an arrival disturbs nobody's.

**Recursive functions.** A definition such as the kernel's `retain` of a queue is
a recursive function, of which the provers only know what they are shown.
`Recursion` of LineLemmas shows that a function given by its value at 0 and a
step exists and is unique; what such a definition computes is then proved by
taking a least counterexample (`LeastNat`). Likewise `ReachedIs` and `AncestryIs`
for the recursion of CancelGraph from entries to their parents, the second with
the least family of sets closed under the recursion as the witness.

**Model-checked only.** Liveness under fairness (all the `~>` properties, and
`WakeDelivered`, `TakeReturns`, ...): beyond the prover, as is ENABLED. Every
safety property of the runs has its theorem.

## 5. Not modelled

* Memory orderings weaker than sequential consistency; the sync-core crate
  tests its cells with loom. Its spin mutex is taken as mutual exclusion, and
  its mailbox and inbox are used by those tests only.
* Of local scopes: nested ones in `Kernel`, their own cancellation and deadline
  and the unshielded joins of a `LocalJoinHandle`. In `Scope`, the admission to
  an inbox that has stopped, and the revocation of local starts by a panic
  (in `Kernel`, `sweep_revoked`).
* Shielded waits of CancelTask, which register nowhere, and yields in `Scope`,
  which change no counter and restart a quiet period only as the dispatch that
  follows does.
* Task locals, the snapshot side of `task_progress.rs`, diagnostics, evidence,
  errors, options and formatting: no decision of the runtime reads them.
* Socket types and addresses, memory mapping and the assembly of
  vthread-stack: I/O and code without states to explore.
* Two runtimes in one process (see Bounds).

## 6. Plan

The safety properties are proved. What would say more is more model: two
runtimes in one process once the state space allows it, the sync-core cells
under weaker memory orderings, and the parts section 5 leaves out.
