---------------------------- MODULE CarrierSleep ----------------------------
(***************************************************************************)
(* One carrier thread between work and sleep: the drive loop of carrier.rs *)
(* with Kernel::tick, receive and wait_for_work, the Signal it sleeps on,  *)
(* its start Inbox and its wake queue, against the threads that submit     *)
(* starts, wake parked tasks, abort scopes and stop the runtime.           *)
(*                                                                         *)
(* The wake queue appears through its contract (NoticeFifo) and a wait     *)
(* through its owner's view of the packed word (WaitCell): unclaimed,      *)
(* claimed, published or retired, with the owner's completion interest.    *)
(* Atomics are sequentially consistent.  The gate mutex is held exactly    *)
(* while kpc \in GateHeld; a notifier locks and unlocks it in one step.    *)
(***************************************************************************)
EXTENDS Naturals, FiniteSets, Sequences, SequencesExt

CONSTANTS
  Tasks,
  Scopes, ScopeOf,     \* the root scopes and the scope of each task
  Timed,               \* the tasks whose waits may have a deadline
  Threads,             \* OS threads outside this carrier
  Capacity,            \* carrier_queue_capacity
  ReadyTarget,         \* REMOTE_READY_TARGET
  DispatchBound,       \* REMOTE_ADMISSION_DISPATCH_BOUND
  MaxParks,            \* per task: bound on the waits it makes
  All,                 \* the scope None of abort(None)
  None                 \* no object; also handled = None

CarrierSleepAssumption ==
  /\ ScopeOf \in [Tasks -> Scopes]
  /\ Timed \subseteq Tasks
  /\ All \notin Scopes
  /\ None \notin Tasks \cup Scopes
  /\ None \notin Nat
  /\ Capacity \in Nat /\ ReadyTarget \in Nat
  /\ DispatchBound \in Nat
  /\ MaxParks \in [Tasks -> Nat]

VARIABLES
  epoch, waiters,      \* Signal
  linked, sleeping,    \* the wake queue: linked routes, the SLEEPING flag
  starts,              \* InboxState.starts (pending_starts is its length)
  stopLocked, stopped, \* InboxState.stopped, Inbox.stopped
  aborts,              \* InboxState.abort (abort_pending: not empty)
  accepting, failing,  \* Shared: accepting, the scopes with an abort reason
  tstate,              \* where each task is
  wait,                \* the packed word of its wait
  interest,            \* the owner asked to be told of the publication
  timer,               \* its timer: off, armed, or due
  parks,               \* waits made so far
  pc, obj,             \* each thread's place and the task or scope it handles
  kpc,                 \* the carrier's place
  observed, handled, changed,     \* locals of drive (changed until used)
  remote_pending, pressure,       \* Kernel.remote_pending, admission_pressure
  deferred, pending_aborts        \* Kernel.deferred_wakes, pending_aborts

signalVars == <<epoch, waiters>>
wakeVars == <<linked, sleeping>>
inboxVars == <<starts, stopLocked, stopped, aborts>>
sharedVars == <<accepting, failing>>
taskVars == <<tstate, wait, interest, timer, parks>>
threadVars == <<pc, obj>>
driveVars == <<observed, handled, changed>>
kernelVars == <<remote_pending, pressure, deferred, pending_aborts>>
vars == <<signalVars, wakeVars, inboxVars, sharedVars, taskVars, threadVars,
          kpc, driveVars, kernelVars>>

GateHeld == {"check", "arm", "queued", "leave"}

In(s) == {t \in Tasks : tstate[t] = s}

\* The tasks of scope x, or every task for the scope None.
Members(x) == {t \in Tasks : x = All \/ ScopeOf[t] = x}

Init ==
  /\ epoch = 0 /\ waiters = 0
  /\ linked = {} /\ sleeping = FALSE
  /\ starts = <<>> /\ stopLocked = FALSE /\ stopped = FALSE /\ aborts = {}
  /\ accepting = TRUE /\ failing = {}
  /\ tstate = [t \in Tasks |-> "new"]
  /\ wait = [t \in Tasks |-> "none"]
  /\ interest = [t \in Tasks |-> FALSE]
  /\ timer = [t \in Tasks |-> "off"]
  /\ parks = [t \in Tasks |-> 0]
  /\ pc = [th \in Threads |-> "idle"]
  /\ obj = [th \in Threads |-> None]
  /\ kpc = "drive"
  /\ observed = 0 /\ handled = None /\ changed = FALSE
  /\ remote_pending = FALSE /\ pressure = 0
  /\ deferred = {} /\ pending_aborts = {}

-----------------------------------------------------------------------------
(* The threads *)

\* From one place to the next; the object is dropped with its last use.
Move(th, from, to, o) ==
  /\ pc[th] = from
  /\ pc' = [pc EXCEPT ![th] = to]
  /\ obj' = [obj EXCEPT ![th] =
               IF to \in {"idle", "bump", "peek"} THEN None ELSE o]

Goto(th, from, to) == Move(th, from, to, obj[th])

Begin(th, to, o) == Move(th, "idle", to, o)

\* A spawn reserves its task under the Shared lock; its thread may reach the
\* inbox much later.
Reserve(t) ==
  /\ tstate[t] = "new"
  /\ accepting /\ ScopeOf[t] \notin failing
  /\ tstate' = [tstate EXCEPT ![t] = "reserved"]
  /\ UNCHANGED <<signalVars, wakeVars, inboxVars, sharedVars, wait, interest,
                 timer, parks, threadVars, kpc, driveVars, kernelVars>>

refused == stopLocked \/ Len(starts) >= Capacity

\* Inbox::push up to the unlock.
Submit(th, t) ==
  /\ tstate[t] = "reserved"
  /\ \/ /\ refused
        /\ tstate' = [tstate EXCEPT ![t] = "gone"]
        /\ UNCHANGED <<starts, threadVars>>
     \/ /\ ~refused
        /\ Begin(th, IF starts = <<>> THEN "bump" ELSE "peek", None)
        /\ starts' = Append(starts, t)
        /\ tstate' = [tstate EXCEPT ![t] = "queued"]
  /\ UNCHANGED <<signalVars, wakeVars, stopLocked, stopped, aborts, sharedVars,
                 wait, interest, timer, parks, kpc, driveVars, kernelVars>>

\* Selection of a parked wait: the claim, then WaitHub::enqueue.
Claim(th, t) ==
  /\ tstate[t] = "parked" /\ wait[t] = "none"
  /\ Begin(th, "link", t)
  /\ wait' = [wait EXCEPT ![t] = "claimed"]
  /\ UNCHANGED <<signalVars, wakeVars, inboxVars, sharedVars, tstate, interest,
                 timer, parks, kpc, driveVars, kernelVars>>

\* WakeQueue::push reports the SLEEPING flag it replaced.
WakePush(th) ==
  /\ Goto(th, "link", IF sleeping THEN "wakePeek" ELSE "publish")
  /\ linked' = linked \cup {obj[th]}
  /\ sleeping' = FALSE
  /\ UNCHANGED <<signalVars, inboxVars, sharedVars, taskVars, kpc,
                 driveVars, kernelVars>>

publish_target(t) == IF interest[t] THEN "bump" ELSE "idle"

\* publish_claim, then publication_complete when the owner is interested.
Publish(th) ==
  /\ Goto(th, "publish", publish_target(obj[th]))
  /\ wait' = [wait EXCEPT ![obj[th]] = "published"]
  /\ UNCHANGED <<signalVars, wakeVars, inboxVars, sharedVars, tstate, interest,
                 timer, parks, kpc, driveVars, kernelVars>>

\* Signal::notify: epoch first, then the registered waiters.
Bump(th) ==
  /\ Goto(th, "bump", "peek")
  /\ epoch' = epoch + 1
  /\ UNCHANGED <<waiters, wakeVars, inboxVars, sharedVars, taskVars, kpc,
                 driveVars, kernelVars>>

\* notify and notify_if_waiting look for a waiter, then go through the gate;
\* `back` is where the caller continues.
Notifying == {<<"peek", "gate", "idle">>, <<"wakePeek", "wakeGate", "publish">>}

Peek(th) ==
  /\ \E n \in Notifying : Goto(th, n[1], IF waiters = 0 THEN n[3] ELSE n[2])
  /\ UNCHANGED <<signalVars, wakeVars, inboxVars, sharedVars, taskVars,
                 kpc, driveVars, kernelVars>>

Notify(th) ==
  /\ kpc \notin GateHeld
  /\ \E n \in Notifying : Goto(th, n[2], n[3])
  /\ kpc' = IF kpc = "asleep" THEN "woken" ELSE kpc
  /\ UNCHANGED <<signalVars, wakeVars, inboxVars, sharedVars, taskVars,
                 driveVars, kernelVars>>

\* Shared::abort_scope: the reason first, then this carrier's inbox.
AbortScope(th, s) ==
  /\ accepting /\ s \notin failing
  /\ Begin(th, "abort", s)
  /\ failing' = failing \cup {s}
  /\ UNCHANGED <<signalVars, wakeVars, inboxVars, accepting, taskVars, kpc,
                 driveVars, kernelVars>>

InboxAbort(th) ==
  /\ Goto(th, "abort", "bump")
  /\ aborts' = aborts \cup {obj[th]}
  /\ UNCHANGED <<signalVars, wakeVars, starts, stopLocked, stopped, sharedVars,
                 taskVars, kpc, driveVars, kernelVars>>

\* Shared::request_stop, then Inbox::stop: locked flag, atomic flag, notify.
RequestStop(th) ==
  /\ accepting
  /\ Begin(th, "stopLock", None)
  /\ accepting' = FALSE
  /\ UNCHANGED <<signalVars, wakeVars, inboxVars, failing, taskVars, kpc,
                 driveVars, kernelVars>>

StopLock(th) ==
  /\ Goto(th, "stopLock", "stopFlag")
  /\ stopLocked' = TRUE
  /\ UNCHANGED <<signalVars, wakeVars, starts, stopped, aborts, sharedVars,
                 taskVars, kpc, driveVars, kernelVars>>

StopFlag(th) ==
  /\ Goto(th, "stopFlag", "bump")
  /\ stopped' = TRUE
  /\ UNCHANGED <<signalVars, wakeVars, starts, stopLocked, aborts, sharedVars,
                 taskVars, kpc, driveVars, kernelVars>>

\* A thread that has begun an operation carries it through.
Continue(th) ==
  \/ WakePush(th) \/ Publish(th)
  \/ Bump(th) \/ Peek(th) \/ Notify(th)
  \/ InboxAbort(th) \/ StopLock(th) \/ StopFlag(th)

Thread(th) ==
  \/ \E t \in Tasks : Submit(th, t) \/ Claim(th, t)
  \/ \E s \in Scopes : AbortScope(th, s)
  \/ RequestStop(th)
  \/ Continue(th)

-----------------------------------------------------------------------------
(* Kernel::abort, for one scope or for the deferred ones together *)

\* prepare_abort fails on a wait whose publisher is still at work.
Blocked(x) == \E t \in Members(x) : tstate[t] = "parked" /\ wait[t] = "claimed"

\* The entries of pending_aborts after an attempt on X, from the entries kept.
defer_abort(X, kept) ==
  LET late == {x \in X : Blocked(x)}
  IN  IF All \in late THEN {All}
      ELSE IF All \in X THEN {}
      ELSE IF All \in kept THEN kept \ X
      ELSE (kept \ X) \cup late

\* Queued starts go at once.  Parked waits are retired, or their publisher is
\* asked to report; the rest of a scope goes only when all its waits retired.
abort(X, kept) ==
  LET member == UNION {Members(x) : x \in X}
      held == UNION {Members(x) : x \in {y \in X : Blocked(y)}}
      reclaimed == {t \in member : tstate[t] = "queued"
                      \/ (tstate[t] \in {"ready", "parked"} /\ t \notin held)}
      claimed == {t \in member : wait[t] = "claimed"}
  IN  /\ starts' = SelectSeq(starts, LAMBDA t : t \notin member)
      /\ tstate' = [t \in Tasks |-> IF t \in reclaimed THEN "gone" ELSE tstate[t]]
      /\ wait' = [t \in Tasks |->
                    IF t \in reclaimed THEN "none"
                    ELSE IF t \in (In("parked") \cap member) \ claimed
                      THEN "retired"
                    ELSE wait[t]]
      /\ interest' = [t \in Tasks |->
                        (interest[t] /\ t \notin reclaimed) \/ t \in claimed]
      /\ timer' = [t \in Tasks |-> IF t \in reclaimed THEN "off" ELSE timer[t]]
      /\ linked' = linked \ (member \ claimed)
      /\ deferred' = deferred \ reclaimed
      /\ pending_aborts' = defer_abort(X, kept)

abortUnchanged == <<signalVars, sleeping, stopLocked, stopped, sharedVars,
                    parks, threadVars>>

-----------------------------------------------------------------------------
(* drive *)

Observe ==
  /\ kpc = "drive"
  /\ observed' = epoch
  /\ changed' = (handled # epoch)
  /\ kpc' = IF handled # epoch THEN "control" ELSE "poll"
  /\ UNCHANGED <<signalVars, wakeVars, inboxVars, sharedVars, taskVars,
                 threadVars, handled, kernelVars>>

\* remote_receive_required; a tick of the same epoch follows either way.
PollInbox ==
  /\ kpc = "poll"
  /\ kpc' = IF remote_pending \/ starts # <<>> THEN "receive" ELSE "tick"
  /\ UNCHANGED <<signalVars, wakeVars, inboxVars, sharedVars, taskVars,
                 threadVars, driveVars, kernelVars>>

\* A stopped carrier leaves drive once abort(None) has reclaimed everything.
StopControl ==
  /\ kpc = "control" /\ stopped
  /\ abort({All}, pending_aborts)
  /\ kpc' = IF Blocked(All) THEN "tick" ELSE "halted"
  /\ handled' = observed
  /\ UNCHANGED <<abortUnchanged, aborts, observed, changed, remote_pending,
                 pressure>>

RunControl ==
  /\ kpc = "control" /\ ~stopped
  /\ kpc' = "aborts"
  /\ UNCHANGED <<signalVars, wakeVars, inboxVars, sharedVars, taskVars,
                 threadVars, driveVars, kernelVars>>

TakeAbort ==
  /\ kpc = "aborts"
  /\ \/ \E s \in aborts :
          /\ aborts' = aborts \ {s}
          /\ abort({s}, pending_aborts)
          /\ UNCHANGED kpc
     \/ /\ aborts = {}
        /\ kpc' = "receive"
        /\ UNCHANGED <<linked, starts, aborts, tstate, wait, interest,
                       timer, deferred, pending_aborts>>
  /\ UNCHANGED <<abortUnchanged, driveVars, remote_pending, pressure>>

-----------------------------------------------------------------------------
(* Kernel::receive *)

Lesser(a, b) == IF a < b THEN a ELSE b

\* Mutant: a receive round with a backlog is not counted.
pressed_uncounted == pressure

\* admission_pressure as receive_remote_tasks reads it.
pressed == pressure + (IF remote_pending THEN 1 ELSE 0)

receive_limit(p) ==
  LET target == Lesser(ReadyTarget, Capacity)
      ready == Cardinality(In("ready"))
  IN  IF ready <= target \div 2 THEN target - ready
      ELSE IF p >= DispatchBound THEN 1
      ELSE 0

\* A start becomes ready, or fails when no stack can be had for it.
Receive ==
  /\ kpc = "receive"
  /\ LET n == Lesser(receive_limit(pressed), Len(starts))
         batch == {starts[i] : i \in 1..n}
     IN  /\ starts' = SubSeq(starts, n + 1, Len(starts))
         /\ \E failed \in SUBSET batch :
              tstate' = [t \in Tasks |-> IF t \in failed THEN "gone"
                                         ELSE IF t \in batch THEN "ready"
                                         ELSE tstate[t]]
         /\ pressure' = IF n # 0 THEN 0 ELSE pressed
  /\ kpc' = "received"
  /\ UNCHANGED <<signalVars, wakeVars, stopLocked, stopped, aborts, sharedVars,
                 wait, interest, timer, parks, threadVars, driveVars,
                 remote_pending, deferred, pending_aborts>>

\* Mutant: the version is read again instead of the one drive acted on.
handled_version_again == epoch

handled_version == observed

\* The depth is read again: starts may have arrived since the drain.
Received ==
  /\ kpc = "received"
  /\ remote_pending' = (starts # <<>>)
  /\ pressure' = IF starts = <<>> THEN 0 ELSE pressure
  /\ handled' = IF changed THEN handled_version ELSE handled
  /\ kpc' = "tick"
  /\ UNCHANGED <<signalVars, wakeVars, inboxVars, sharedVars, taskVars,
                 threadVars, observed, changed, deferred, pending_aborts>>

-----------------------------------------------------------------------------
(* Kernel::tick *)

\* retry_aborts on a changed epoch, before the deferred wakes.
TickChanged ==
  /\ kpc = "tick" /\ changed
  /\ abort(pending_aborts, {})
  /\ kpc' = "deferred"
  /\ changed' = FALSE
  /\ UNCHANGED <<abortUnchanged, aborts, observed, handled, remote_pending,
                 pressure>>

TickUnchanged ==
  /\ kpc = "tick" /\ ~changed
  /\ kpc' = IF In("parked") # {} /\ linked # {} THEN "wakes" ELSE "timers"
  /\ UNCHANGED <<signalVars, wakeVars, inboxVars, sharedVars, taskVars,
                 threadVars, driveVars, kernelVars>>

\* process_wake of the notices in N: resume what is published, register for
\* the completion of what is not, drop what is stale.
process_wake(N) ==
  LET woken == {t \in N : tstate[t] = "parked" /\ wait[t] = "published"}
      early == {t \in N : tstate[t] = "parked" /\ wait[t] = "claimed"}
  IN  /\ tstate' = [t \in Tasks |-> IF t \in woken THEN "ready" ELSE tstate[t]]
      /\ wait' = [t \in Tasks |-> IF t \in woken THEN "none" ELSE wait[t]]
      /\ interest' = [t \in Tasks |-> (interest[t] /\ t \notin woken) \/ t \in early]
      /\ timer' = [t \in Tasks |-> IF t \in woken THEN "off" ELSE timer[t]]
      /\ deferred' = (deferred \ N) \cup early

ProcessDeferred ==
  /\ kpc = "deferred"
  /\ process_wake(deferred)
  /\ kpc' = "wakes"
  /\ UNCHANGED <<signalVars, wakeVars, inboxVars, sharedVars, parks, threadVars,
                 driveVars, remote_pending, pressure, pending_aborts>>

\* process_wakes runs until the queue is empty.  tick calls it again after the
\* timers, and again when it finds nothing to run.
After == [wakes |-> "timers", timedWakes |-> "select", rewakes |-> "reselect"]

ProcessWakes ==
  /\ kpc \in DOMAIN After
  /\ \/ \E t \in linked :
          /\ linked' = linked \ {t}
          /\ process_wake({t})
          /\ UNCHANGED kpc
     \/ /\ linked = {}
        /\ kpc' = After[kpc]
        /\ UNCHANGED <<linked, tstate, wait, interest, timer, deferred>>
  /\ UNCHANGED <<signalVars, sleeping, inboxVars, sharedVars, parks, threadVars,
                 driveVars, remote_pending, pressure, pending_aborts>>

\* expire_timers: a due timer selects its wait unless a selector or an abort
\* was faster; the carrier's own notice is published and processed at once.
ExpireTimers ==
  /\ kpc = "timers"
  /\ LET due == {t \in Tasks : timer[t] = "due"}
         woken == {t \in due : wait[t] = "none"}
     IN  /\ timer' = [t \in Tasks |-> IF t \in due THEN "off" ELSE timer[t]]
         /\ tstate' = [t \in Tasks |-> IF t \in woken THEN "ready" ELSE tstate[t]]
  /\ kpc' = IF \E t \in Tasks : timer[t] # "off" THEN "timedWakes" ELSE "select"
  /\ UNCHANGED <<signalVars, wakeVars, inboxVars, sharedVars, wait, interest,
                 parks, threadVars, driveVars, kernelVars>>

\* A scope whose abort is deferred is not scheduled.
Selectable ==
  {t \in In("ready") : \A x \in pending_aborts : t \notin Members(x)}

SelectNone ==
  /\ kpc \in {"select", "reselect"}
  /\ Selectable = {}
  /\ kpc' = IF kpc = "select" /\ linked # {} THEN "rewakes" ELSE "idle"
  /\ UNCHANGED <<signalVars, wakeVars, inboxVars, sharedVars, taskVars,
                 threadVars, driveVars, kernelVars>>

abort_reason(t) == ~accepting \/ ScopeOf[t] \in failing

\* The task's scope is being torn down: abort it instead of mounting.
DispatchAbort(t) ==
  /\ kpc \in {"select", "reselect"} /\ t \in Selectable
  /\ abort_reason(t)
  /\ abort({ScopeOf[t]}, pending_aborts)
  /\ kpc' = "drive"
  /\ UNCHANGED <<abortUnchanged, aborts, driveVars, remote_pending, pressure>>

\* The task runs and yields, parks on a fresh wait with or without
\* a deadline, or completes.
DispatchRun(t) ==
  /\ kpc \in {"select", "reselect"} /\ t \in Selectable
  /\ ~abort_reason(t)
  /\ \/ UNCHANGED <<tstate, timer, parks>>
     \/ /\ parks[t] < MaxParks[t]
        /\ parks' = [parks EXCEPT ![t] = @ + 1]
        /\ tstate' = [tstate EXCEPT ![t] = "parked"]
        /\ \E deadline \in {"off"} \cup {"armed" : u \in Timed \cap {t}} :
             timer' = [timer EXCEPT ![t] = deadline]
     \/ /\ tstate' = [tstate EXCEPT ![t] = "gone"]
        /\ UNCHANGED <<timer, parks>>
  /\ kpc' = "drive"
  /\ UNCHANGED <<signalVars, wakeVars, inboxVars, sharedVars, wait, interest,
                 threadVars, driveVars, kernelVars>>

Dispatch(t) == DispatchAbort(t) \/ DispatchRun(t)

-----------------------------------------------------------------------------
(* wait_for_work and Signal::wait_while *)

\* observe_idle_work, first or in a later probe.
IdleWork ==
  /\ kpc = "idle"
  /\ starts # <<>> \/ linked # {}
  /\ remote_pending' = (remote_pending \/ starts # <<>>)
  /\ kpc' = "drive"
  /\ UNCHANGED <<signalVars, wakeVars, inboxVars, sharedVars, taskVars,
                 threadVars, driveVars, pressure, deferred, pending_aborts>>

\* A runtime of several carriers also probes the version before it sleeps.
IdleSignal ==
  /\ kpc = "idle"
  /\ starts = <<>> /\ linked = {} /\ epoch # observed
  /\ kpc' = "drive"
  /\ UNCHANGED <<signalVars, wakeVars, inboxVars, sharedVars, taskVars,
                 threadVars, driveVars, kernelVars>>

Register ==
  /\ kpc = "idle"
  /\ starts = <<>> /\ linked = {}
  /\ kpc' = "register"
  /\ UNCHANGED <<signalVars, wakeVars, inboxVars, sharedVars, taskVars,
                 threadVars, driveVars, kernelVars>>

\* The gate is locked and the waiter counted.
EnterGate ==
  /\ kpc = "register"
  /\ waiters' = waiters + 1
  /\ kpc' = "check"
  /\ UNCHANGED <<epoch, wakeVars, inboxVars, sharedVars, taskVars, threadVars,
                 driveVars, kernelVars>>

CheckEpoch ==
  /\ kpc = "check"
  /\ kpc' = IF epoch = observed THEN "arm" ELSE "leave"
  /\ UNCHANGED <<signalVars, wakeVars, inboxVars, sharedVars, taskVars,
                 threadVars, driveVars, kernelVars>>

\* Mutant: the queue is checked, the SLEEPING flag never set.
ArmWait_unset ==
  /\ kpc = "arm"
  /\ kpc' = IF linked # {} THEN "leave" ELSE "queued"
  /\ UNCHANGED <<signalVars, wakeVars, inboxVars, sharedVars, taskVars,
                 threadVars, driveVars, kernelVars>>

ArmWait ==
  /\ kpc = "arm"
  /\ \/ /\ linked # {}
        /\ kpc' = "leave"
        /\ UNCHANGED sleeping
     \/ /\ linked = {}
        /\ kpc' = "queued"
        /\ sleeping' = TRUE
  /\ UNCHANGED <<signalVars, linked, inboxVars, sharedVars, taskVars,
                 threadVars, driveVars, kernelVars>>

Due == \E t \in Tasks : timer[t] = "due"

\* has_queued_starts_at_wait_boundary, then the condition variable releases
\* the gate, or a timer deadline has passed.
CheckStarts ==
  /\ kpc = "queued"
  /\ \/ starts # <<>> /\ kpc' = "leave"
     \/ starts = <<>> /\ ~Due /\ kpc' = "asleep"
     \/ starts = <<>> /\ Due /\ kpc' = "leave"
  /\ UNCHANGED <<signalVars, wakeVars, inboxVars, sharedVars, taskVars,
                 threadVars, driveVars, kernelVars>>

WaitTimeout ==
  /\ kpc = "asleep" /\ Due
  /\ kpc' = "woken"
  /\ UNCHANGED <<signalVars, wakeVars, inboxVars, sharedVars, taskVars,
                 threadVars, driveVars, kernelVars>>

\* The condition variable may wake for no reason.
Spurious ==
  /\ kpc = "asleep"
  /\ kpc' = "woken"
  /\ UNCHANGED <<signalVars, wakeVars, inboxVars, sharedVars, taskVars,
                 threadVars, driveVars, kernelVars>>

Relock ==
  /\ kpc = "woken"
  /\ kpc' = "check"
  /\ UNCHANGED <<signalVars, wakeVars, inboxVars, sharedVars, taskVars,
                 threadVars, driveVars, kernelVars>>

LeaveGate ==
  /\ kpc = "leave"
  /\ waiters' = waiters - 1
  /\ kpc' = "disarm"
  /\ UNCHANGED <<epoch, wakeVars, inboxVars, sharedVars, taskVars, threadVars,
                 driveVars, kernelVars>>

Disarm ==
  /\ kpc = "disarm"
  /\ sleeping' = FALSE
  /\ kpc' = "drive"
  /\ UNCHANGED <<signalVars, linked, inboxVars, sharedVars, taskVars,
                 threadVars, driveVars, kernelVars>>

\* Time passes.
Expire(t) ==
  /\ timer[t] = "armed"
  /\ timer' = [timer EXCEPT ![t] = "due"]
  /\ UNCHANGED <<signalVars, wakeVars, inboxVars, sharedVars, tstate, wait,
                 interest, parks, threadVars, kpc, driveVars, kernelVars>>

Wait ==
  \/ IdleWork \/ IdleSignal \/ Register \/ EnterGate \/ CheckEpoch \/ ArmWait
  \/ CheckStarts \/ WaitTimeout \/ Relock \/ LeaveGate \/ Disarm

Carrier ==
  \/ Observe \/ PollInbox \/ StopControl \/ RunControl \/ TakeAbort
  \/ Receive \/ Received
  \/ TickChanged \/ TickUnchanged \/ ProcessDeferred \/ ProcessWakes
  \/ ExpireTimers \/ SelectNone \/ \E t \in Tasks : Dispatch(t)
  \/ Wait

Next ==
  \/ Carrier \/ Spurious
  \/ \E t \in Tasks : Reserve(t) \/ Expire(t)
  \/ \E th \in Threads : Thread(th)

Spec == Init /\ [][Next]_vars

\* The carrier and the threads keep running; an operation once begun is
\* carried through; a thread blocked on the gate gets it if it is free again
\* and again; the ready queue serves every task it can keep selecting.
FairSpec ==
  /\ Spec
  /\ WF_vars(Carrier)
  /\ \A th \in Threads : WF_vars(Continue(th)) /\ SF_vars(Notify(th))
  /\ \A t \in Tasks : SF_vars(Dispatch(t))

-----------------------------------------------------------------------------
(* Properties *)

\* The carrier registers on its signal at most once and the inbox respects
\* carrier_queue_capacity.
TypeOK ==
  /\ epoch \in Nat /\ waiters \in 0..1
  /\ linked \subseteq Tasks /\ sleeping \in BOOLEAN
  /\ starts \in Seq(Tasks) /\ Len(starts) <= Capacity
  /\ stopLocked \in BOOLEAN /\ stopped \in BOOLEAN
  /\ aborts \subseteq Scopes
  /\ accepting \in BOOLEAN /\ failing \subseteq Scopes
  /\ tstate \in [Tasks -> {"new", "reserved", "queued", "ready", "parked", "gone"}]
  /\ wait \in [Tasks -> {"none", "claimed", "published", "retired"}]
  /\ interest \in [Tasks -> BOOLEAN]
  /\ timer \in [Tasks -> {"off", "armed", "due"}]
  /\ \A t \in Tasks : parks[t] \in 0..MaxParks[t]
  /\ pc \in [Threads -> {"idle", "link", "wakePeek", "wakeGate", "publish",
                         "bump", "peek", "gate", "abort", "stopLock",
                         "stopFlag"}]
  /\ obj \in [Threads -> Tasks \cup Scopes \cup {None}]
  /\ kpc \in {"drive", "control", "aborts", "poll", "receive", "received",
              "tick", "deferred", "wakes", "select", "rewakes", "reselect",
              "timers", "timedWakes",
              "idle", "register", "check", "arm", "queued", "asleep", "woken",
              "leave", "disarm", "halted"}
  /\ observed \in Nat /\ handled \in Nat \cup {None} /\ changed \in BOOLEAN
  /\ remote_pending \in BOOLEAN /\ pressure \in Nat
  /\ deferred \subseteq Tasks /\ pending_aborts \subseteq Scopes \cup {All}

At(places) == \E th \in Threads : pc[th] \in places

\* No lost wake-up: a carrier sleeps over a linked notice, a queued start or a
\* moved epoch only while some thread is still on its way to notify it.
NoLostWakeup ==
  kpc = "asleep" =>
    /\ linked # {} => At({"wakePeek", "wakeGate"})
    /\ starts # <<>> => At({"bump", "peek", "gate"})
    /\ epoch # observed => At({"peek", "gate"})

\* Every admitted start leaves the inbox, even if ready tasks yield forever.
StartReceived == \A t \in Tasks : tstate[t] = "queued" ~> tstate[t] # "queued"

\* A stopped carrier halts, whatever publication its cleanup had to wait for.
StopHalts == stopped ~> kpc = "halted"
=============================================================================
