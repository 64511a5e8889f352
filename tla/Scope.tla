------------------------------- MODULE Scope -------------------------------
(***************************************************************************)
(* Structured ownership: root scopes and supervisors admit tasks, place    *)
(* them on carriers, and may end only when every stack was reclaimed.      *)
(* Shared (control_*.rs), Completion (completion.rs), the joins of join.rs *)
(* and join_wait.rs and the completion batches of kernel.rs.               *)
(*                                                                         *)
(* A section under Shared.state is one step.  An OS thread owns at most    *)
(* one scope, which carries its name.  A task is its identity: identities  *)
(* are never reused.  A local child borrows from its parent: it is         *)
(* admitted to the parent's scope, open or closed, on its carrier, and the *)
(* parent drains it before it completes.  A notified wait cell is a member *)
(* of notices, and Shared.changed is seen through quiet: who read its      *)
(* version and was not notified since.                                     *)
(***************************************************************************)
EXTENDS Naturals, FiniteSets

CONSTANTS
  Owners,          \* the OS threads
  MaxCarriers,     \* bound on the carriers
  MaxTasks,        \* bound on the identities handed out
  MaxVthreads,     \* max_vthreads: retained records
  QueueCapacity,   \* carrier_queue_capacity
  BatchSize,       \* COMPLETION_BATCH
  CacheCapacity,   \* stack_cache_capacity, which also bounds record_cache
  Configs,         \* the configurations and workloads, one chosen by Init
  Panics,          \* the tasks that may panic
  Supervisors,     \* the owners of a supervisor; the others run root scopes
  NONE

Tasks == 1..MaxTasks
Carriers == 0..(MaxCarriers - 1)

ASSUME ScopeAssumption ==
  /\ MaxCarriers \in Nat \ {0} /\ MaxTasks \in Nat \ {0} /\ MaxVthreads \in Nat \ {0}
  /\ QueueCapacity \in Nat \ {0} /\ BatchSize \in Nat \ {0} /\ CacheCapacity \in Nat
  /\ Configs \subseteq [stall : {"off", "report", "abort"},  \* config.stall_policy
                        carriers : 1..MaxCarriers,
                        owners : SUBSET Owners,             \* who opens a scope
                        tasks : Tasks, each : Tasks,  \* how many are admitted, and by a scope
                        sharing : BOOLEAN,   \* tasks hold a Spawner and one another's handles
                        locals : BOOLEAN,    \* tasks open local scopes
                        joins : BOOLEAN,     \* owners join in their body
                        until : BOOLEAN]     \* supervisors call shutdown_until
  /\ Panics \subseteq Tasks /\ Supervisors \subseteq Owners
  /\ Owners \cap (Tasks \cup {NONE}) = {} /\ NONE \notin Tasks \cup Carriers
  /\ NONE \notin [count : Nat, drained : BOOLEAN]

VARIABLES
  config,
  scope,           \* state.scopes with its ScopeProgress, by owner
  status, home, carrier,    \* of each task's record
  observed,        \* outcome_observed
  borrows,         \* the parent whose LocalScope a task runs in, or NONE
  next_task, record_count, cached, active_scope,
  loads,           \* CarrierLoads and the placement cursor
  retired_tasks,   \* Inbox.retired_tasks
  done, waiters, registered,    \* Completion: DONE, the map, the WAITER count
  joiner,          \* who waits on the task's JoinHandle
  notices,         \* tasks whose join cell was notified
  pc, obj,         \* where a process (an owner or a task) is, and with what
  in_flight, completions, publishing,  \* of each kernel
  aborts, aborting,      \* Inbox.abort and the scope a kernel is reclaiming
  quiet, target_waiters,
  watch,           \* each owner's stall bookkeeping in wait_until
  report           \* what unobserved returned

recVars == <<status, home, carrier, observed>>
admVars == <<next_task, record_count, cached, active_scope, loads, borrows>>
joinVars == <<done, waiters, registered, joiner, notices>>
kernelVars == <<in_flight, completions, publishing, aborts, aborting, retired_tasks>>
waitVars == <<quiet, target_waiters, watch>>
vars == <<config, scope, recVars, admVars, joinVars, pc, obj, kernelVars, waitVars, report>>

stall == config.stall
carriers == 0..(config.carriers - 1)
Procs == Owners \cup Tasks
Terminal == {"completed", "panicked", "aborted"}
Failed == {"panicked", "aborted"}
Here(c, st) == {t \in Tasks : carrier[t] = c /\ status[t] \in st}
OfScope(s) == {t \in Tasks : home[t] = s /\ status[t] \notin {"none", "released"}}

NoScope == [open |-> FALSE, supervised |-> FALSE, admitting |-> FALSE, aborting |-> FALSE,
            cancelled |-> FALSE, admitted |-> 0, retired |-> 0, records |-> {}, failed |-> {}]
Calm == [since |-> FALSE, late |-> FALSE, moved |-> FALSE, reported |-> FALSE,
         stalled |-> FALSE, until |-> FALSE]

Init ==
  /\ config \in Configs
  /\ scope = [o \in Owners |-> NoScope]
  /\ status = [t \in Tasks |-> "none"] /\ home = [t \in Tasks |-> NONE]
  /\ carrier = [t \in Tasks |-> NONE] /\ observed = {}
  /\ borrows = [t \in Tasks |-> NONE]
  /\ next_task = 1 /\ record_count = 0 /\ cached = {} /\ active_scope = NONE
  /\ loads = [assigned |-> [c \in Carriers |-> 0], observed |-> [c \in Carriers |-> 0],
              probe |-> 0, cursor |-> 0]
  /\ retired_tasks = [c \in Carriers |-> 0]
  /\ done = {} /\ waiters = [t \in Tasks |-> {}] /\ registered = [t \in Tasks |-> 0]
  /\ joiner = [t \in Tasks |-> NONE] /\ notices = {}
  /\ pc = [p \in Procs |-> IF p \in Owners THEN "out" ELSE "run"]
  /\ obj = [p \in Procs |-> NONE]
  /\ in_flight = [c \in Carriers |-> NONE] /\ completions = [c \in Carriers |-> {}]
  /\ publishing = [c \in Carriers |-> NONE]
  /\ aborts = [c \in Carriers |-> {}] /\ aborting = [c \in Carriers |-> NONE]
  /\ quiet = {} /\ target_waiters = 0
  /\ watch = [o \in Owners |-> Calm] /\ report = [o \in Owners |-> {}]

Goto(p, from, to) == pc[p] = from /\ pc' = [pc EXCEPT ![p] = to]
notify == quiet' = {}

\* With a stall policy, activity of scope s also restarts its quiet period.
Moved(s) == watch' = [o \in Owners |->
                        IF o = s /\ stall # "off" THEN [watch[o] EXCEPT !.moved = TRUE]
                                                  ELSE watch[o]]
\* A status change; with a stall policy it is published and signalled.
transition(s) == Moved(s) /\ (IF stall = "off" THEN UNCHANGED quiet ELSE notify)

-----------------------------------------------------------------------------
(* Admission and placement *)

begin_owned(o) ==
  LET supervised == o \in Supervisors IN
  /\ o \in config.owners /\ Goto(o, "out", "body")
  /\ ~supervised => active_scope = NONE
  /\ scope' = [scope EXCEPT ![o] = [NoScope EXCEPT !.open = TRUE, !.admitting = TRUE,
                                                   !.supervised = supervised]]
  /\ active_scope' = IF supervised THEN active_scope ELSE o
  /\ UNCHANGED <<config, recVars, next_task, record_count, cached, loads, borrows, joinVars,
                 obj, kernelVars, waitVars, report>>

\* Mutant: terminal records are evicted whether their outcome was seen or not.
reclaimable_terminal == {t \in Tasks : status[t] \in Terminal}

\* The records that admission at max_vthreads may evict.
reclaimable == {t \in Tasks : status[t] \in Terminal /\ t \in observed}

Queued(c) == Cardinality(Here(c, {"queued"}))
can_accept(c) == Queued(c) < QueueCapacity

\* Of the carriers in from, c has the least cached load, from the cursor on.
LeastLoaded(l, from, c) ==
  LET load(x) == l.assigned[x] - l.observed[x]
      turn(x) == (x + config.carriers - l.cursor) % config.carriers
  IN /\ c \in from
     /\ \A d \in from : load(c) < load(d) \/ (load(c) = load(d) /\ turn(c) <= turn(d))

\* The owner of a new task, or NONE when every queue is full.
select(l, owner) ==
  \E best \in carriers :
    LET open == {c \in carriers \ {best} : can_accept(c)} IN
    /\ LeastLoaded(l, carriers, best)
    /\ IF can_accept(best) THEN owner = best
       ELSE IF open = {} THEN owner = NONE ELSE LeastLoaded(l, open, owner)

Probed == [loads EXCEPT !.observed[loads.probe] = retired_tasks[loads.probe],
                        !.probe = (@ + 1) % config.carriers]

\* At max_vthreads, admission first evicts what it may.
Gone == IF record_count >= MaxVthreads
        THEN reclaimable \cap UNION {scope[o].records : o \in Owners} ELSE {}
Evicted == [o \in Owners |-> [scope[o] EXCEPT !.records = @ \ Gone, !.failed = @ \ Gone]]
Room(s) ==
  /\ scope[s].open /\ ~scope[s].aborting /\ record_count - Cardinality(Gone) < MaxVthreads
  /\ next_task <= config.tasks /\ scope[s].admitted < config.each

\* Process p gets the next identity, a record in scope s on carrier c whose
\* stack may borrow from task q.
admit(p, s, c, l, q) ==
  /\ pc' = [pc EXCEPT ![p] = "push"] /\ obj' = [obj EXCEPT ![p] = next_task]
  /\ status' = [status EXCEPT ![next_task] = "reserved"]
  /\ home' = [home EXCEPT ![next_task] = s]
  /\ carrier' = [carrier EXCEPT ![next_task] = c]
  /\ borrows' = [borrows EXCEPT ![next_task] = q]
  /\ next_task' = next_task + 1
  /\ record_count' = record_count - Cardinality(Gone) + 1
  /\ cached' = IF cached = {} THEN {} ELSE cached \ {CHOOSE t \in cached : TRUE}
  /\ loads' = [l EXCEPT !.assigned[c] = @ + 1, !.cursor = (c + 1) % config.carriers]
  /\ scope' = [Evicted EXCEPT ![s].records = @ \cup {next_task}, ![s].admitted = @ + 1]
  /\ transition(s)

\* A transferable task needs a scope that admits and a carrier with room; a
\* refusal for want of one still evicts and probes.
reserve_with(p, s) ==
  /\ scope[s].admitting /\ Room(s)
  /\ \/ /\ select(Probed, NONE)
        /\ scope' = Evicted /\ record_count' = record_count - Cardinality(Gone)
        /\ loads' = Probed
        /\ UNCHANGED <<status, home, carrier, next_task, cached, borrows, pc, obj, quiet, watch>>
     \/ \E owner \in carriers : select(Probed, owner) /\ admit(p, s, owner, Probed, NONE)
  /\ UNCHANGED <<config, observed, active_scope, joinVars, kernelVars, target_waiters, report>>

Running(t) == status[t] = "running" /\ in_flight[carrier[t]] = t

\* LocalScope::spawn looks at the policy of the parent and at the local starts ...
spawn(p) ==
  /\ config.locals /\ Running(p) /\ ~scope[home[p]].cancelled
  /\ Cardinality(Here(carrier[p], {"start"})) < QueueCapacity
  /\ Goto(p, "run", "spawn")
  /\ UNCHANGED <<config, scope, recVars, admVars, joinVars, obj, kernelVars, waitVars, report>>

\* ... before the reservation, which asks neither whether the scope still
\* admits nor where to place the child.
reserve_local(p) ==
  LET s == home[p] IN
  /\ Running(p) /\ pc[p] = "spawn"
  /\ IF Room(s) THEN admit(p, s, carrier[p], loads, p)
     ELSE /\ pc' = [pc EXCEPT ![p] = "run"]
          /\ UNCHANGED <<scope, status, home, carrier, next_task, record_count, cached, loads,
                         borrows, obj, quiet, watch>>
  /\ UNCHANGED <<config, observed, active_scope, joinVars, kernelVars, target_waiters, report>>

release_reservation(t) ==
  LET s == home[t] IN
  /\ status' = [status EXCEPT ![t] = "released"]
  /\ record_count' = record_count - 1
  /\ loads' = [loads EXCEPT !.assigned[carrier[t]] = @ - 1]
  /\ scope' = [scope EXCEPT ![s].records = @ \ {t}, ![s].admitted = @ - 1]
  /\ Moved(s) /\ notify

\* The second half of submit_with: the packet goes to the inbox or is undone.
\* A local child goes to the carrier's starts, unless it gets no stack.
push(p) ==
  LET t == obj[p] IN
  /\ Goto(p, "push", IF p \in Owners THEN "body" ELSE "run")
  /\ obj' = [obj EXCEPT ![p] = NONE]
  /\ \/ /\ borrows[t] = NONE => can_accept(carrier[t])
        /\ status' = [status EXCEPT ![t] = IF borrows[t] = NONE THEN "queued" ELSE "start"]
        /\ UNCHANGED <<scope, record_count, loads, quiet, watch>>
     \/ (borrows[t] = NONE => ~can_accept(carrier[t])) /\ release_reservation(t)
  /\ UNCHANGED <<config, home, carrier, observed, next_task, cached, active_scope, borrows,
                 joinVars, kernelVars, target_waiters, report>>

-----------------------------------------------------------------------------
(* Completion and joins *)

Idle(c) == in_flight[c] = NONE /\ publishing[c] = NONE /\ aborting[c] = NONE
Stays == UNCHANGED <<config, admVars, retired_tasks, completions, publishing, aborts, aborting,
                     target_waiters, report>>

\* The handle of t is free and held by p: join and wait borrow it mutably.  A
\* local child is left to the drain of its parent.
Claims(p, t) ==
  /\ status[t] # "none" /\ status[t] # "released" /\ joiner[t] = NONE /\ p # t
  /\ borrows[t] \in {NONE, p}
  /\ t \notin observed /\ \A q \in Procs : pc[q] = "push" => obj[q] # t

\* LocalScope::drain is shielded: its waits outlast a cancellation of the scope.
Shielded(p, t) == borrows[t] = p
Interrupted(p) == scope[home[p]].cancelled /\ ~Shielded(p, obj[p])

\* wait_for announces itself before it takes the map lock ...
announce(p, t) ==
  /\ Running(p) /\ Claims(p, t)
  /\ Shielded(p, t) \/ (config.sharing /\ t \notin done /\ ~scope[home[p]].cancelled)
  /\ Goto(p, "run", "subscribe") /\ obj' = [obj EXCEPT ![p] = t]
  /\ joiner' = [joiner EXCEPT ![t] = p]
  /\ registered' = [registered EXCEPT ![t] = @ + 1]
  /\ Stays /\ UNCHANGED <<scope, recVars, done, waiters, notices, in_flight, quiet, watch>>

\* ... and enters the map unless DONE came first.
subscribe(p, t) ==
  IF t \in done
  THEN /\ registered' = [registered EXCEPT ![t] = @ - 1]
       /\ notices' = notices \cup {p} /\ UNCHANGED waiters
  ELSE waiters' = [waiters EXCEPT ![t] = @ \cup {p}] /\ UNCHANGED <<registered, notices>>

enroll(p) ==
  /\ Running(p) /\ Goto(p, "subscribe", "joining") /\ subscribe(p, obj[p])
  /\ Stays /\ UNCHANGED <<scope, recVars, done, joiner, obj, in_flight, quiet, watch>>

\* Mutant: the drop gives the count back even when complete already did.
Unsubscribe_again(p, t) ==
  /\ joiner' = [joiner EXCEPT ![t] = NONE]
  /\ waiters' = [waiters EXCEPT ![t] = @ \ {p}]
  /\ registered' = [registered EXCEPT ![t] = @ - 1]

\* Drop of CompletionWait by p.
Unsubscribe(p, t) ==
  /\ joiner' = [joiner EXCEPT ![t] = NONE]
  /\ waiters' = [waiters EXCEPT ![t] = @ \ {p}]
  /\ registered' = IF p \in waiters[t] THEN [registered EXCEPT ![t] = @ - 1] ELSE registered

\* wait_for returns: the target is done, or park was cancelled.  The drain
\* takes the outcome of every child, a join may fail to.
leave_wait(p) ==
  LET t == obj[p] IN
  /\ Running(p) /\ Goto(p, "joining", "run") /\ (t \in done \/ Interrupted(p))
  /\ obj' = [obj EXCEPT ![p] = NONE]
  /\ Unsubscribe(p, t) /\ notices' = notices \ {p}
  /\ \/ observed' = observed /\ ~Shielded(p, t)
     \/ observed' = observed \cup {t} /\ t \in done
  /\ Stays /\ UNCHANGED <<scope, status, home, carrier, done, in_flight, quiet, watch>>

\* A stored permit sends the loop round, otherwise the task parks.
park(p) ==
  /\ Running(p) /\ pc[p] = "joining" /\ obj[p] \notin done /\ ~Interrupted(p)
  /\ IF p \in notices
     THEN notices' = notices \ {p} /\ UNCHANGED <<status, in_flight, quiet, watch>>
     ELSE /\ status' = [status EXCEPT ![p] = "parked"]
          /\ in_flight' = [in_flight EXCEPT ![carrier[p]] = NONE]
          /\ transition(home[p]) /\ UNCHANGED notices
  /\ Stays /\ UNCHANGED <<scope, home, carrier, observed, done, waiters, registered, joiner, pc, obj>>

\* The carrier handles the wake of a parked task.
wake(p) ==
  /\ status[p] = "parked" /\ p \in notices /\ Idle(carrier[p])
  /\ status' = [status EXCEPT ![p] = "ready"] /\ notices' = notices \ {p}
  /\ transition(home[p])
  /\ Stays /\ UNCHANGED <<scope, home, carrier, observed, done, waiters, registered, joiner, pc, obj, in_flight>>

\* The body of t returned or panicked and its stack was reclaimed: its record
\* becomes terminal and Completion::complete sets DONE over the announced count.
\* A local scope it opened has drained its children.
complete_task(t, st) ==
  /\ \A u \in Tasks : borrows[u] = t => u \in observed \/ status[u] = "released"
  /\ Running(t) /\ Goto(t, "run", IF registered[t] = 0 THEN "retire" ELSE "drain")
  /\ status' = [status EXCEPT ![t] = st] /\ done' = done \cup {t}
  /\ Stays /\ UNCHANGED <<scope, home, carrier, observed, waiters, registered, joiner, notices,
                          obj, in_flight, quiet, watch>>

\* ... then the map is drained and every waiter notified.
drain(t) ==
  /\ Goto(t, "drain", "retire")
  /\ waiters' = [waiters EXCEPT ![t] = {}]
  /\ registered' = [registered EXCEPT ![t] = @ - Cardinality(waiters[t])]
  /\ notices' = notices \cup waiters[t]
  /\ Stays /\ UNCHANGED <<scope, recVars, done, joiner, obj, in_flight, quiet, watch>>

-----------------------------------------------------------------------------
(* Retirement in batches *)

may_defer_completion == target_waiters = 0 /\ stall = "off"

\* ScopeProgress::retire of batch b, and whether it drained the scope.
retire(c, b) ==
  LET s == home[CHOOSE t \in b : TRUE]
      now == [scope[s] EXCEPT !.retired = @ + Cardinality(b),
                              !.failed = @ \cup {t \in b : status[t] \in Failed}]
  IN /\ scope' = [scope EXCEPT ![s] = now]
     /\ publishing' = [publishing EXCEPT ![c] = [count |-> Cardinality(b),
                                                 drained |-> now.retired = now.admitted]]
     /\ completions' = [completions EXCEPT ![c] = {}]
     /\ Moved(s)

\* CompletionBatch::push: one scope's terminal tasks of one carrier.
Batched(c, t) == completions[c] \cup {t}

full(b) == Cardinality(b) = BatchSize \/ ~may_defer_completion
nothing_ready(c) == Here(c, {"ready"}) = {}

\* The completed task joins the batch, which queue_completion flushes when it
\* is full or may not wait, and complete_task when nothing else is ready.
\* Shared::complete publishes an aborted task alone: abort emptied the batch.
queue_completion(t) ==
  LET c == carrier[t]
      b == Batched(c, t)
  IN /\ pc[t] = "retire" /\ pc' = [pc EXCEPT ![t] = "gone"]
     /\ in_flight' = [in_flight EXCEPT ![c] = NONE]
     /\ IF status[t] = "aborted" \/ full(b) \/ nothing_ready(c)
        THEN retire(c, b)
        ELSE /\ completions' = [completions EXCEPT ![c] = b]
             /\ UNCHANGED <<scope, publishing, watch>>
     /\ UNCHANGED <<config, recVars, admVars, joinVars, obj, aborts, aborting, retired_tasks,
                    quiet, target_waiters, report>>

\* tick flushes before another scope's task runs and when nothing is ready;
\* abort flushes first.
flush_due(c) ==
  \/ nothing_ready(c)
  \/ \E t \in Here(c, {"ready"}) : \E u \in completions[c] : home[u] # home[t]
  \/ aborts[c] # {}

flush_completions(c) ==
  /\ Idle(c) /\ completions[c] # {} /\ flush_due(c) /\ retire(c, completions[c])
  /\ UNCHANGED <<config, recVars, admVars, joinVars, pc, obj, in_flight, aborts, aborting,
                 retired_tasks, quiet, target_waiters, report>>

\* Mutant: scope waits are taken for target waits.
told_targets(c) == target_waiters # 0 \/ stall # "off"

told(c) == publishing[c].drained \/ target_waiters # 0 \/ stall # "off"

\* The rest of publish_completions.
publish_completions(c) ==
  /\ publishing[c] # NONE
  /\ retired_tasks' = [retired_tasks EXCEPT ![c] = @ + publishing[c].count]
  /\ IF told(c) THEN notify ELSE UNCHANGED quiet
  /\ publishing' = [publishing EXCEPT ![c] = NONE]
  /\ UNCHANGED <<config, scope, recVars, admVars, joinVars, pc, obj, in_flight, completions,
                 aborts, aborting, target_waiters, watch, report>>

-----------------------------------------------------------------------------
(* The carriers *)

receive(c) ==
  /\ Idle(c) /\ Here(c, {"queued"}) # {}
  /\ status' = [t \in Tasks |-> IF t \in Here(c, {"queued"}) THEN "ready" ELSE status[t]]
  /\ UNCHANGED <<config, scope, home, carrier, observed, admVars, joinVars, pc, obj, kernelVars,
                 waitVars, report>>

\* receive_local_tasks takes every local start.
receive_local(c) ==
  /\ Idle(c) /\ Here(c, {"start"}) # {}
  /\ status' = [t \in Tasks |-> IF t \in Here(c, {"start"}) THEN "ready" ELSE status[t]]
  /\ watch' = [o \in Owners |->
                 IF stall # "off" /\ \E t \in Here(c, {"start"}) : home[t] = o
                 THEN [watch[o] EXCEPT !.moved = TRUE] ELSE watch[o]]
  /\ (IF stall = "off" THEN UNCHANGED quiet ELSE notify)
  /\ UNCHANGED <<config, scope, home, carrier, observed, admVars, joinVars, pc, obj, kernelVars,
                 target_waiters, report>>

dispatch(c, t) ==
  /\ Idle(c) /\ t \in Here(c, {"ready"}) /\ ~scope[home[t]].aborting
  /\ \A u \in completions[c] : home[u] = home[t]
  /\ status' = [status EXCEPT ![t] = "running"]
  /\ in_flight' = [in_flight EXCEPT ![c] = t]
  /\ transition(home[t])
  /\ UNCHANGED <<config, scope, home, carrier, observed, admVars, joinVars, pc, obj, completions,
                 publishing, aborts, aborting, retired_tasks, target_waiters, report>>

\* Kernel::abort for a scope named by the inbox, or by abort_reason of the
\* task about to run.
begin_abort(c, s) ==
  /\ Idle(c) /\ completions[c] = {}
  /\ s \in aborts[c] \/ (scope[s].aborting /\ \E t \in Here(c, {"ready"}) : home[t] = s)
  /\ aborting' = [aborting EXCEPT ![c] = s] /\ aborts' = [aborts EXCEPT ![c] = @ \ {s}]
  /\ UNCHANGED <<config, scope, recVars, admVars, joinVars, pc, obj, in_flight, completions,
                 publishing, retired_tasks, waitVars, report>>

\* What abort reclaims: take_starts hands it the local starts too.
Discarded == {"queued", "start", "ready", "parked"}

\* discard_pending and discard_in_flight: the stack is dropped, and with it
\* the subscription of a joining task and the LocalScope, which takes the
\* outcomes of its children.
discard(c, t) ==
  /\ aborting[c] # NONE /\ in_flight[c] = NONE /\ publishing[c] = NONE
  /\ t \in Here(c, Discarded) /\ home[t] = aborting[c]
  /\ status' = [status EXCEPT ![t] = "aborted"] /\ in_flight' = [in_flight EXCEPT ![c] = t]
  /\ pc' = [pc EXCEPT ![t] = IF registered[t] = 0 THEN "retire" ELSE "drain"]
  /\ obj' = [obj EXCEPT ![t] = NONE] /\ done' = done \cup {t}
  /\ IF pc[t] = "joining"
     THEN Unsubscribe(t, obj[t]) /\ notices' = notices \ {t}
     ELSE UNCHANGED <<waiters, registered, joiner, notices>>
  /\ observed' = observed \cup {u \in Tasks : borrows[u] = t}
  /\ UNCHANGED <<config, scope, home, carrier, admVars, completions, publishing, aborts,
                 aborting, retired_tasks, waitVars, report>>

end_abort(c) ==
  /\ aborting[c] # NONE /\ in_flight[c] = NONE /\ publishing[c] = NONE
  /\ \A t \in Here(c, Discarded) : home[t] # aborting[c]
  /\ aborting' = [aborting EXCEPT ![c] = NONE]
  /\ UNCHANGED <<config, scope, recVars, admVars, joinVars, pc, obj, in_flight, completions,
                 publishing, aborts, retired_tasks, waitVars, report>>

-----------------------------------------------------------------------------
(* The owners *)

Rests == UNCHANGED <<config, status, home, carrier, admVars, in_flight, completions, publishing,
                     aborting, retired_tasks>>

\* cancel reaches the parked joins of the scope, but no drain.
Cancelled(s) == {t \in Tasks : home[t] = s /\ status[t] = "parked" /\ ~Shielded(t, obj[t])}

\* with_scope after the body: close_scope, and cancel when it failed.
close_scope(o, failed) ==
  /\ ~scope[o].supervised /\ Goto(o, "body", "version")
  /\ scope' = [scope EXCEPT ![o].admitting = FALSE, ![o].cancelled = @ \/ failed]
  /\ notices' = IF failed THEN notices \cup Cancelled(o) ELSE notices
  /\ watch' = [watch EXCEPT ![o] = Calm]
  /\ Rests /\ UNCHANGED <<observed, done, waiters, registered, joiner, obj, aborts, quiet, target_waiters, report>>

\* Supervisor::close: abort_scope marks the scope under the lock ...
abort_scope(o, until) ==
  /\ scope[o].supervised /\ Goto(o, "body", "aborts")
  /\ scope' = [scope EXCEPT ![o].admitting = FALSE, ![o].aborting = TRUE]
  /\ watch' = [watch EXCEPT ![o] = [Calm EXCEPT !.until = until]]
  /\ Rests /\ UNCHANGED <<observed, joinVars, obj, aborts, quiet, target_waiters, report>>

\* ... then names it to every inbox, cancels it and signals.
abort_inboxes(o) ==
  /\ Goto(o, "aborts", "version")
  /\ aborts' = [c \in Carriers |-> aborts[c] \cup {o}]
  /\ IF watch[o].stalled
     THEN UNCHANGED <<scope, notices, quiet>>
     ELSE /\ scope' = [scope EXCEPT ![o].cancelled = TRUE]
          /\ notices' = notices \cup Cancelled(o) /\ notify
  /\ Rests /\ UNCHANGED <<observed, done, waiters, registered, joiner, obj, target_waiters, watch, report>>

\* JoinHandle::wait from an OS thread registers before it looks.
os_join(o, t) ==
  /\ config.joins /\ Claims(o, t) /\ home[t] = o /\ t \notin done /\ Goto(o, "body", "version")
  /\ obj' = [obj EXCEPT ![o] = t] /\ joiner' = [joiner EXCEPT ![t] = o]
  /\ target_waiters' = target_waiters + 1
  /\ watch' = [watch EXCEPT ![o] = Calm]
  /\ Rests /\ UNCHANGED <<scope, observed, done, waiters, registered, notices, aborts, quiet, report>>

version(o) ==
  /\ Goto(o, "version", "look") /\ quiet' = quiet \cup {o}
  /\ Rests /\ UNCHANGED <<scope, observed, joinVars, obj, aborts, target_waiters, watch, report>>

Live(o) == {t \in scope[o].records : status[t] \notin Terminal}

\* Mutant: terminal tasks no longer count, reclaimed or not.
active_live(o) == Cardinality(Live(o))

active(o) == scope[o].admitted - scope[o].retired
\* publish_completions holds the lock when stalls are detected.
Unlocked == stall # "off" => \A c \in Carriers : publishing[c] = NONE

\* Every live record is parked and none is among the pending_tasks of a hub.
quiescent(o, pending) ==
  /\ stall # "off" /\ Live(o) # {}
  /\ \A t \in Live(o) : status[t] = "parked" /\ t \notin pending

Finished(o) == active(o) = 0 \/ (obj[o] # NONE /\ obj[o] \in done /\ ~watch[o].stalled)

\* The locked pass of wait_until, with the bookkeeping of quiescence.  A notice
\* that is not yet in a hub, was taken from it or is in a carrier's own queue
\* is not among the pending ones.
look(o, pending) ==
  LET w == IF watch[o].moved THEN [watch[o] EXCEPT !.moved = FALSE, !.since = FALSE,
                                                   !.late = FALSE, !.reported = FALSE]
                             ELSE watch[o]
      timing == /\ quiescent(o, pending) /\ ~scope[o].supervised /\ ~scope[o].aborting
                /\ ~w.stalled /\ ~w.reported
      fire == timing /\ w.late
  IN /\ pc[o] = "look" /\ Unlocked
     /\ IF Finished(o)
        THEN /\ pc' = [pc EXCEPT ![o] = IF obj[o] = NONE THEN "drained" ELSE "body"]
             /\ obj' = [obj EXCEPT ![o] = NONE]
             /\ IF obj[o] = NONE
                THEN UNCHANGED <<joiner, target_waiters, observed>>
                ELSE /\ joiner' = [joiner EXCEPT ![obj[o]] = NONE]
                     /\ target_waiters' = target_waiters - 1
                     /\ observed' \in {observed} \cup
                          (IF obj[o] \in done THEN {observed \cup {obj[o]}} ELSE {})
             /\ watch' = [watch EXCEPT ![o] = [Calm EXCEPT !.stalled = watch[o].stalled]]
             /\ quiet' = quiet \ {o} /\ UNCHANGED scope
        ELSE /\ UNCHANGED <<obj, joiner, target_waiters, observed>>
             /\ IF fire /\ stall = "abort"
                THEN /\ pc' = [pc EXCEPT ![o] = "aborts"]
                     /\ scope' = [scope EXCEPT ![o].aborting = TRUE]
                     /\ watch' = [watch EXCEPT ![o] = [w EXCEPT !.stalled = TRUE, !.since = FALSE]]
                     /\ UNCHANGED quiet
                ELSE /\ pc' = [pc EXCEPT ![o] = IF fire THEN "version" ELSE "blocked"]
                     /\ watch' = [watch EXCEPT ![o] =
                          [w EXCEPT !.since = timing, !.late = FALSE, !.reported = @ \/ fire]]
                     /\ IF fire THEN notify ELSE UNCHANGED quiet
                     /\ UNCHANGED scope
     /\ Rests /\ UNCHANGED <<done, waiters, registered, notices, aborts, report>>

\* Signal::wait: a notification since version, the stall timeout ...
unblock(o) ==
  /\ Goto(o, "blocked", "version")
  /\ \/ o \notin quiet /\ UNCHANGED watch
     \/ watch[o].since /\ watch' = [watch EXCEPT ![o].late = TRUE]
  /\ quiet' = quiet \ {o}
  /\ Rests /\ UNCHANGED <<scope, observed, joinVars, obj, aborts, target_waiters, report>>

\* ... or the deadline of shutdown_until: the supervisor keeps its work.
time_out(o) ==
  /\ watch[o].until /\ ~Finished(o) /\ Unlocked /\ Goto(o, "look", "body")
  /\ quiet' = quiet \ {o}
  /\ Rests /\ UNCHANGED <<scope, observed, joinVars, obj, aborts, target_waiters, watch, report>>

\* What the owner reports once its scope is drained: unobserved names the
\* failures no handle has taken; a supervisor's scope_report only counts.
unobserved(o) ==
  /\ Goto(o, "drained", "reported")
  /\ report' = [report EXCEPT ![o] = IF o \in Supervisors THEN {}
                                     ELSE (scope[o].failed \cap scope[o].records) \ observed]
  /\ UNCHANGED <<config, scope, recVars, admVars, joinVars, obj, kernelVars, waitVars>>

\* Under the lock again, the scope is removed and records whose cell has no
\* other owner are recycled, as far as the cache goes.
finish_scope(o) ==
  /\ Goto(o, "reported", "end")
  /\ record_count' = record_count - Cardinality(scope[o].records)
  /\ \E keep \in {{}, {t \in scope[o].records : joiner[t] = NONE}} :
       cached' = cached \cup (IF Cardinality(cached \cup keep) <= CacheCapacity THEN keep ELSE {})
  /\ active_scope' = IF active_scope = o THEN NONE ELSE active_scope
  /\ scope' = [scope EXCEPT ![o].open = FALSE, ![o].records = {}]
  /\ aborts' = [c \in Carriers |-> aborts[c] \ {o}]
  /\ UNCHANGED <<config, recVars, next_task, loads, borrows, joinVars, obj, in_flight,
                 completions, publishing, aborting, retired_tasks, waitVars, report>>

-----------------------------------------------------------------------------
OwnerStep(o) ==
  \/ begin_owned(o)
  \/ \E b \in BOOLEAN : close_scope(o, b) \/ (abort_scope(o, b) /\ (b => config.until /\ ~watch[o].until))
  \/ pc[o] = "body" /\ \E s \in Owners : (s = o \/ config.sharing) /\ reserve_with(o, s)
  \/ \E t \in Tasks : os_join(o, t)
  \/ \E pending \in SUBSET notices : look(o, pending)
  \/ push(o) \/ abort_inboxes(o) \/ version(o) \/ unblock(o) \/ time_out(o)
  \/ unobserved(o) \/ finish_scope(o)

TaskStep(t) ==
  \/ \E u \in Tasks : announce(t, u)
  \/ config.sharing /\ Running(t) /\ pc[t] = "run" /\ \E s \in Owners : reserve_with(t, s)
  \/ spawn(t) \/ reserve_local(t) \/ push(t) \/ enroll(t) \/ leave_wait(t) \/ park(t) \/ wake(t)
  \/ complete_task(t, "completed") \/ (t \in Panics /\ complete_task(t, "panicked"))
  \/ drain(t) \/ queue_completion(t)

KernelStep(c) ==
  \/ receive(c) \/ receive_local(c) \/ flush_completions(c) \/ publish_completions(c) \/ end_abort(c)
  \/ \E t \in Tasks : dispatch(c, t) \/ discard(c, t)
  \/ \E s \in Owners : begin_abort(c, s)

Next == (\E o \in Owners : OwnerStep(o)) \/ (\E t \in Tasks : TaskStep(t)) \/ (\E c \in Carriers : KernelStep(c))
Spec == Init /\ [][Next]_vars

\* Owners wait, tasks and carriers run.  The body of an owner may go on for
\* ever, but that of a task ends: it does not retry a refused spawn for ever.
Waits(o) ==
  \/ push(o) \/ abort_inboxes(o) \/ version(o) \/ unblock(o) \/ unobserved(o) \/ finish_scope(o)
  \/ \E pending \in SUBSET notices : look(o, pending)
FairSpec ==
  /\ Spec
  /\ WF_vars(\E o \in Owners : Waits(o))
  /\ WF_vars(\E t \in Tasks : TaskStep(t))
  /\ SF_vars(\E t \in Tasks : complete_task(t, "completed"))
  /\ WF_vars(\E c \in Carriers : KernelStep(c))

-----------------------------------------------------------------------------
(* Properties *)

TypeOK ==
  /\ \A o \in Owners : DOMAIN scope[o] = DOMAIN NoScope
  /\ next_task \in 1..(MaxTasks + 1) /\ record_count \in 0..MaxVthreads
  /\ observed \subseteq Tasks /\ done \subseteq Tasks /\ notices \subseteq Tasks

\* The tasks whose admission credit was given back.
Retired(S) == {t \in S : pc[t] = "gone" /\ \A c \in Carriers : t \notin completions[c]}

\* control_scope_progress.rs:88, control_placement.rs:79: the counters that
\* admission, rollback, eviction, batches and scope exit keep apart agree
\* with the tasks, so no checked_sub can fail.
CountsAgree ==
  /\ record_count = Cardinality(UNION {scope[o].records : o \in Owners})
  /\ \A o \in Owners :
       /\ scope[o].records \subseteq OfScope(o)
       /\ scope[o].admitted = Cardinality(OfScope(o))
       /\ scope[o].retired = Cardinality(Retired(OfScope(o)))
  /\ \A c \in Carriers :
       LET mine == {t \in Tasks : carrier[t] = c /\ status[t] # "released"}
           late == IF publishing[c] = NONE THEN 0 ELSE publishing[c].count
       IN /\ loads.assigned[c] = Cardinality(mine)
          /\ retired_tasks[c] + late = Cardinality(Retired(mine))
          /\ loads.observed[c] <= retired_tasks[c]
  /\ \A t \in Tasks :
       registered[t] = Cardinality(waiters[t]) + Cardinality({p \in Tasks : pc[p] = "subscribe" /\ obj[p] = t})

\* runtime_scope.rs:93: a scope is given up only when every task it ever
\* admitted was reclaimed and retired, whatever races its last completion:
\* a task of a closed scope still admits local children to it.
ScopeDrained ==
  \A o \in Owners :
    pc[o] \in {"drained", "reported", "end"} => Retired(OfScope(o)) = OfScope(o)

\* control_scope.rs:207: a failure that no handle took reaches the report of
\* its root scope, although records are evicted and failures published in
\* batches.
FailuresReported ==
  \A o \in Owners \ Supervisors :
    pc[o] \in {"reported", "end"} =>
      {t \in OfScope(o) : status[t] \in Failed} \ observed \subseteq report[o]

\* A set of tasks that all join one another.
JoinCycle ==
  \E S \in SUBSET Tasks \ {{}} :
    \A t \in S : status[t] = "parked" /\ pc[t] = "joining" /\ obj[t] \in S

Waiting(o) == pc[o] \in {"aborts", "version", "look", "blocked"}

\* control_wait.rs:40, completion.rs:79: every OS wait for a scope or a task
\* returns, and with it every join the tasks make, unless the tasks wait for
\* one another and no stall policy ends that; an owner waits a bounded number
\* of times, so there comes a time when none does.
WaitsReturn ==
  (\E o \in Owners : Waiting(o))
    ~> (\A o \in Owners : ~Waiting(o)) \/ (stall # "abort" /\ JoinCycle)
=============================================================================
