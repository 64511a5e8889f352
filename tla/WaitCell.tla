------------------------------ MODULE WaitCell ------------------------------
(***************************************************************************)
(* The wait-generation protocol of crates/vthread: one atomic WaitWord per *)
(* wait cell, the tasks that park on it, the selectors that wake it, and   *)
(* the carrier kernel that receives wake notices and resumes tasks.        *)
(*                                                                         *)
(* Every load / compare-exchange retry loop whose decision is a function   *)
(* of the word alone is one action taken at the successful exchange (or at *)
(* the deciding load); begin, which reads the cell's target between load   *)
(* and exchange, keeps its steps apart.  A carrier is one OS thread: `busy`*)
(* names the task or selector that occupies it in the middle of a call.    *)
(***************************************************************************)
EXTENDS Naturals, FiniteSets

CONSTANTS
  Cells,          \* wait cells (WaitInner)
  Resident,       \* cells cached by one task for synchronization primitives
  Tasks,          \* tasks; a task is also its route (one slab key each)
  Hubs,           \* carriers, one WaitHub each
  HubOf,          \* the carrier of a task: tasks never migrate
  Scopes,         \* sets of tasks that one abort request covers on a carrier
  ScopeOf,        \* the scope of a task
  Parkers,        \* the tasks that can reach a cell's Parker
  Selectors,      \* threads that wake cells
  CarrierOf,      \* the carrier a selector runs on, or Outside
  MaxGeneration,  \* MAX_GENERATION of the packed word
  None,           \* no task / no hub
  Free,           \* the carrier thread runs its kernel
  Outside         \* a selector on an ordinary OS thread

ASSUME WaitCellAssumption ==
  /\ Resident \subseteq Cells
  /\ HubOf \in [Tasks -> Hubs]
  /\ ScopeOf \in [Tasks -> Scopes]
  /\ \A t, u \in Tasks : ScopeOf[t] = ScopeOf[u] => HubOf[t] = HubOf[u]
  /\ Parkers \in [Cells -> SUBSET Tasks]
  /\ \A c \in Resident : \A t, u \in Parkers[c] : t = u
  /\ CarrierOf \in [Selectors -> Hubs \cup {Outside}]
  /\ MaxGeneration \in Nat
  /\ Tasks \cap Selectors = {}
  /\ None \notin Tasks \cup Hubs \cup Cells
  /\ Free \notin Tasks /\ Free \notin Selectors
  /\ Outside \notin Hubs

VARIABLES
  word,         \* [Cells -> Word], the atomic state
  boundTask,    \* the task/route atomics of the target
  primaryHub,   \* OnceLock<Arc<WaitHub>>
  fallbackHub,  \* Mutex<Option<Arc<WaitHub>>>
  tpc,          \* where each task is in a park call
  tcell,        \* the cell of that call
  tword,        \* the word begin() last observed
  thub,         \* what cached_target / bind_target returned
  tgen,         \* the generation of the task's ParkToken
  tcause,       \* the cause of the notice that made the task ready
  spc,          \* where each selector is in enqueue_selected
  scell,        \* the cell it claimed
  sclaim,       \* the claimed word it installed
  shub,         \* the hub it must signal after an observed publication
  inbox,        \* WaitHub.ready, one slot per route
  local,        \* LocalCarrier.wakes
  deferred,     \* Kernel.deferred_wakes
  recheck,      \* deferred notices the current tick has still to revisit
  signalled,    \* the hub's Signal epoch has moved since the last tick
  aborting,     \* per scope: pending_aborts and aborts carried out
  busy,         \* who occupies the carrier thread
  stored        \* history: a real permit is stored in the cell

cellVars == <<word, boundTask, primaryHub, fallbackHub, stored>>
taskVars == <<tpc, tcell, tword, thub, tgen, tcause>>
selVars == <<spc, scell, sclaim, shub>>
kernelVars == <<inbox, local, deferred, recheck, signalled, aborting>>
vars == <<cellVars, taskVars, selVars, kernelVars, busy>>

Phases == {"Idle", "Binding", "Active", "Claim", "Selected"}
Causes == {"Ready", "TimedOut", "Cancelled", "InheritedCancelled", "Closed"}
Resources == {"Permit", "Broadcast"}

Word == [phase : Phases, cause : Causes \cup {"none"}, permit : BOOLEAN,
         closed : BOOLEAN, resource : Resources \cup {"none"},
         hub : {"primary", "fallback"}, gen : 0..MaxGeneration]

Notice == [task : Tasks, cell : Cells, gen : 0..MaxGeneration, cause : Causes]

TaskPcs == {"out", "begin", "probed", "binding", "bound", "registered",
            "parked", "resumed", "retire", "reparked", "gone"}
SelPcs == {"idle", "route", "routeLocal", "publish", "observed", "signal"}

-----------------------------------------------------------------------------
(* Operations on the packed word. *)

initial == [phase |-> "Idle", cause |-> "none", permit |-> FALSE,
            closed |-> FALSE, resource |-> "none", hub |-> "primary", gen |-> 0]

claimed(w, cause) == [w EXCEPT !.phase = "Claim", !.cause = cause]

publish_claim(w) == [w EXCEPT !.phase = "Selected"]

retire(w) == [w EXCEPT !.phase = "Idle", !.cause = "none", !.hub = "primary"]

with_permit(w, p) == [w EXCEPT !.permit = p]

\* Mutant: the owner's interest bit is published as a permit.
publish_observed_claim_keep(w) == publish_claim(w)

publish_observed_claim(w) == with_permit(publish_claim(w), FALSE)

\* Activation of the generation after w, with or without the fallback hub.
activated(w, hub) ==
  [w EXCEPT !.gen = w.gen + 1, !.hub = hub, !.phase = "Active"]

binding(w) == [w EXCEPT !.gen = w.gen + 1, !.phase = "Binding"]

\* begin may try to take a permit or activate a generation.
Parkable(w) == w.phase = "Idle" /\ ~w.closed

next_generation(w) == w.gen < MaxGeneration

\* Mutant: a claim that is still being published can be claimed again.
selectable_claim(w) == w.phase \in {"Active", "Claim"}

\* A wake can win the generation.
selectable(w) == w.phase = "Active"

\* A permit or close mark can be stored; Binding and Claim make it spin.
markable(w) == w.phase \in {"Idle", "Selected"}

\* Whether a resource offer finds room in the word.
resource_open(w) ==
  /\ ~w.closed
  /\ w.phase \in {"Idle", "Active"}
  /\ ~w.permit
  /\ w.resource = "none"

resource_offer(w, r) ==
  IF w.phase = "Active"
  THEN claimed([w EXCEPT !.resource = r], "Ready")
  ELSE [w EXCEPT !.resource = r, !.permit = TRUE]

\* The hub that a published word routes to.
target_hub(c, w) == IF w.hub = "fallback" THEN fallbackHub[c] ELSE primaryHub[c]

-----------------------------------------------------------------------------
(* Ownership of carrier threads. *)

Parked(t) == tpc[t] \in {"parked", "reparked"}

\* A ready task: woken, waiting for its carrier to mount it.
Woken(t) ==
  tpc[t] = "resumed" \/ (tpc[t] = "retire" /\ busy[HubOf[t]] # t)

KernelRuns(h) == busy[h] = Free

Retrying(h) == \E t \in Tasks : HubOf[t] = h /\ aborting[ScopeOf[t]] = "retry"

\* The tick has revisited the pending aborts and the deferred wakes: only then
\* does it look at timers, other wakes and ready tasks.
Settled(h) == KernelRuns(h) /\ recheck[h] = {} /\ ~Retrying(h)

\* The tasks of a pending abort are passed over (select_unblocked).
Mountable(t) == Settled(HubOf[t]) /\ aborting[ScopeOf[t]] # "wait"

CanSelect(s) == CarrierOf[s] # Outside => Settled(CarrierOf[s])

Occupy(s) ==
  busy' = IF CarrierOf[s] = Outside THEN busy
          ELSE [busy EXCEPT ![CarrierOf[s]] = s]

Vacate(s) ==
  busy' = IF CarrierOf[s] = Outside THEN busy
          ELSE [busy EXCEPT ![CarrierOf[s]] = Free]

Init ==
  /\ word = [c \in Cells |-> initial]
  /\ boundTask = [c \in Cells |-> None]
  /\ primaryHub = [c \in Cells |-> None]
  /\ fallbackHub = [c \in Cells |-> None]
  /\ stored = [c \in Cells |-> FALSE]
  /\ tpc = [t \in Tasks |-> "out"]
  /\ tcell = [t \in Tasks |-> None]
  /\ tword = [t \in Tasks |-> initial]
  /\ thub = [t \in Tasks |-> "miss"]
  /\ tgen = [t \in Tasks |-> 0]
  /\ tcause = [t \in Tasks |-> "none"]
  /\ spc = [s \in Selectors |-> "idle"]
  /\ scell = [s \in Selectors |-> None]
  /\ sclaim = [s \in Selectors |-> initial]
  /\ shub = [s \in Selectors |-> None]
  /\ inbox = [h \in Hubs |-> {}]
  /\ local = [h \in Hubs |-> {}]
  /\ deferred = [h \in Hubs |-> {}]
  /\ recheck = [h \in Hubs |-> {}]
  /\ signalled = [h \in Hubs |-> FALSE]
  /\ aborting = [x \in Scopes |-> "no"]
  /\ busy = [h \in Hubs |-> Free]

-----------------------------------------------------------------------------
(* The parking task: begin, registration, suspension, finish, rollback.    *)

\* The park calls of the tasks in R end.
Leave(R, pc) ==
  /\ tpc' = [t \in Tasks |-> IF t \in R THEN pc ELSE tpc[t]]
  /\ tcell' = [t \in Tasks |-> IF t \in R THEN None ELSE tcell[t]]
  /\ tword' = [t \in Tasks |-> IF t \in R THEN initial ELSE tword[t]]
  /\ thub' = [t \in Tasks |-> IF t \in R THEN "miss" ELSE thub[t]]
  /\ tgen' = [t \in Tasks |-> IF t \in R THEN 0 ELSE tgen[t]]
  /\ tcause' = [t \in Tasks |-> IF t \in R THEN "none" ELSE tcause[t]]

\* The park call returns to its caller; the task keeps running elsewhere.
Return(t) == Leave({t}, "out")

Unmount(t) == busy' = [busy EXCEPT ![HubOf[t]] = Free]

BeginLoad(t, c) ==
  /\ tpc[t] = "out"
  /\ Mountable(t)
  /\ t \in Parkers[c]
  /\ tpc' = [tpc EXCEPT ![t] = "begin"]
  /\ tcell' = [tcell EXCEPT ![t] = c]
  /\ tword' = [tword EXCEPT ![t] = word[c]]
  /\ busy' = [busy EXCEPT ![HubOf[t]] = t]
  /\ UNCHANGED <<cellVars, thub, tgen, tcause, selVars, kernelVars>>

\* ParkerBusy, Immediate(Closed), Immediate(TimedOut) on an expired deadline,
\* or an exhausted generation space.
BeginReturn(t) ==
  /\ tpc[t] = "begin"
  /\ ~Parkable(tword[t]) \/ ~tword[t].permit
  /\ Return(t)
  /\ Unmount(t)
  /\ UNCHANGED <<cellVars, selVars, kernelVars>>

\* Immediate(Ready): consume the stored permit.
BeginTakePermit(t) ==
  LET c == tcell[t] w == tword[t] IN
  /\ tpc[t] = "begin"
  /\ Parkable(w) /\ w.permit
  /\ word[c] = w
  /\ word' = [word EXCEPT ![c] = with_permit(w, FALSE)]
  /\ stored' = [stored EXCEPT ![c] = FALSE]
  /\ Return(t)
  /\ Unmount(t)
  /\ UNCHANGED <<boundTask, primaryHub, fallbackHub, selVars, kernelVars>>

\* Mutant: a cell bound to another task of the same carrier counts as cached.
cached_target_any_task(c, t) ==
  CASE primaryHub[c] = HubOf[t] -> "primary"
    [] primaryHub[c] # HubOf[t] /\ fallbackHub[c] = HubOf[t] -> "fallback"
    [] OTHER -> "miss"

\* Which hub of the cell already names this task's carrier, if the cell is
\* bound to the task; otherwise the target must be bound.
cached_target(c, t) ==
  CASE boundTask[c] # t \/ primaryHub[c] = None -> "miss"
    [] boundTask[c] = t /\ primaryHub[c] = HubOf[t] -> "primary"
    [] boundTask[c] = t /\ primaryHub[c] \notin {None, HubOf[t]} ->
         IF fallbackHub[c] = HubOf[t] THEN "fallback" ELSE "miss"

BeginProbe(t) ==
  /\ tpc[t] = "begin"
  /\ Parkable(tword[t]) /\ ~tword[t].permit
  /\ next_generation(tword[t])
  /\ thub' = [thub EXCEPT ![t] = cached_target(tcell[t], t)]
  /\ tpc' = [tpc EXCEPT ![t] = "probed"]
  /\ UNCHANGED <<cellVars, tcell, tword, tgen, tcause, selVars, kernelVars, busy>>

BeginActivate(t) ==
  LET c == tcell[t] w == tword[t] IN
  /\ tpc[t] = "probed"
  /\ thub[t] # "miss"
  /\ word[c] = w
  /\ word' = [word EXCEPT ![c] = activated(w, thub[t])]
  /\ tgen' = [tgen EXCEPT ![t] = w.gen + 1]
  /\ tpc' = [tpc EXCEPT ![t] = "registered"]
  /\ UNCHANGED <<boundTask, primaryHub, fallbackHub, stored, tcell, tword,
                 thub, tcause, selVars, kernelVars, busy>>

BeginBinding(t) ==
  LET c == tcell[t] w == tword[t] IN
  /\ tpc[t] = "probed"
  /\ thub[t] = "miss"
  /\ word[c] = w
  /\ word' = [word EXCEPT ![c] = binding(w)]
  /\ tpc' = [tpc EXCEPT ![t] = "binding"]
  /\ UNCHANGED <<boundTask, primaryHub, fallbackHub, stored, tcell, tword,
                 thub, tgen, tcause, selVars, kernelVars, busy>>

\* A failed exchange observed another word: decide again from that word.
BeginRetry(t) ==
  /\ \/ tpc[t] = "probed"
     \/ tpc[t] = "begin" /\ Parkable(tword[t]) /\ tword[t].permit
  /\ word[tcell[t]] # tword[t]
  /\ tword' = [tword EXCEPT ![t] = word[tcell[t]]]
  /\ thub' = [thub EXCEPT ![t] = "miss"]
  /\ tpc' = [tpc EXCEPT ![t] = "begin"]
  /\ UNCHANGED <<cellVars, tcell, tgen, tcause, selVars, kernelVars, busy>>

bind_target(t) ==
  LET c == tcell[t]
      primary == IF primaryHub[c] = None THEN HubOf[t] ELSE primaryHub[c]
  IN
  /\ tpc[t] = "binding"
  /\ boundTask' = [boundTask EXCEPT ![c] = t]
  /\ primaryHub' = [primaryHub EXCEPT ![c] = primary]
  /\ fallbackHub' = IF primary = HubOf[t] THEN fallbackHub
                    ELSE [fallbackHub EXCEPT ![c] = HubOf[t]]
  /\ thub' = [thub EXCEPT ![t] =
                     IF primary = HubOf[t] THEN "primary" ELSE "fallback"]
  /\ tpc' = [tpc EXCEPT ![t] = "bound"]
  /\ UNCHANGED <<word, stored, tcell, tword, tgen, tcause, selVars, kernelVars, busy>>

\* A plain store: whatever the word holds is overwritten.
BeginPublish(t) ==
  LET c == tcell[t] w == tword[t] IN
  /\ tpc[t] = "bound"
  /\ word' = [word EXCEPT ![c] = activated(w, thub[t])]
  /\ tgen' = [tgen EXCEPT ![t] = w.gen + 1]
  /\ tpc' = [tpc EXCEPT ![t] = "registered"]
  /\ UNCHANGED <<boundTask, primaryHub, fallbackHub, stored, tcell, tword,
                 thub, tcause, selVars, kernelVars, busy>>

\* Cancellation or resource registration failed before the suspension.
FailRegistration(t) ==
  /\ tpc[t] = "registered"
  /\ tpc' = [tpc EXCEPT ![t] = "retire"]
  /\ UNCHANGED <<cellVars, tcell, tword, thub, tgen, tcause, selVars,
                 kernelVars, busy>>

\* The fiber suspends and the kernel records its park token.
park_task(t) ==
  /\ tpc[t] = "registered"
  /\ tpc' = [tpc EXCEPT ![t] = "parked"]
  /\ Unmount(t)
  /\ UNCHANGED <<cellVars, tcell, tword, thub, tgen, tcause, selVars, kernelVars>>

\* finish / finish_plain_ready (clear = FALSE) and finish_permit_ready
\* (clear = TRUE) of a mounted task.  A claimed word makes finish spin; a
\* word that is not the selected generation is a scheduler fault, which the
\* park call rolls back.
finish(t, clear) ==
  LET c == tcell[t] w == word[c] IN
  /\ tpc[t] = "resumed"
  /\ Mountable(t)
  /\ ~(w.gen = tgen[t] /\ w.phase \in {"Claim", "Binding"})
  /\ IF w.gen = tgen[t] /\ w.phase = "Selected"
     THEN /\ word' = [word EXCEPT ![c] =
                        retire(IF clear /\ w.cause = "Ready"
                               THEN [w EXCEPT !.resource = "none"] ELSE w)]
          /\ Return(t)
     ELSE /\ tpc' = [tpc EXCEPT ![t] = "retire"]
          /\ UNCHANGED <<word, tcell, tword, thub, tgen, tcause>>
  /\ UNCHANGED <<boundTask, primaryHub, fallbackHub, stored, selVars, kernelVars, busy>>

-----------------------------------------------------------------------------
(* Retirement of a generation by its owner. *)

Mine(t, n) == n.task = t /\ n.cell = tcell[t] /\ n.gen = tgen[t]

\* Mutant: retirement forgets a generation nobody has won.
Gone_unwon(t) ==
  word[tcell[t]].gen # tgen[t] \/ word[tcell[t]].phase \in {"Idle", "Active"}

\* try_retire finds nothing to retire.
Gone(t) == word[tcell[t]].gen # tgen[t] \/ word[tcell[t]].phase = "Idle"

InFlight(t) == ~Gone(t) /\ word[tcell[t]].phase = "Claim"

\* The waits that try_retire retires for the tasks in R: Ok(Some(hub)).
Retirable(R) == {t \in R : ~Gone(t) /\ word[tcell[t]].phase # "Claim"}

\* Retired generations, and completion interest in the claimed ones.
try_retire(R) ==
  word' = [c \in Cells |->
             CASE \E t \in Retirable(R) : tcell[t] = c -> retire(word[c])
               [] \E t \in R : tcell[t] = c /\ InFlight(t) -> with_permit(word[c], TRUE)
               [] OTHER -> word[c]]

\* The queue q of each hub without the notices of the waits in R.
discard_notice(q, R) ==
  [h \in Hubs |-> {n \in q[h] : \A t \in R : ~Mine(t, n)}]

\* retire_after_failure: roll back, or park again until the publisher is done.
try_rollback(t) ==
  /\ tpc[t] = "retire"
  /\ busy[HubOf[t]] = t \/ Mountable(t)
  /\ ~InFlight(t)
  /\ try_retire({t})
  /\ inbox' = discard_notice(inbox, Retirable({t}))
  /\ local' = discard_notice(local, Retirable({t}))
  /\ Return(t)
  /\ Unmount(t)
  /\ UNCHANGED <<boundTask, primaryHub, fallbackHub, stored, selVars, deferred,
                 recheck, signalled, aborting>>

repark(t) ==
  /\ tpc[t] = "retire"
  /\ busy[HubOf[t]] = t \/ Mountable(t)
  /\ InFlight(t)
  /\ try_retire({t})
  /\ tpc' = [tpc EXCEPT ![t] = "reparked"]
  /\ tcause' = [tcause EXCEPT ![t] = "none"]
  /\ Unmount(t)
  /\ UNCHANGED <<boundTask, primaryHub, fallbackHub, stored, tcell, tword,
                 thub, tgen, selVars, kernelVars>>

-----------------------------------------------------------------------------
(* The carrier kernel. *)

Members(x) == {t \in Tasks : ScopeOf[t] = x /\ tpc[t] # "gone"}

ParkedIn(x) == {t \in Members(x) : Parked(t)}

\* The kernel of the scope's tasks may take up an abort: none of them is in
\* the middle of a call, and a deferred abort waits for a signal.
CanAbort(x) ==
  /\ Members(x) # {}
  /\ \A t \in Members(x) :
       \/ aborting[x] = "no" /\ Settled(HubOf[t])
       \/ aborting[x] = "retry" /\ KernelRuns(HubOf[t])

\* abort: the preflight retires every parked wait of the scope; then its
\* ready and parked tasks are unwound, which rolls their park calls back.
abort(x) ==
  LET waits == {t \in Members(x) : Parked(t) \/ Woken(t)} IN
  /\ CanAbort(x)
  /\ \A t \in ParkedIn(x) : ~InFlight(t)
  /\ try_retire(waits)
  /\ inbox' = discard_notice(inbox, Retirable(waits))
  /\ local' = discard_notice(local, waits)
  /\ deferred' = discard_notice(deferred, waits)
  /\ recheck' = discard_notice(recheck, waits)
  /\ aborting' = [aborting EXCEPT ![x] = "done"]
  /\ Leave(Members(x), "gone")
  /\ UNCHANGED <<boundTask, primaryHub, fallbackHub, stored, selVars, signalled, busy>>

\* A publisher still owns one of the waits: the other parked waits are
\* retired all the same, and the whole scope stays until that publication.
defer_abort(x) ==
  /\ CanAbort(x)
  /\ \E t \in ParkedIn(x) : InFlight(t)
  /\ try_retire(ParkedIn(x))
  /\ inbox' = discard_notice(inbox, Retirable(ParkedIn(x)))
  /\ aborting' = [aborting EXCEPT ![x] = "wait"]
  /\ UNCHANGED <<boundTask, primaryHub, fallbackHub, stored, taskVars, selVars,
                 local, deferred, recheck, signalled, busy>>

\* What the owner learns of the generation a notice names.
publication(n) ==
  LET w == word[n.cell] IN
  CASE w.gen = n.gen /\ w.phase = "Selected" -> "Published"
    [] w.gen = n.gen /\ w.phase = "Claim" -> "InFlight"
    [] OTHER -> "Stale"

\* The notice's route still parks the generation it names.
OwnsRoute(n) ==
  Parked(n.task) /\ tcell[n.task] = n.cell /\ tgen[n.task] = n.gen

Accepted(n) == OwnsRoute(n) /\ publication(n) = "Published"
MustDefer(n) == OwnsRoute(n) /\ publication(n) = "InFlight"

\* finish_wake makes the task ready; InFlight registers completion interest
\* and keeps the notice (rest is what remains deferred); else it is stale.
process_wake(h, n, rest) ==
  /\ tpc' = IF ~Accepted(n) THEN tpc
            ELSE [tpc EXCEPT ![n.task] = IF @ = "parked" THEN "resumed" ELSE "retire"]
  /\ tcause' = IF Accepted(n) THEN [tcause EXCEPT ![n.task] = n.cause] ELSE tcause
  /\ word' = IF MustDefer(n)
             THEN [word EXCEPT ![n.cell] = with_permit(@, TRUE)] ELSE word
  /\ deferred' = [deferred EXCEPT ![h] =
                    CASE Accepted(n) -> {m \in rest : ~Mine(n.task, m)}
                      [] MustDefer(n) -> rest \cup {n}
                      [] OTHER -> rest]
  /\ UNCHANGED <<boundTask, primaryHub, fallbackHub, stored, tcell, tword,
                 thub, tgen, selVars, signalled, aborting, busy>>

\* local.pop_wake().or_else(hub.pop_wake)
process_wakes(h) ==
  /\ Settled(h)
  /\ \/ \E n \in local[h] :
          /\ local' = [local EXCEPT ![h] = @ \ {n}]
          /\ process_wake(h, n, deferred[h])
          /\ UNCHANGED <<inbox, recheck>>
     \/ /\ local[h] = {}
        /\ \E n \in inbox[h] :
             /\ inbox' = [inbox EXCEPT ![h] = @ \ {n}]
             /\ process_wake(h, n, deferred[h])
             /\ UNCHANGED <<local, recheck>>

\* Mutant: a changed signal retries the aborts only.
observe_signal_aborts(h) ==
  /\ Settled(h)
  /\ signalled[h]
  /\ signalled' = [signalled EXCEPT ![h] = FALSE]
  /\ aborting' = [x \in Scopes |->
                    IF aborting[x] = "wait" /\ \E t \in Members(x) : HubOf[t] = h
                    THEN "retry" ELSE aborting[x]]
  /\ UNCHANGED <<cellVars, taskVars, selVars, inbox, local, deferred, recheck, busy>>

\* Mutant: a changed signal revisits the deferred wakes only.
observe_signal_wakes(h) ==
  /\ Settled(h)
  /\ signalled[h]
  /\ signalled' = [signalled EXCEPT ![h] = FALSE]
  /\ recheck' = [recheck EXCEPT ![h] = deferred[h]]
  /\ UNCHANGED <<cellVars, taskVars, selVars, inbox, local, deferred, aborting, busy>>

\* tick(signal_changed = true) starts: aborts and deferred wakes are revisited.
observe_signal(h) ==
  /\ Settled(h)
  /\ signalled[h]
  /\ signalled' = [signalled EXCEPT ![h] = FALSE]
  /\ recheck' = [recheck EXCEPT ![h] = deferred[h]]
  /\ aborting' = [x \in Scopes |->
                    IF aborting[x] = "wait" /\ \E t \in Members(x) : HubOf[t] = h
                    THEN "retry" ELSE aborting[x]]
  /\ UNCHANGED <<cellVars, taskVars, selVars, inbox, local, deferred, busy>>

process_deferred_wakes(h) ==
  /\ KernelRuns(h)
  /\ ~Retrying(h)
  /\ \E n \in recheck[h] :
       /\ recheck' = [recheck EXCEPT ![h] = @ \ {n}]
       /\ process_wake(h, n, deferred[h] \ {n})
  /\ UNCHANGED <<inbox, local>>

-----------------------------------------------------------------------------
(* Selectors: claim the active generation, route its notice, publish. *)

\* A successful claim exchange; `next` says how the notice is routed.
Claim(s, c, w, next) ==
  /\ spc[s] = "idle"
  /\ CanSelect(s)
  /\ word' = [word EXCEPT ![c] = w]
  /\ spc' = [spc EXCEPT ![s] = next]
  /\ scell' = [scell EXCEPT ![s] = c]
  /\ sclaim' = [sclaim EXCEPT ![s] = w]
  /\ Occupy(s)
  /\ UNCHANGED <<boundTask, primaryHub, fallbackHub, shub, taskVars, kernelVars>>

\* A change of the word that wakes nobody.
Mark(s, c, w) ==
  /\ spc[s] = "idle"
  /\ CanSelect(s)
  /\ word' = [word EXCEPT ![c] = w]
  /\ UNCHANGED <<boundTask, primaryHub, fallbackHub, taskVars, selVars, kernelVars, busy>>

notify(s, c) ==
  /\ ~word[c].closed
  /\ \/ /\ selectable(word[c])
        /\ Claim(s, c, claimed(word[c], "Ready"), "routeLocal")
        /\ UNCHANGED stored
     \/ /\ markable(word[c])
        /\ Mark(s, c, with_permit(word[c], TRUE))
        /\ stored' = [stored EXCEPT ![c] = TRUE]

cancel(s, c) ==
  /\ c \notin Resident
  /\ selectable(word[c])
  /\ Claim(s, c, claimed(word[c], "Cancelled"), "route")
  /\ UNCHANGED stored

close(s, c) ==
  LET w == [word[c] EXCEPT !.closed = TRUE, !.permit = FALSE] IN
  /\ ~word[c].closed
  /\ \/ /\ selectable(word[c])
        /\ Claim(s, c, claimed(w, "Closed"), "route")
     \/ /\ markable(word[c])
        /\ Mark(s, c, w)
  /\ stored' = [stored EXCEPT ![c] = FALSE]

\* select_ready / select_closed / select_cancelled of a registration's token.
select_generation(s, c, g, cause) ==
  /\ selectable(word[c])
  /\ word[c].gen = g
  /\ Claim(s, c, claimed(word[c], cause), "route")
  /\ UNCHANGED stored

\* The owner carrier's timer expires for the generation its kernel parked.
expire_timers(s, t) ==
  /\ CarrierOf[s] = HubOf[t]
  /\ tpc[t] = "parked"
  /\ select_generation(s, tcell[t], tgen[t], "TimedOut")

\* offer_resource / reserve_resource of a synchronization primitive.
claim_resource(s, c, r) ==
  /\ c \in Resident
  /\ resource_open(word[c])
  /\ IF word[c].phase = "Active"
     THEN /\ Claim(s, c, resource_offer(word[c], r), "routeLocal")
          /\ UNCHANGED stored
     ELSE /\ Mark(s, c, resource_offer(word[c], r))
          /\ stored' = [stored EXCEPT ![c] = TRUE]

\* enqueue_selected: read the target, queue the notice on its owner.  A notice
\* whose route slot is occupied is dropped (WaitHub::enqueue counts it stale).
enqueue_selected(s) ==
  LET c == scell[s]
      h == target_hub(c, sclaim[s])
      n == [task |-> boundTask[c], cell |-> c, gen |-> sclaim[s].gen,
            cause |-> sclaim[s].cause]
  IN
  /\ spc[s] \in {"route", "routeLocal"}
  /\ IF spc[s] = "routeLocal" /\ CarrierOf[s] = h
     THEN /\ local' = [local EXCEPT ![h] = @ \cup {n}]
          /\ UNCHANGED inbox
     ELSE /\ inbox' = IF \E m \in inbox[h] : m.task = n.task THEN inbox
                      ELSE [inbox EXCEPT ![h] = @ \cup {n}]
          /\ UNCHANGED local
  /\ spc' = [spc EXCEPT ![s] = "publish"]
  /\ UNCHANGED <<cellVars, taskVars, scell, sclaim, shub, deferred, recheck,
                 signalled, aborting, busy>>

Done(s) ==
  /\ spc' = [spc EXCEPT ![s] = "idle"]
  /\ scell' = [scell EXCEPT ![s] = None]
  /\ sclaim' = [sclaim EXCEPT ![s] = initial]
  /\ shub' = [shub EXCEPT ![s] = None]

PublishClaim(s) ==
  LET c == scell[s] IN
  /\ spc[s] = "publish"
  /\ word[c] = sclaim[s]
  /\ word' = [word EXCEPT ![c] = publish_claim(sclaim[s])]
  /\ Done(s)
  /\ Vacate(s)
  /\ UNCHANGED <<boundTask, primaryHub, fallbackHub, stored, taskVars, kernelVars>>

\* The exchange failed: retain the hub named by the observed word.
ObserveInterest(s) ==
  /\ spc[s] = "publish"
  /\ word[scell[s]] # sclaim[s]
  /\ shub' = [shub EXCEPT ![s] = target_hub(scell[s], word[scell[s]])]
  /\ sclaim' = [sclaim EXCEPT ![s] = word[scell[s]]]
  /\ spc' = [spc EXCEPT ![s] = "observed"]
  /\ UNCHANGED <<cellVars, taskVars, scell, kernelVars, busy>>

PublishObserved(s) ==
  LET c == scell[s] IN
  /\ spc[s] = "observed"
  /\ word[c] = sclaim[s]
  /\ word' = [word EXCEPT ![c] = publish_observed_claim(sclaim[s])]
  /\ spc' = [spc EXCEPT ![s] = "signal"]
  /\ UNCHANGED <<boundTask, primaryHub, fallbackHub, stored, taskVars, scell,
                 sclaim, shub, kernelVars, busy>>

\* Mutant: the completed publication does not signal the owner.
publication_complete_silent(s) ==
  /\ spc[s] = "signal"
  /\ Done(s)
  /\ Vacate(s)
  /\ UNCHANGED <<cellVars, taskVars, kernelVars>>

publication_complete(s) ==
  /\ spc[s] = "signal"
  /\ signalled' = [signalled EXCEPT ![shub[s]] = TRUE]
  /\ Done(s)
  /\ Vacate(s)
  /\ UNCHANGED <<cellVars, taskVars, inbox, local, deferred, recheck, aborting>>

-----------------------------------------------------------------------------
(* Operations of the resident cell's task between its waits. *)

Between(t, c) ==
  /\ c \in Resident /\ t \in Parkers[c]
  /\ tpc[t] = "out"
  /\ Mountable(t)

SetIdleWord(c, w) ==
  /\ word' = [word EXCEPT ![c] = w]
  /\ UNCHANGED <<boundTask, primaryHub, fallbackHub, taskVars, selVars, kernelVars, busy>>

\* The ticket's cleanup takes the granted resource; the permit bit stays.
take_resource(t, c) ==
  /\ Between(t, c)
  /\ word[c].resource # "none"
  /\ word[c].phase \notin {"Binding", "Claim"}
  /\ SetIdleWord(c, [word[c] EXCEPT !.resource = "none"])
  /\ UNCHANGED stored

recycle(t, c) ==
  /\ Between(t, c)
  /\ word[c].phase = "Idle" /\ ~word[c].closed
  /\ SetIdleWord(c, [word[c] EXCEPT !.permit = FALSE, !.resource = "none"])
  /\ stored' = [stored EXCEPT ![c] = FALSE]

reset_closed_gate(t, c) ==
  /\ Between(t, c)
  /\ word[c].phase = "Idle" /\ word[c].closed
  /\ SetIdleWord(c, [word[c] EXCEPT !.closed = FALSE])
  /\ UNCHANGED stored

-----------------------------------------------------------------------------
TaskStep(t) ==
  \/ \E c \in Cells : BeginLoad(t, c)
  \/ BeginReturn(t)
  \/ BeginTakePermit(t)
  \/ BeginProbe(t)
  \/ BeginActivate(t)
  \/ BeginBinding(t)
  \/ BeginRetry(t)
  \/ bind_target(t)
  \/ BeginPublish(t)
  \/ FailRegistration(t)
  \/ park_task(t)
  \/ \E clear \in BOOLEAN : finish(t, clear)
  \/ try_rollback(t)
  \/ repark(t)

KernelStep(h) ==
  \/ process_wakes(h)
  \/ observe_signal(h)
  \/ process_deferred_wakes(h)

AbortStep(x) == abort(x) \/ defer_abort(x)

SelectStep(s) ==
  \/ \E c \in Cells :
       \/ notify(s, c)
       \/ cancel(s, c)
       \/ close(s, c)
       \/ \E g \in 1..MaxGeneration :
            \E cause \in {"Ready", "Closed", "InheritedCancelled"} :
              select_generation(s, c, g, cause)
       \/ \E r \in Resources : claim_resource(s, c, r)
  \/ \E t \in Tasks : expire_timers(s, t)

RouteStep(s) ==
  \/ enqueue_selected(s)
  \/ PublishClaim(s)
  \/ ObserveInterest(s)
  \/ PublishObserved(s)
  \/ publication_complete(s)

ResidentStep(t, c) ==
  take_resource(t, c) \/ recycle(t, c) \/ reset_closed_gate(t, c)

Next ==
  \/ \E t \in Tasks : TaskStep(t)
  \/ \E h \in Hubs : KernelStep(h)
  \/ \E x \in Scopes : AbortStep(x)
  \/ \E s \in Selectors : SelectStep(s)
  \/ \E s \in Selectors : RouteStep(s)
  \/ \E t \in Tasks, c \in Resident : ResidentStep(t, c)

Spec == Init /\ [][Next]_vars

\* A park call that got its carrier runs on; the exchange of begin's loop
\* eventually succeeds; ready tasks are mounted in turn.
CallStep(t) ==
  \/ BeginReturn(t) \/ BeginTakePermit(t) \/ BeginProbe(t)
  \/ BeginActivate(t) \/ BeginBinding(t) \/ bind_target(t) \/ BeginPublish(t)
  \/ FailRegistration(t) \/ park_task(t)
  \/ \E clear \in BOOLEAN : finish(t, clear)
  \/ try_rollback(t) \/ repark(t)

RetryAbort(x) == aborting[x] = "retry" /\ AbortStep(x)

\* Publishing threads run on; a carrier comes back to its kernel between
\* mounts, and every tick polls its signal, its queues and its aborts.
Fairness ==
  /\ \A s \in Selectors : WF_vars(RouteStep(s))
  /\ \A t \in Tasks : SF_vars(CallStep(t)) /\ WF_vars(BeginRetry(t))
  /\ \A h \in Hubs : /\ SF_vars(process_wakes(h))
                     /\ SF_vars(observe_signal(h))
                     /\ SF_vars(process_deferred_wakes(h))
  /\ \A x \in Scopes : SF_vars(RetryAbort(x))

FairSpec == Spec /\ Fairness

-----------------------------------------------------------------------------
(* Properties. *)

\* The packed word and the bookkeeping of tasks, selectors and carriers stay
\* in range; generations never pass MAX_GENERATION.
TypeOK ==
  /\ word \in [Cells -> Word]
  /\ boundTask \in [Cells -> Tasks \cup {None}]
  /\ primaryHub \in [Cells -> Hubs \cup {None}]
  /\ fallbackHub \in [Cells -> Hubs \cup {None}]
  /\ stored \in [Cells -> BOOLEAN]
  /\ tpc \in [Tasks -> TaskPcs]
  /\ tcell \in [Tasks -> Cells \cup {None}]
  /\ tword \in [Tasks -> Word]
  /\ thub \in [Tasks -> {"miss", "primary", "fallback"}]
  /\ tgen \in [Tasks -> 0..MaxGeneration]
  /\ tcause \in [Tasks -> Causes \cup {"none"}]
  /\ spc \in [Selectors -> SelPcs]
  /\ scell \in [Selectors -> Cells \cup {None}]
  /\ sclaim \in [Selectors -> Word]
  /\ shub \in [Selectors -> Hubs \cup {None}]
  /\ inbox \in [Hubs -> SUBSET Notice]
  /\ local \in [Hubs -> SUBSET Notice]
  /\ deferred \in [Hubs -> SUBSET Notice]
  /\ recheck \in [Hubs -> SUBSET Notice]
  /\ signalled \in [Hubs -> BOOLEAN]
  /\ aborting \in [Scopes -> {"no", "wait", "retry", "done"}]
  /\ busy \in [Hubs -> Tasks \cup Selectors \cup {Free}]

Publishing(s) == spc[s] \in {"route", "routeLocal", "publish", "observed"}

\* The task is in a wait: its generation is active, won, or being retired.
Waiting(t) == tpc[t] \in {"registered", "parked", "resumed", "retire", "reparked"}

Owns(t, c) == Waiting(t) /\ tcell[t] = c /\ tgen[t] = word[c].gen

\* A claimed word belongs to exactly one selector, which alone may change it
\* but for the owner's interest bit.  These are the assertions of
\* publish_observed_claim: the exchange that publishes the observed claim
\* cannot fail, so no wake is published twice or not at all.
ClaimExclusive ==
  /\ \A c \in Cells : word[c].phase = "Claim" =>
       \E s \in Selectors : Publishing(s) /\ scell[s] = c
  /\ \A s, r \in Selectors :
       Publishing(s) /\ Publishing(r) /\ scell[s] = scell[r] => s = r
  /\ \A s \in Selectors : Publishing(s) =>
       LET w == word[scell[s]] IN
       /\ w.phase = "Claim"
       /\ spc[s] = "observed" => w = sclaim[s] /\ w.permit
       /\ spc[s] # "observed" => with_permit(w, FALSE) = sclaim[s]

\* While a task binds the target, its Binding word is untouched: the plain
\* store that activates the generation overwrites no permit, close or claim.
BindingExclusive ==
  \A t \in Tasks : tpc[t] \in {"binding", "bound"} => word[tcell[t]] = binding(tword[t])

\* The target metadata a selector reads outside the word names the task that
\* owns the claimed generation, and that task's carrier.
RoutedToOwner ==
  \A s \in Selectors : Publishing(s) =>
    LET c == scell[s] IN
    /\ boundTask[c] \in Tasks
    /\ Owns(boundTask[c], c)
    /\ target_hub(c, sclaim[s]) = HubOf[boundTask[c]]

\* A generation that is active, claimed or selected has one owning task.
OneOwner ==
  \A c \in Cells : word[c].phase \in {"Active", "Claim", "Selected"} =>
    \E t \in Tasks : Owns(t, c) /\ \A u \in Tasks : Owns(u, c) => u = t

\* The wake of a parked task whose generation is selected is never lost: its
\* notice is queued, or it is deferred and the signal that revisits it is
\* raised, or about to be.
NoLostWake ==
  \A t \in Tasks : Parked(t) /\ Owns(t, tcell[t]) /\ word[tcell[t]].phase = "Selected" =>
    LET h == HubOf[t] IN
    \/ \E n \in inbox[h] \cup local[h] \cup recheck[h] : Mine(t, n)
    \/ /\ \E n \in deferred[h] : Mine(t, n)
       /\ signalled[h] \/ \E s \in Selectors : spc[s] = "signal" /\ shub[s] = h

\* Outside a claim the permit bit is exactly a stored permit: the completion
\* interest that borrows the bit never turns into a permit nor erases one.
PermitConserved ==
  \A c \in Cells : word[c].phase # "Claim" => word[c].permit = stored[c]

\* A parked task whose generation has been won is woken (or unwound).
WakeDelivered ==
  \A t \in Tasks :
    (Parked(t) /\ Owns(t, tcell[t]) /\ word[tcell[t]].phase \in {"Claim", "Selected"})
      ~> ~Parked(t)

\* A deferred abort is carried out.
AbortCompletes == \A x \in Scopes : aborting[x] = "wait" ~> aborting[x] = "done"

-----------------------------------------------------------------------------
(* The inductive invariant, in parts.                                      *)

\* A task in a call has a cell and, until it parks, its carrier; what begin
\* has decided to activate is an idle, open word with room for a generation.
CallShape ==
  \A t \in Tasks :
    /\ tpc[t] \notin {"out", "gone"} => tcell[t] \in Cells
    /\ tpc[t] \in {"begin", "probed", "binding", "bound", "registered"} =>
         busy[HubOf[t]] = t
    /\ tpc[t] \in {"probed", "binding", "bound"} =>
         Parkable(tword[t]) /\ ~tword[t].permit /\ next_generation(tword[t])
    /\ tpc[t] = "bound" => thub[t] # "miss"

SelectorShape ==
  \A s \in Selectors :
    /\ Publishing(s) => scell[s] \in Cells /\ sclaim[s].cause \in Causes
    /\ spc[s] # "idle" /\ CarrierOf[s] # Outside => busy[CarrierOf[s]] = s

\* An idle word that begin observed stays idle for its generation.
ObservedWord ==
  \A t \in Tasks : tpc[t] \in {"begin", "probed"} =>
    LET w == word[tcell[t]] IN
    /\ tword[t].gen <= w.gen
    /\ tword[t].phase = "Idle" /\ tword[t].gen = w.gen => w.phase = "Idle"

\* The target names task t and its carrier.
Targets(t, c, hub) ==
  /\ boundTask[c] = t
  /\ (IF hub = "fallback" THEN fallbackHub[c] ELSE primaryHub[c]) = HubOf[t]

\* A cached target stays valid as long as the exchange can succeed.
ProbedTarget ==
  \A t \in Tasks :
    /\ tpc[t] = "probed" /\ thub[t] # "miss" /\ tword[t].gen = word[tcell[t]].gen =>
         Targets(t, tcell[t], thub[t])
    /\ tpc[t] = "bound" => Targets(t, tcell[t], thub[t])

OneBinder ==
  \A t, u \in Tasks :
    /\ tpc[t] \in {"binding", "bound"} /\ tpc[u] \in {"binding", "bound"}
    /\ tcell[t] = tcell[u]
    => t = u

\* Generations belong to one task each, and never to one that binds.
OwnedGeneration ==
  /\ \A t \in Tasks : Waiting(t) =>
       /\ tgen[t] <= word[tcell[t]].gen
       /\ tgen[t] = word[tcell[t]].gen => word[tcell[t]].phase # "Binding"
  /\ \A t, u \in Tasks :
       Waiting(t) /\ Waiting(u) /\ tcell[t] = tcell[u] /\ tgen[t] = tgen[u] => t = u

\* A generation that can be won, or is won, routes to its owner.
OwnedTarget ==
  \A c \in Cells : word[c].phase \in {"Active", "Claim", "Selected"} =>
    /\ boundTask[c] \in Tasks
    /\ Owns(boundTask[c], c)
    /\ target_hub(c, word[c]) = HubOf[boundTask[c]]
    /\ word[c].phase = "Active" => ~word[c].permit

\* A woken task's generation is selected.
WokenSelected ==
  \A t \in Tasks : Woken(t) =>
    word[tcell[t]].gen = tgen[t] /\ word[tcell[t]].phase = "Selected"

\* The exclusive ownership of words, inductive under Next.
Inv ==
  /\ TypeOK
  /\ CallShape
  /\ SelectorShape
  /\ ObservedWord
  /\ ProbedTarget
  /\ BindingExclusive
  /\ OneBinder
  /\ OwnedGeneration
  /\ OwnedTarget
  /\ ClaimExclusive
  /\ WokenSelected

-----------------------------------------------------------------------------
(* The wake of a wait, from the claim to the task: inductive with Inv.     *)

\* The permit bit is the stored permit, but for a claim, which borrows it.
PermitInv ==
  \A c \in Cells :
    IF word[c].phase = "Claim" THEN ~stored[c] ELSE word[c].permit = stored[c]

\* The task waits and its notice has not reached it.
Unwoken(t) ==
  \/ tpc[t] \in {"registered", "parked", "reparked"}
  \/ tpc[t] = "retire" /\ busy[HubOf[t]] = t

\* The claim of the cell's generation has yet to be queued.
Routing(c) == \E s \in Selectors : spc[s] \in {"route", "routeLocal"} /\ scell[s] = c

\* The wait is won and its wake has not reached the task.
Pending(t) ==
  Unwoken(t) /\ Owns(t, tcell[t]) /\ word[tcell[t]].phase \in {"Claim", "Selected"}

\* The owner of the deferred notice of a won wait will be told to look again.
Revisited(t) ==
  IF word[tcell[t]].phase = "Claim" THEN word[tcell[t]].permit
  ELSE \/ signalled[HubOf[t]]
       \/ \E s \in Selectors : spc[s] = "signal" /\ shub[s] = HubOf[t]

\* The wake of a won wait is about to be queued, queued, or deferred until
\* its publisher reports.
WakeUnderway ==
  \A t \in Tasks : Pending(t) =>
    LET h == HubOf[t] IN
    \/ Routing(tcell[t])
    \/ \E n \in inbox[h] \cup local[h] \cup recheck[h] : Mine(t, n)
    \/ (\E n \in deferred[h] : Mine(t, n)) /\ Revisited(t)

\* No later claim of the cell can produce the notice n again.
Sent(n) ==
  /\ n.gen <= word[n.cell].gen
  /\ n.gen = word[n.cell].gen =>
       word[n.cell].phase \notin {"Active", "Binding"} /\ ~Routing(n.cell)

\* The notices a carrier holds outside its inbox, some of aborted waits.
Held(h) == local[h] \cup deferred[h] \cup recheck[h]

HeldSent ==
  \A h \in Hubs : \A n \in Held(h) : HubOf[n.task] = h /\ Sent(n)

SameWait(m, n) == m.task = n.task /\ m.cell = n.cell /\ m.gen = n.gen

\* The inbox holds the one notice of a wait that still needs it: the slot of
\* its route is free for the next one.
InboxCurrent ==
  \A h \in Hubs : \A n \in inbox[h] :
    /\ HubOf[n.task] = h
    /\ Pending(n.task) /\ Mine(n.task, n)
    /\ Sent(n)
    /\ \A m \in inbox[h] : m.task = n.task => m = n
    /\ \A m \in Held(h) : ~SameWait(m, n)

\* A publisher that saw the owner's interest will signal the owner's carrier.
ObservedHub ==
  \A s \in Selectors : spc[s] = "observed" => shub[s] = HubOf[boundTask[scell[s]]]

WakeInv == WakeUnderway /\ InboxCurrent /\ HeldSent /\ ObservedHub

=============================================================================
