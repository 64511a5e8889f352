------------------------------- MODULE Kernel -------------------------------
(***************************************************************************)
(* The scheduler of one carrier: task slabs with reused keys, ready queue, *)
(* parked map, timers, deferred wakes and aborts, and the borrowed         *)
(* children of local scopes, whose stacks their lexical owner revokes.     *)
(*                                                                         *)
(* The carrier is one thread.  Its drive loop advances `at` from phase to  *)
(* phase; publishers and the control plane act between any two of them.    *)
(* Phases without work are passed over.  WaitCell has the full protocol of *)
(* a wait; here a wait is what the kernel sees of it: active, claimed with *)
(* its notice queued, selected.  Instants are abstracted: a timer expires  *)
(* when the carrier looks, or does not.                                    *)
(***************************************************************************)
EXTENDS ReadyQueue, FiniteSets

CONSTANTS
  Roots,      \* tasks started through the inbox
  Kids,       \* tasks spawned in a local scope
  OwnerOf,    \* the root whose local scope spawns a kid
  ScopeOf,    \* the owned scope of a root, and of its kids
  Casts,      \* the tasks that take part and the aborts that may come
  Timed,      \* the tasks that park with a deadline
  MaxParks,   \* bound on the waits of a task
  NoTask,     \* a vacant slot, no task in flight
  All         \* abort(None): every scope

Tasks == Roots \cup Kids
Scopes == {ScopeOf[r] : r \in Roots}
Kinds == {"owned", "borrowed"}
Root(t) == IF t \in Kids THEN OwnerOf[t] ELSE t
Covers(s, t) == s = All \/ s = ScopeOf[Root(t)]

\* A kid has an owner, and no task, key or scope says that there is none.
ASSUME KernelAssumption ==
  /\ Roots \cap Kids = {} /\ OwnerOf \in [Kids -> Roots]
  /\ All \notin Scopes /\ NoTask \notin Tasks
  /\ {NoTask, Nothing} \cap (Kinds \X Nat) = {}

VARIABLES
  slab, vacant,   \* TaskSlab per kind: slots, free list
  ready,          \* ReadyQueue of task keys
  in_flight,      \* Kernel.in_flight
  parked,         \* ParkedTasks: key, token, timed, deferred
  timers,         \* TimerQueue.active: key and token
  deferred,       \* Kernel.deferred_wakes
  aborts,         \* Kernel.pending_aborts
  has_borrowed,   \* Kernel.has_borrowed
  exited,         \* the scope epoch moved since sweep_revoked looked
  starts, local,  \* LocalCarrier: starts, wakes
  inbox, hub,     \* start packets; notices of other threads
  requests,       \* per scope: its abort request in the inbox; All: the stop
  flagged,        \* scopes whose abort reason is set
  changed,        \* the carrier's signal moved since the loop read it
  cell,           \* per task: its current wait
  lease,          \* per kid: FiberLease phase
  scope,          \* per root: its local scope
  place,          \* per task: where its record is
  at,             \* phase of the drive loop
  sig,            \* signal_changed of this iteration
  todo,           \* what the phase still has to revisit
  job             \* keys being discarded, the phase to return to

queues == <<ready, parked, timers, deferred>>
slabs == <<slab, vacant, has_borrowed>>
shared == <<inbox, hub, requests, flagged, changed>>
tasks == <<cell, lease, scope, place>>
drive == <<at, sig, todo, job>>
vars == <<slabs, queues, in_flight, aborts, exited, starts, local, shared,
          tasks, drive>>

-----------------------------------------------------------------------------
(* Task keys. *)

kind(t) == IF t \in Kids THEN "borrowed" ELSE "owned"

\* The slabs and the ready queue a start is put into.
Store == [slab |-> slab, vacant |-> vacant, ready |-> ready]

\* Mutant: the slot taken from the free list stays on it.
insert_peek(s, t) ==
  LET k == kind(t)
      free == s.vacant[k]
      i == IF free = <<>> THEN Len(s.slab[k]) + 1 ELSE Last(free)
  IN [slab |-> [s.slab EXCEPT ![k] = IF free = <<>> THEN Append(@, t)
                                     ELSE [@ EXCEPT ![i] = t]],
      vacant |-> s.vacant,
      ready |-> push_back(s.ready, <<k, i>>)]

\* TaskSlab.insert: the most recently freed slot, else a new one.
insert(s, t) ==
  LET k == kind(t)
      free == s.vacant[k]
      i == IF free = <<>> THEN Len(s.slab[k]) + 1 ELSE Last(free)
  IN [slab |-> [s.slab EXCEPT ![k] = IF free = <<>> THEN Append(@, t)
                                     ELSE [@ EXCEPT ![i] = t]],
      vacant |-> [s.vacant EXCEPT ![k] = IF @ = <<>> THEN @ ELSE Front(@)],
      ready |-> push_back(s.ready, <<k, i>>)]

Task(key) == slab[key[1]][key[2]]
Slots(s) == UNION {{k} \X DOMAIN s[k] : k \in DOMAIN s}
LiveKeys == {key \in Slots(slab) : Task(key) # NoTask}
KeyOf(t) == CHOOSE key \in LiveKeys : Task(key) = t
ParkedAt(key) == {p \in parked : p.key = key}

\* TimerQueue: one registration per wait with a deadline.
schedule(key, tok) == timers \cup {[key |-> key, token |-> tok]}
cancel(tok) == {x \in timers : x.token # tok}
pop_expired(due) == timers \ due

\* LocalCarrier: the starts of local scopes wait for receive, or for an abort.
push_start(k) == Append(starts, k)
\* They are inserted one after the other, like the packets of the inbox.
insert_all(s, ts) ==
  LET f[i \in 0..Len(ts)] == IF i = 0 THEN s ELSE insert(f[i - 1], ts[i])
  IN f[Len(ts)]
take_starts(s) == insert_all(s, starts)

\* What is left of a queue, in order, when only members of `kept` stay.
retain(s, kept) ==
  LET f[i \in 0..Len(s)] == IF i = 0 THEN <<>>
                             ELSE IF s[i] \in kept THEN Append(f[i - 1], s[i]) ELSE f[i - 1]
  IN f[Len(s)]

token(t) == <<t, cell[t].n>>
Notice(t) == [route |-> KeyOf(t), task |-> t, token |-> token(t)]
Idle(n) == [phase |-> "Idle", n |-> n, join |-> FALSE, seen |-> FALSE]

NoJob == [keys |-> {}, back |-> "top"]

Init ==
  /\ slab = [k \in Kinds |-> <<>>]
  /\ vacant = [k \in Kinds |-> <<>>]
  /\ ready = EmptyQueue /\ in_flight = NoTask
  /\ parked = {} /\ timers = {} /\ deferred = {} /\ aborts = {}
  /\ has_borrowed = FALSE /\ exited = FALSE
  /\ starts = <<>> /\ local = <<>> /\ inbox = <<>> /\ hub = {}
  /\ flagged = {} /\ changed = FALSE
  /\ cell = [t \in Tasks |-> Idle(0)]
  /\ lease = [k \in Kids |-> "none"]
  /\ scope = [r \in Roots |-> "none"]
  /\ \E cast \in Casts :
       /\ place = [t \in Tasks |-> IF t \in cast.tasks THEN "new" ELSE "done"]
       /\ requests = [s \in Scopes \cup {All} |->
                         IF s \in cast.aborts THEN "none" ELSE "never"]
  /\ at = "top" /\ sig = FALSE /\ todo = {}
  /\ job = NoJob

-----------------------------------------------------------------------------
(* Other threads. *)

\* Signal.notify, or notify_if_waiting: the carrier sleeps at the top of its loop.
Signalled(moved) == changed' \in {changed \/ moved, changed \/ moved \/ at = "top"}

\* Mutant: the inbox accepts a packet after the stop.
push_late(r) ==
  /\ place[r] = "new" /\ ScopeOf[r] \notin flagged
  /\ place' = [place EXCEPT ![r] = "inbox"]
  /\ inbox' = Append(inbox, r)
  /\ Signalled(inbox = <<>>)
  /\ UNCHANGED <<slabs, queues, in_flight, aborts, exited, starts, local, hub,
                 requests, flagged, cell, lease, scope, drive>>

\* A start packet reaches the inbox of a scope that admits it: the first one
\* signals, the others only help a waiting carrier.
push(r) ==
  /\ place[r] = "new" /\ requests[All] # "posted" /\ ScopeOf[r] \notin flagged
  /\ place' = [place EXCEPT ![r] = "inbox"]
  /\ inbox' = Append(inbox, r)
  /\ Signalled(inbox = <<>>)
  /\ UNCHANGED <<slabs, queues, in_flight, aborts, exited, starts, local, hub,
                 requests, flagged, cell, lease, scope, drive>>

\* A wake on another thread claims the wait and queues its notice.
claim(t) ==
  /\ cell[t].phase = "Active" /\ ~cell[t].join
  /\ cell' = [cell EXCEPT ![t].phase = "Claim"]
  /\ hub' = hub \cup {Notice(t)}
  /\ Signalled(FALSE)
  /\ UNCHANGED <<slabs, queues, in_flight, aborts, exited, starts, local, inbox,
                 requests, flagged, lease, scope, place, drive>>

\* The publication signals a carrier that registered its interest.
publish(t) ==
  /\ cell[t].phase = "Claim"
  /\ cell' = [cell EXCEPT ![t].phase = "Selected", ![t].seen = FALSE]
  /\ changed' = (changed \/ cell[t].seen)
  /\ UNCHANGED <<slabs, queues, in_flight, aborts, exited, starts, local, inbox,
                 hub, requests, flagged, lease, scope, place, drive>>

\* An abort of a scope sets its reason before the request reaches the inbox.
request_abort(s) ==
  /\ s \notin flagged /\ requests[s] = "none"
  /\ flagged' = flagged \cup {s}
  /\ UNCHANGED <<slabs, queues, in_flight, aborts, exited, starts, local, inbox,
                 hub, requests, changed, tasks, drive>>

post_abort(s) ==
  /\ s \in flagged /\ requests[s] = "none"
  /\ requests' = [requests EXCEPT ![s] = "posted"]
  /\ changed' = TRUE
  /\ UNCHANGED <<slabs, queues, in_flight, aborts, exited, starts, local, inbox,
                 hub, flagged, tasks, drive>>

stop ==
  /\ requests[All] = "none"
  /\ requests' = [requests EXCEPT ![All] = "posted"]
  /\ changed' = TRUE
  /\ UNCHANGED <<slabs, queues, in_flight, aborts, exited, starts, local, inbox,
                 hub, flagged, tasks, drive>>

-----------------------------------------------------------------------------
(* Reclaiming tasks. *)

Borrowed(s) == \E i \in DOMAIN s["borrowed"] : s["borrowed"][i] # NoTask

\* remove_in_flight: the slot is free again.
remove_in_flight(key) ==
  /\ slab' = [slab EXCEPT ![key[1]][key[2]] = NoTask]
  /\ vacant' = [vacant EXCEPT ![key[1]] = Append(@, key[2])]
  /\ has_borrowed' = IF key[1] = "owned" THEN has_borrowed ELSE Borrowed(slab')

\* Mutant: the scope returns and its children keep their stacks.
Revoked_never(r) == lease

\* ScopeGuard.drain: every live child of r is reclaimed with the scope.
Revoked(r) ==
  [k \in Kids |-> IF OwnerOf[k] = r /\ lease[k] # "none" THEN "Reclaimed" ELSE lease[k]]

\* Completion wakes an owner that joins or drains the kid.
Joining(t) == t \in Kids /\ cell[OwnerOf[t]].phase = "Active" /\ cell[OwnerOf[t]].join
Announced(t, c) == IF Joining(t) THEN [c EXCEPT ![OwnerOf[t]].phase = "Selected"] ELSE c
AnnouncedTo(t, l) == IF Joining(t) THEN Append(l, Notice(OwnerOf[t])) ELSE l

\* Mutant: the notice of a discarded task stays queued.
unregister_wake_kept(l, tok) == l

unregister_wake(l, tok) == retain(l, {n \in Range(l) : n.token # tok})

\* The order of cleanup: in flight, the ready lanes, the parked map.
KeySeq(k) == [i \in DOMAIN slab[k] |-> <<k, i>>]
Victim ==
  LET order == <<in_flight>> \o ready.normal \o ready.wakes
                 \o KeySeq("owned") \o KeySeq("borrowed")
  IN order[Min({i \in DOMAIN order : order[i] \in job.keys})]

\* discard_in_flight of one doomed task, taken out of whatever queue holds it.
discard ==
  /\ at = "discard" /\ job.keys # {}
  /\ LET key == Victim
         t == Task(key)
     IN /\ job' = [job EXCEPT !.keys = @ \ {key}]
        /\ in_flight' = NoTask
        /\ ready' = remove(ready, key)
        /\ parked' = parked \ ParkedAt(key)
        /\ timers' = cancel(token(t))
        /\ deferred' = {n \in deferred : n.token # token(t)}
        /\ local' = AnnouncedTo(t, unregister_wake(local, token(t)))
        /\ hub' = {n \in hub : n.token # token(t)}
        /\ cell' = [Announced(t, cell) EXCEPT ![t] = Idle(@.n)]
        /\ lease' = IF t \in Kids THEN [lease EXCEPT ![t] = "Reclaimed"] ELSE Revoked(t)
        /\ IF t \in Roots /\ scope[t] = "open"
           THEN scope' = [scope EXCEPT ![t] = "closed"] /\ exited' = TRUE
           ELSE UNCHANGED <<scope, exited>>
        /\ place' = [place EXCEPT ![t] = "done"]
        /\ remove_in_flight(key)
  /\ UNCHANGED <<aborts, starts, inbox, requests, flagged, changed, at, sig, todo>>

\* The end of abort and of sweep_revoked.
discarded ==
  /\ at = "discard" /\ job.keys = {}
  /\ has_borrowed' = Borrowed(slab)
  /\ at' = job.back /\ job' = NoJob
  /\ UNCHANGED <<slab, vacant, queues, in_flight, aborts, exited, starts, local,
                 shared, tasks, sig, todo>>

\* defer_abort: one entry per scope; an abort of everything replaces them all.
defer_abort(s) ==
  IF s = All THEN {All} ELSE IF All \in aborts THEN aborts ELSE aborts \cup {s}

\* try_abandon retires the wait unless a publisher holds it.
prepare_abort(t) == cell[t].phase # "Claim"

\* abort(s): unstarted packets and starts first, then the preflight of every
\* parked wait; either all tasks of the scope are discarded or all are kept.
\* A task in flight, if there is one, is the scope's: the dispatch calls it.
abort(s, done, held) ==
  LET store == take_starts(Store)
      waits == {t \in Tasks : Covers(s, t) /\ \E p \in parked : Task(p.key) = t}
      retired == {t \in waits : prepare_abort(t)}
      doomed == {key \in Slots(store.slab) : LET t == store.slab[key[1]][key[2]]
                                             IN t # NoTask /\ Covers(s, t)}
  IN /\ slab' = store.slab /\ vacant' = store.vacant
     /\ starts' = <<>>
     /\ inbox' = retain(inbox, {r \in Roots : ~Covers(s, r)})
     /\ place' = [t \in Tasks |-> CASE place[t] = "inbox" /\ Covers(s, t) -> "done"
                                    [] place[t] = "starts" -> "live"
                                    [] OTHER -> place[t]]
     /\ cell' = [t \in Tasks |-> CASE t \in retired -> Idle(cell[t].n)
                                   [] t \in waits \ retired -> [cell[t] EXCEPT !.seen = TRUE]
                                   [] OTHER -> cell[t]]
     /\ hub' = {n \in hub : n.task \notin retired}
     /\ IF retired = waits
        THEN /\ aborts' = IF s = All THEN {} ELSE aborts \ {s}
             /\ job' = [keys |-> doomed, back |-> done]
             /\ at' = "discard"
             /\ ready' = store.ready
             /\ UNCHANGED in_flight
        ELSE /\ aborts' = defer_abort(s)
             /\ ready' = IF in_flight = NoTask THEN store.ready
                         ELSE push_front(store.ready, in_flight)
             /\ in_flight' = NoTask
             /\ at' = held /\ job' = NoJob
     /\ UNCHANGED <<has_borrowed, parked, timers, deferred, exited, local,
                    flagged, changed, lease, scope, sig>>

-----------------------------------------------------------------------------
(* The drive loop up to the tick. *)

Posted == \E s \in Scopes : requests[s] = "posted"

\* The loop reads the signal before it looks at what the signal is about.
read_signal ==
  /\ at = "top" /\ changed /\ (requests[All] = "posted" \/ Posted)
  /\ sig' = TRUE /\ changed' = FALSE
  /\ at' = IF requests[All] = "posted" THEN "stop" ELSE "requests"
  /\ UNCHANGED <<slabs, queues, in_flight, aborts, exited, starts, local, inbox,
                 hub, requests, flagged, tasks, todo, job>>

stop_abort ==
  /\ at = "stop"
  /\ abort(All, "halt", "sweep")
  /\ UNCHANGED <<requests, todo>>

take_abort ==
  /\ at = "requests"
  /\ \E s \in Scopes :
       /\ requests[s] = "posted"
       /\ requests' = [requests EXCEPT ![s] = "taken"]
       /\ abort(s, "requests", "requests")
  /\ UNCHANGED todo

\* Local starts, then the remote packets; a packet without a stack is discarded.
receive ==
  /\ \/ at = "requests" /\ ~Posted /\ UNCHANGED <<sig, changed>>
     \/ at = "top" /\ ~(changed /\ (requests[All] = "posted" \/ Posted))
        /\ sig' = changed /\ changed' = FALSE
  /\ \E lost \in SUBSET Range(inbox) :
       LET got == retain(inbox, Roots \ lost)
           store == insert_all(take_starts(Store), got)
       IN /\ slab' = store.slab /\ vacant' = store.vacant /\ ready' = store.ready
          /\ place' = [t \in Tasks |-> IF t \in lost THEN "done"
                                       ELSE IF place[t] \in {"inbox", "starts"} THEN "live"
                                       ELSE place[t]]
  /\ has_borrowed' = (has_borrowed \/ starts # <<>>)
  /\ starts' = <<>> /\ inbox' = <<>>
  /\ at' = "sweep"
  /\ UNCHANGED <<in_flight, parked, timers, deferred, aborts, exited, local, hub,
                 requests, flagged, cell, lease, scope, todo, job>>

-----------------------------------------------------------------------------
(* tick. *)

Pending == local # <<>> \/ hub # {}

\* The first phase after `from` that has something to do.
Ahead(from) ==
  LET work == <<sig /\ aborts # {}, sig /\ deferred # {},
                Pending /\ (sig \/ parked # {}), timers # {}>>
      left == {i \in from..4 : work[i]}
  IN IF left = {} THEN "select" ELSE <<"retry", "deferred", "wakes", "timers">>[Min(left)]

Swept == has_borrowed /\ exited
Gone == {key \in LiveKeys : Task(key) \in Kids /\ lease[Task(key)] = "Reclaimed"}

\* sweep_revoked looks for revoked leases when the epoch moved.
sweep_revoked ==
  /\ at = "sweep"
  /\ IF Swept
     THEN /\ exited' = FALSE
          /\ at' = "discard" /\ job' = [keys |-> Gone, back |-> "retry"]
     ELSE at' = Ahead(1) /\ UNCHANGED <<exited, job>>
  /\ todo' = IF Swept \/ at' = "retry" THEN aborts ELSE IF at' = "deferred" THEN deferred ELSE {}
  /\ UNCHANGED <<slabs, queues, in_flight, aborts, starts, local, shared, tasks, sig>>

retry_aborts ==
  /\ at = "retry" /\ sig
  /\ \E s \in todo :
       /\ todo' = todo \ {s}
       /\ abort(s, "retry", "retry")
  /\ UNCHANGED requests

retried ==
  /\ at = "retry" /\ (todo = {} \/ ~sig)
  /\ at' = Ahead(2)
  /\ todo' = IF at' = "deferred" THEN deferred ELSE {}
  /\ UNCHANGED <<slabs, queues, in_flight, aborts, exited, starts, local, shared,
                 tasks, sig, job>>

\* process_wake: a notice that names another task than the one parked on its
\* route fails the carrier; another generation, or a wait that a deferred abort
\* retired, is stale; a wait whose publisher is not done is deferred; a published
\* one makes its task ready.
process_wake(n, held) ==
  LET here == ParkedAt(n.route)
      p == CHOOSE q \in here : TRUE
      c == cell[n.task]
  IN CASE here = {} \/ (Task(n.route) = n.task /\ (p.token # n.token \/ c.phase = "Idle")) ->
            deferred' = held /\ UNCHANGED <<parked, timers, ready, cell, at>>
       [] here # {} /\ Task(n.route) # n.task ->
            at' = "failed" /\ deferred' = held /\ UNCHANGED <<parked, timers, ready, cell>>
       [] OTHER ->
            /\ UNCHANGED at
            /\ IF c.phase = "Claim"
               THEN /\ deferred' = held \cup {n}
                    /\ cell' = [cell EXCEPT ![n.task].seen = TRUE]
                    /\ UNCHANGED <<parked, timers, ready>>
               ELSE /\ deferred' = {d \in held : d.token # n.token}
                    /\ parked' = parked \ here
                    /\ timers' = cancel(n.token)
                    /\ ready' = push_wake(ready, n.route)
                    /\ UNCHANGED cell

process_deferred_wakes ==
  /\ at = "deferred"
  /\ \E n \in todo :
       /\ todo' = todo \ {n}
       /\ process_wake(n, deferred \ {n})
  /\ UNCHANGED <<slabs, in_flight, aborts, exited, starts, local, shared,
                 lease, scope, place, sig, job>>

Waking == {"wakes", "expired", "late"}

\* process_wakes: the carrier's own notices first, then the hub's.
process_wakes ==
  /\ at \in Waking /\ Pending
  /\ at = "wakes" => sig \/ parked # {}
  /\ IF local # <<>>
     THEN local' = Tail(local) /\ process_wake(Head(local), deferred) /\ UNCHANGED hub
     ELSE \E n \in hub : hub' = hub \ {n} /\ process_wake(n, deferred) /\ UNCHANGED local
  /\ UNCHANGED <<slabs, in_flight, aborts, exited, starts, inbox, requests,
                 flagged, changed, lease, scope, place, sig, todo, job>>

phase_done ==
  /\ \/ at = "deferred" /\ todo = {}
     \/ at \in Waking /\ (~Pending \/ (at = "wakes" /\ ~sig /\ parked = {}))
  /\ at' = CASE at = "deferred" -> Ahead(3) [] at = "wakes" -> Ahead(4)
             [] at = "expired" -> "select" [] at = "late" -> "select_late"
  /\ UNCHANGED <<slabs, queues, in_flight, aborts, exited, starts, local, shared,
                 tasks, sig, todo, job>>

\* expire_timers: an expired timer of a wait nobody has won selects it.
expire_timers ==
  /\ at = "timers"
  /\ \E due \in SUBSET timers :
       LET won == {x \in due : cell[x.token[1]].phase = "Active" /\ token(x.token[1]) = x.token}
       IN /\ timers' = pop_expired(due)
          /\ cell' = [t \in Tasks |-> IF \E x \in won : x.token[1] = t
                                      THEN [cell[t] EXCEPT !.phase = "Selected"] ELSE cell[t]]
          /\ hub' = hub \cup {Notice(x.token[1]) : x \in won}
  /\ at' = "expired"
  /\ UNCHANGED <<slabs, ready, parked, deferred, in_flight, aborts, exited, starts, local, inbox,
                 requests, flagged, changed, lease, scope, place, sig, todo, job>>

\* A task of a scope whose abort is deferred stays where it is.
Unblocked == {key \in LiveKeys : \A s \in aborts : ~Covers(s, Task(key))}

select_ready ==
  /\ at \in {"select", "select_late"}
  /\ LET next == IF aborts = {} THEN pop_front(ready) ELSE pop_matching(ready, Unblocked)
     IN /\ ready' = next.queue
        /\ in_flight' = IF next.entry = Nothing THEN NoTask ELSE next.entry
        /\ at' = CASE next.entry # Nothing -> "mount"
                   [] next.entry = Nothing /\ at = "select" /\ Pending -> "late"
                   [] OTHER -> "top"
  /\ UNCHANGED <<slabs, parked, timers, deferred, aborts, exited, starts, local,
                 shared, tasks, sig, todo, job>>

-----------------------------------------------------------------------------
(* Dispatch, and what a mounted task does. *)

Mounted == Task(in_flight)

\* The scope of the task is being aborted: the request may still be on its way.
abort_dispatch ==
  /\ at = "mount" /\ ScopeOf[Root(Mounted)] \in flagged
  /\ abort(ScopeOf[Root(Mounted)], "top", "top")
  /\ UNCHANGED <<requests, todo>>

\* A resumed wait takes its result; a revoked lease does not resume.
dispatch ==
  /\ at = "mount" /\ ScopeOf[Root(Mounted)] \notin flagged
  /\ IF in_flight \in Gone
     THEN /\ at' = "discard" /\ job' = [keys |-> {in_flight}, back |-> "top"]
          /\ UNCHANGED <<cell, lease>>
     ELSE /\ at' = "run" /\ UNCHANGED job
          /\ cell' = [cell EXCEPT ![Mounted] = Idle(@.n)]
          /\ lease' = IF Mounted \in Kids THEN [lease EXCEPT ![Mounted] = "Running"] ELSE lease
  /\ UNCHANGED <<slabs, queues, in_flight, aborts, exited, starts, local, shared,
                 scope, place, sig, todo>>

Suspended == IF Mounted \in Kids THEN [lease EXCEPT ![Mounted] = "Ready"] ELSE lease

\* spawn_with: the lease is the scope's before the start is queued.
spawn(k) ==
  /\ at = "run" /\ Mounted = OwnerOf[k] /\ place[k] = "new"
  /\ scope[Mounted] # "closed" /\ ScopeOf[Mounted] \notin flagged
  /\ scope' = [scope EXCEPT ![Mounted] = "open"]
  /\ lease' = [lease EXCEPT ![k] = "Ready"]
  /\ starts' = push_start(k)
  /\ place' = [place EXCEPT ![k] = "starts"]
  /\ UNCHANGED <<slabs, queues, in_flight, aborts, exited, local, shared, cell, drive>>

\* The mounted task wakes another task of its carrier.
wake(t) ==
  /\ at = "run" /\ cell[t].phase = "Active" /\ ~cell[t].join
  /\ cell' = [cell EXCEPT ![t].phase = "Selected"]
  /\ local' = Append(local, Notice(t))
  /\ UNCHANGED <<slabs, queues, in_flight, aborts, exited, starts, shared, lease,
                 scope, place, drive>>

Children(r) == {k \in Kids : OwnerOf[k] = r /\ place[k] \notin {"new", "done"}}

\* The local scope of the mounted task returns: it drained its children, or it
\* is left by a panic that cannot suspend, and then none of them has run.
exit_scope ==
  /\ at = "run" /\ Mounted \in Roots /\ scope[Mounted] = "open"
  /\ \A k \in Children(Mounted) : place[k] = "starts"
  /\ scope' = [scope EXCEPT ![Mounted] = "closed"]
  /\ lease' = Revoked(Mounted)
  /\ exited' = TRUE
  /\ UNCHANGED <<slabs, queues, in_flight, aborts, starts, local, shared, cell,
                 place, drive>>

yield_now ==
  /\ at = "run"
  /\ ready' = push_back(ready, in_flight) /\ in_flight' = NoTask
  /\ lease' = Suspended
  /\ at' = "top"
  /\ UNCHANGED <<slabs, parked, timers, deferred, aborts, exited, starts, local,
                 shared, cell, scope, place, sig, todo, job>>

\* park_task: an event with or without a deadline, or the end of a child.
park_task(timed, join) ==
  /\ at = "run" /\ cell[Mounted].n < MaxParks
  /\ timed => Mounted \in Timed
  /\ join => Mounted \in Roots /\ Children(Mounted) # {} /\ ~timed
  /\ LET tok == <<Mounted, cell[Mounted].n + 1>>
     IN /\ cell' = [cell EXCEPT ![Mounted] =
                      [phase |-> "Active", n |-> @.n + 1, join |-> join, seen |-> FALSE]]
        /\ parked' = parked \cup {[key |-> in_flight, token |-> tok]}
        /\ timers' = IF timed THEN schedule(in_flight, tok) ELSE timers
  /\ in_flight' = NoTask
  /\ lease' = Suspended
  /\ at' = "top"
  /\ UNCHANGED <<slabs, ready, deferred, aborts, exited, starts, local, shared,
                 scope, place, sig, todo, job>>

complete_task ==
  /\ at = "run"
  /\ Mounted \in Roots => scope[Mounted] # "open"
  /\ remove_in_flight(in_flight)
  /\ in_flight' = NoTask
  /\ lease' = IF Mounted \in Kids THEN [lease EXCEPT ![Mounted] = "Reclaimed"] ELSE lease
  /\ place' = [place EXCEPT ![Mounted] = "done"]
  /\ cell' = Announced(Mounted, cell) /\ local' = AnnouncedTo(Mounted, local)
  /\ at' = "top"
  /\ UNCHANGED <<queues, aborts, exited, starts, shared, scope, sig, todo, job>>

-----------------------------------------------------------------------------
Carrier ==
  \/ discard \/ discarded
  \/ read_signal \/ stop_abort \/ take_abort \/ receive
  \/ sweep_revoked \/ retry_aborts \/ retried \/ process_deferred_wakes
  \/ process_wakes \/ phase_done \/ expire_timers \/ select_ready
  \/ abort_dispatch \/ dispatch
  \/ (\E k \in Kids : spawn(k)) \/ (\E t \in Tasks : wake(t)) \/ exit_scope
  \/ yield_now \/ (\E timed, join \in BOOLEAN : park_task(timed, join))
  \/ complete_task

Next ==
  \/ Carrier
  \/ \E r \in Roots : push(r)
  \/ \E t \in Tasks : claim(t) \/ publish(t)
  \/ \E s \in Scopes : request_abort(s) \/ post_abort(s)
  \/ stop

Spec == Init /\ [][Next]_vars

-----------------------------------------------------------------------------
\* Every live task is in exactly one place (the assertion of snapshot,
\* kernel.rs:248, and the expect of every key lookup), and the free list holds
\* each free slot once.
TaskPlaced ==
  /\ LiveKeys = Entries(ready) \cup {p.key : p \in parked}
                  \cup (IF in_flight = NoTask THEN {} ELSE {in_flight})
  /\ Cardinality(LiveKeys) = Size(ready) + Cardinality(parked)
                               + (IF in_flight = NoTask THEN 0 ELSE 1)
  /\ \A k \in DOMAIN slab :
       /\ Range(vacant[k]) = {i \in DOMAIN slab[k] : slab[k][i] = NoTask}
       /\ Len(vacant[k]) = Cardinality(Range(vacant[k]))

\* Whatever is queued for a route is about the wait parked there: no notice,
\* deferred wake or timer of a retired wait meets the next owner of its slot
\* (the fault of kernel_wake.rs:46), and no task is discarded while a publisher
\* still holds its wait (the assertions of abort and sweep_revoked).
RouteExact ==
  /\ at # "failed"
  /\ \A n \in hub \cup Range(local) \cup deferred :
       \E p \in parked : p.key = n.route /\ p.token = n.token /\ Task(p.key) = n.task
  /\ \A x \in timers : \E p \in parked : p.key = x.key /\ p.token = x.token
  /\ \A key \in job.keys : cell[Task(key)].phase # "Claim"

\* A borrowed child runs only while the local scope it borrows from is open
\* and its owner is alive on this carrier, whatever unwinds, aborts or stops.
BorrowedAlive ==
  \A k \in Kids : lease[k] = "Running" =>
    scope[OwnerOf[k]] = "open" /\ place[OwnerOf[k]] = "live"

\* A carrier that leaves its loop has nothing left (Kernel.reclaimed).
HaltReclaimed ==
  at = "halt" =>
    /\ LiveKeys = {} /\ in_flight = NoTask /\ Size(ready) = 0
    /\ parked = {} /\ deferred = {} /\ aborts = {} /\ timers = {}
    /\ starts = <<>> /\ local = <<>> /\ inbox = <<>>
=============================================================================
