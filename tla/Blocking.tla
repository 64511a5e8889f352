------------------------------ MODULE Blocking ------------------------------
(***************************************************************************)
(* blocking::run and its bounded native pool: callers submit one job each, *)
(* native workers run, discard or reclaim jobs under one capacity, a stop  *)
(* or a failed worker closes admission.                                    *)
(*                                                                         *)
(* The pool's mutex makes each locked section a step.  The condition       *)
(* variable is the set of workers waiting on it; spurious wakeups are left *)
(* out, so that a missing notification shows.  A job is its caller.  The   *)
(* wait of a call is its winner.  A user body and a destructor end.        *)
(***************************************************************************)
EXTENDS Naturals, Sequences, FiniteSets

CONSTANTS
  Callers,         \* calls of blocking::run, one job each
  Workers,         \* blocking_threads
  Capacity,        \* blocking_capacity
  MaxFaults        \* bound on the panics outside a job's boundary

\* A worker without a job says "none".
BlockingAssumption == Capacity \in Nat /\ "none" \notin Callers

VARIABLES
  queue, completed, running, discarding, stopped, failed,   \* State
  waiting,         \* workers waiting on changed
  abandoned,       \* per job: Reclaim.abandoned
  output,          \* per job: what Output holds
  winner,          \* per job: the wake its caller got
  call,            \* per job: where its caller is
  worker,          \* per worker: pc, job, discard, failing, drain
  panics           \* panics so far

pool == <<queue, completed, running, discarding, stopped, failed>>
jobs == <<abandoned, output, winner>>
vars == <<pool, waiting, jobs, call, worker, panics>>

\* A failed worker has drain takes left.
Fresh == [pc |-> "take", job |-> "none", discard |-> FALSE, failing |-> FALSE, drain |-> 0]

Init ==
  /\ queue = <<>> /\ completed = <<>> /\ running = 0 /\ discarding = 0
  /\ stopped = FALSE /\ failed = FALSE /\ waiting = {}
  /\ abandoned = [c \in Callers |-> FALSE] /\ output = [c \in Callers |-> "empty"]
  /\ winner = [c \in Callers |-> "none"] /\ call = [c \in Callers |-> "idle"]
  /\ worker = [w \in Workers |-> Fresh] /\ panics = 0

Select(c, cause) == IF winner[c] = "none" THEN [winner EXCEPT ![c] = cause] ELSE winner

-----------------------------------------------------------------------------
(* Callers *)

\* Mutant: results waiting for their caller are not charged.
Charged_uncommitted == Len(queue) + running + discarding

Charged == Len(queue) + Len(completed) + running + discarding

\* A refused closure is destroyed by its caller.
submit(c) ==
  /\ call[c] = "idle"
  /\ \/ /\ failed \/ stopped \/ Charged >= Capacity
        /\ call' = [call EXCEPT ![c] = "refused"]
        /\ UNCHANGED <<queue, waiting>>
     \/ /\ ~failed /\ ~stopped /\ Charged < Capacity
        /\ queue' = Append(queue, c) /\ call' = [call EXCEPT ![c] = "parked"]
        /\ \/ waiting = {} /\ UNCHANGED waiting
           \/ \E w \in waiting : waiting' = waiting \ {w}
  /\ UNCHANGED <<completed, running, discarding, stopped, failed, jobs, worker, panics>>

\* The caller is cancelled, times out or is revoked.
interrupt(c) ==
  /\ call[c] = "parked" /\ winner[c] = "none"
  /\ winner' = [winner EXCEPT ![c] = "cancelled"]
  /\ UNCHANGED <<pool, waiting, abandoned, output, call, worker, panics>>

\* Output::take and Output::discard: the caller's result, if it is still there.
Emptied(c, how) == IF output[c] = "stored" THEN [output EXCEPT ![c] = how] ELSE output

\* Ready commits the result; every other winner leaves it to the pool.
resume(c) ==
  /\ call[c] = "parked" /\ winner[c] # "none"
  /\ output' = IF winner[c] = "ready" THEN Emptied(c, "taken") ELSE output
  /\ call' = [call EXCEPT ![c] = "leaving"]
  /\ UNCHANGED <<pool, waiting, abandoned, winner, worker, panics>>

\* Drop of the lease: the flag first, then the lock and the notification.
abandon(c) ==
  /\ call[c] = "leaving" /\ ~abandoned[c]
  /\ abandoned' = [abandoned EXCEPT ![c] = TRUE]
  /\ UNCHANGED <<pool, waiting, output, winner, call, worker, panics>>

\* Mutant: dropping a lease notifies nobody.
drop_lease_silent(c) ==
  /\ call[c] = "leaving" /\ abandoned[c]
  /\ call' = [call EXCEPT ![c] = "done"]
  /\ UNCHANGED <<pool, waiting, jobs, worker, panics>>

drop_lease(c) ==
  /\ call[c] = "leaving" /\ abandoned[c]
  /\ waiting' = {} /\ call' = [call EXCEPT ![c] = "done"]
  /\ UNCHANGED <<pool, jobs, worker, panics>>

stop ==
  /\ ~stopped
  /\ stopped' = TRUE /\ waiting' = {}
  /\ UNCHANGED <<queue, completed, running, discarding, failed, jobs, call, worker, panics>>

-----------------------------------------------------------------------------
(* Workers *)

At(w, pc) == worker[w].pc = pc /\ w \notin waiting
Abandoned(s) == {i \in 1..Len(s) : abandoned[s[i]]}
Without(s, i) == SubSeq(s, 1, i - 1) \o SubSeq(s, i + 1, Len(s))
Taken(w, pc, c, discard) ==
  worker' = [worker EXCEPT ![w].pc = pc, ![w].job = c, ![w].discard = discard,
                           ![w].drain = IF worker[w].failing THEN @ - 1 ELSE @]

\* take: an abandoned result first, then the front of the queue.
take(w) ==
  LET gone == Abandoned(completed)
      first == CHOOSE i \in gone : \A k \in gone : i <= k
      discard == stopped \/ abandoned[Head(queue)]
  IN /\ At(w, "take") /\ (~worker[w].failing \/ worker[w].drain > 0)
     /\ \/ /\ gone # {}
           /\ completed' = Without(completed, first) /\ discarding' = discarding + 1
           /\ Taken(w, "destroy", completed[first], TRUE)
           /\ UNCHANGED <<queue, running, waiting>>
        \/ /\ gone = {} /\ queue # <<>>
           /\ queue' = Tail(queue)
           /\ IF discard THEN discarding' = discarding + 1 /\ UNCHANGED running
                         ELSE running' = running + 1 /\ UNCHANGED discarding
           /\ Taken(w, "execute", Head(queue), discard)
           /\ UNCHANGED <<completed, waiting>>
        \/ /\ gone = {} /\ queue = <<>> /\ stopped /\ completed = <<>>
           /\ worker' = [worker EXCEPT ![w].pc = "exit"]
           /\ UNCHANGED <<queue, completed, running, discarding, waiting>>
        \/ /\ gone = {} /\ queue = <<>> /\ ~(stopped /\ completed = <<>>)
           /\ waiting' = waiting \cup {w}
           /\ UNCHANGED <<queue, completed, running, discarding, worker>>
     /\ UNCHANGED <<stopped, failed, jobs, call, panics>>

\* The drain of a failed worker is bounded by the capacity.
drained(w) ==
  /\ At(w, "take") /\ worker[w].failing /\ worker[w].drain = 0
  /\ worker' = [worker EXCEPT ![w].pc = "exit"]
  /\ UNCHANGED <<pool, waiting, jobs, call, panics>>

Go(w, pc) == worker' = [worker EXCEPT ![w].pc = pc]
Free(w) == worker' = [worker EXCEPT ![w].pc = "take", ![w].job = "none", ![w].discard = FALSE]

\* A discarded job closes its caller's wait; a job abandoned by now is not run.
execute(w) ==
  LET c == worker[w].job IN
  /\ At(w, "execute")
  /\ \/ /\ worker[w].discard
        /\ winner' = Select(c, "closed") /\ Go(w, "settle") /\ UNCHANGED output
     \/ /\ ~worker[w].discard /\ abandoned[c]
        /\ Go(w, "settle") /\ UNCHANGED <<winner, output>>
     \/ /\ ~worker[w].discard /\ ~abandoned[c]
        /\ output' = [output EXCEPT ![c] = "stored"] /\ Go(w, "ready") /\ UNCHANGED winner
  /\ UNCHANGED <<pool, waiting, abandoned, call, panics>>

select_ready(w) ==
  /\ At(w, "ready")
  /\ winner' = Select(worker[w].job, "ready") /\ Go(w, "settle")
  /\ UNCHANGED <<pool, waiting, abandoned, output, call, panics>>

\* Mutant: the result is reclaimed as soon as the body has returned.
retain_never(w) == FALSE

\* The result outlives the body until its caller commits or leaves.
retain(w) == ~worker[w].discard /\ ~abandoned[worker[w].job]

\* A retained charge leaves the counters alone, and its wait has a winner.
settle(w) ==
  LET c == worker[w].job IN
  /\ At(w, "settle")
  /\ \/ /\ retain(w)
        /\ running' = running - 1 /\ completed' = Append(completed, c) /\ waiting' = {}
        /\ Free(w)
     \/ /\ ~retain(w)
        /\ Go(w, "destroy") /\ UNCHANGED <<running, completed, waiting>>
  /\ UNCHANGED <<queue, discarding, stopped, failed, jobs, call, panics>>

\* Reclaim: what Output still holds is destroyed on the worker, and the
\* charge closes the wait, a no-op once that has a winner.
destroy(w) ==
  LET c == worker[w].job IN
  /\ At(w, "destroy")
  /\ output' = Emptied(c, "lost")
  /\ winner' = Select(c, "closed") /\ Go(w, "uncharge")
  /\ UNCHANGED <<pool, waiting, abandoned, call, panics>>

uncharge(w) ==
  /\ At(w, "uncharge")
  /\ IF worker[w].discard THEN discarding' = discarding - 1 /\ UNCHANGED running
                          ELSE running' = running - 1 /\ UNCHANGED discarding
  /\ Free(w)
  /\ UNCHANGED <<queue, completed, stopped, failed, waiting, jobs, call, panics>>

\* A panic outside any job: admission closes, queued callers are woken, and
\* the worker drains what is left.
fail(w) ==
  /\ At(w, "take") /\ ~worker[w].failing /\ panics < MaxFaults
  /\ panics' = panics + 1
  /\ failed' = TRUE /\ stopped' = TRUE /\ waiting' = {}
  /\ winner' = [c \in Callers |->
                  IF \E i \in 1..Len(queue) : queue[i] = c THEN Select(c, "closed")[c] ELSE winner[c]]
  /\ worker' = [worker EXCEPT ![w].failing = TRUE, ![w].drain = Capacity]
  /\ UNCHANGED <<queue, completed, running, discarding, abandoned, output, call>>

-----------------------------------------------------------------------------
WorkerStep(w) == \/ take(w) \/ drained(w) \/ execute(w) \/ select_ready(w) \/ settle(w)
                 \/ destroy(w) \/ uncharge(w)
CallerStep(c) == resume(c) \/ abandon(c) \/ drop_lease(c)

Next == \/ \E c \in Callers : submit(c) \/ interrupt(c) \/ CallerStep(c)
        \/ \E w \in Workers : WorkerStep(w) \/ fail(w)
        \/ stop

\* Callers and workers are scheduled; nobody is obliged to submit, to
\* interrupt, to stop or to fail.
Fairness == /\ \A c \in Callers : WF_vars(CallerStep(c))
            /\ \A w \in Workers : WF_vars(WorkerStep(w))
Spec == Init /\ [][Next]_vars /\ Fairness

-----------------------------------------------------------------------------
(* Properties *)

Held == {c \in Callers : \E w \in Workers : worker[w].job = c /\ worker[w].pc # "uncharge"}
Owned == Held \cup {queue[i] : i \in 1..Len(queue)} \cup {completed[i] : i \in 1..Len(completed)}

\* pool.rs:116: the captures and results the pool owns, wherever a worker is
\* with them, are charged until they are destroyed and stay within capacity.
CapacityHeld == Cardinality(Owned) <= Charged /\ Charged <= Capacity

\* blocking.rs:11: a Ready that won is a commitment: the caller finds its
\* result however late it resumes, though workers reclaim, stop and fail.
ResultCommitted ==
  \A c \in Callers : (call[c] = "parked" /\ winner[c] = "ready") => output[c] = "stored"

\* worker.rs:105 and pool.rs:180: the calls under way all come back (a caller
\* calls once), and once the pool is stopped its workers leave with nothing
\* charged, although results whose callers have not resumed yet hold the
\* workers back.
PoolSettles ==
  (stopped \/ \E c \in Callers : call[c] = "parked")
    ~> /\ \A c \in Callers : call[c] \notin {"parked", "leaving"}
       /\ stopped => Charged = 0 /\ \A w \in Workers : worker[w].pc = "exit"
=============================================================================
