----------------------------- MODULE CancelTask -----------------------------
(***************************************************************************)
(* How a cancellation reaches a task: the flag and the epoch probe of a    *)
(* running task (task_context.rs), and the wait slot of a parked one       *)
(* (cancellation_subscription.rs).  Executions are reused by successive    *)
(* tasks, and one parker may be used by several tasks in turn.             *)
(*                                                                         *)
(* Which tokens a request reaches is CancelGraph's concern: here a token   *)
(* is a child of the root, 0.  A wait cell is its generation, its owner    *)
(* and its winner; WaitCell models the rest.  A shielded wait does not     *)
(* subscribe, and is left out.                                             *)
(***************************************************************************)
EXTENDS Naturals, FiniteSets

CONSTANTS
  Executions,      \* carrier-cached executions
  Cancellers,      \* threads calling cancel
  Parkers,         \* wait cells any task may use
  MaxTokens,       \* bound on the tasks started
  MaxWaits,        \* bound on the waits begun
  MaxCancels       \* bound on the cancel calls

\* A resident cell is its execution's own, and no cell is "none".
CancelTaskAssumption ==
  /\ MaxTokens \in Nat
  /\ Parkers \cap Executions = {}
  /\ "none" \notin Parkers \cup Executions

Root == 0
Tokens == 0..MaxTokens
Cells == Parkers \cup Executions   \* an execution names its resident cell
NoTask == MaxTokens + 1
NoWait == [kind |-> "none", gen |-> 0]
NoFallback == [cell |-> "none", gen |-> 0]

VARIABLES
  started, flag,            \* tokens inserted, NodeState's CANCELLED
  lock, epoch,              \* holder of the domain lock, Domain.epoch
  active, primary, fallback, fepoch,   \* WaitSlot and the fallback map
  gen, owner, winner, waits, \* wait cells, waits begun so far
  task,                     \* per execution: token, pc, cell and its policy
  canceller,                \* per canceller: phase, nodes and waits in hand
  calls                     \* cancel calls so far

vars == <<started, flag, lock, epoch, active, primary, fallback, fepoch, gen, owner, winner, waits,
          task, canceller, calls>>
domain == <<started, flag, lock, epoch, canceller, calls>>
slots == <<active, primary, fallback, fepoch>>
cells == <<gen, owner, winner, waits>>

Idle == [phase |-> "idle", mark |-> {}, read |-> {}, look |-> <<>>, waits |-> {}]

\* TaskPolicy.new and reset: nothing observed yet.
reset(t, e) ==
  [token |-> t, pc |-> "run", cell |-> e, observed |-> 0, cancelled |-> FALSE]

Init ==
  /\ started = 0 /\ flag = [t \in Tokens |-> FALSE] /\ lock = {} /\ epoch = 1
  /\ active = [t \in Tokens |-> NoWait] /\ primary = [t \in Tokens |-> "none"]
  /\ fallback = [t \in Tokens |-> NoFallback] /\ fepoch = 0
  /\ gen = [c \in Cells |-> 0] /\ owner = [c \in Cells |-> {}] /\ winner = [c \in Cells |-> "none"] /\ waits = 0
  /\ task = [e \in Executions |-> [reset(NoTask, e) EXCEPT !.pc = "none"]]
  /\ canceller = [k \in Cancellers |-> Idle] /\ calls = 0

Cancelled(e) == flag[task[e].token]

-----------------------------------------------------------------------------
(* A task and its checkpoints *)

\* Mutant: a reused execution keeps the epoch its last task observed.
reuse_observed(e, t) == [reset(t, e) EXCEPT !.observed = task[e].observed]

\* Execution::reuse with the token of the new task.
reuse(e, t) == reset(t, e)

\* A token inserted below a cancelled parent is cancelled, under the lock.
Start(e) ==
  LET t == started + 1 IN
  /\ task[e].pc = "none" /\ t <= MaxTokens /\ lock = {}
  /\ started' = t
  /\ flag' = [flag EXCEPT ![t] = flag[Root]]
  /\ task' = [task EXCEPT ![e] = reuse(e, t)]
  /\ UNCHANGED <<lock, epoch, canceller, calls, slots, cells>>

Complete(e) ==
  /\ task[e].pc = "run"
  /\ task' = [task EXCEPT ![e] = [reset(NoTask, e) EXCEPT !.pc = "none", !.observed = task[e].observed]]
  /\ primary' = [primary EXCEPT ![task[e].token] = "none"]
  /\ UNCHANGED <<domain, active, fallback, fepoch, cells>>

\* checkpoint_decision: the flag is read only when the epoch has moved.
check_epoch(e) ==
  /\ task[e].pc = "run" /\ ~task[e].cancelled /\ epoch # task[e].observed
  /\ task' = [task EXCEPT ![e].observed = epoch, ![e].pc = "check"]
  /\ UNCHANGED <<domain, slots, cells>>

check_flag(e) ==
  /\ task[e].pc = "check"
  /\ task' = [task EXCEPT ![e].cancelled = Cancelled(e), ![e].pc = "run"]
  /\ UNCHANGED <<domain, slots, cells>>

-----------------------------------------------------------------------------
(* A task parks *)

\* A cell is used by one task at a time.
begin(e, c) ==
  /\ task[e].pc = "run" /\ c \in Parkers \cup {e} /\ owner[c] = {} /\ waits < MaxWaits
  /\ waits' = waits + 1
  /\ gen' = [gen EXCEPT ![c] = @ + 1] /\ owner' = [owner EXCEPT ![c] = {e}]
  /\ winner' = [winner EXCEPT ![c] = "none"]
  /\ task' = [task EXCEPT ![e].cell = c, ![e].pc = "claim"]
  /\ UNCHANGED <<domain, slots>>

\* register_wait and register_resident_wait: the first parker of a token is
\* its primary, any other goes through the fallback map.
register(e) ==
  LET t == task[e].token
      c == task[e].cell
  IN /\ task[e].pc = "claim" /\ active[t] = NoWait
     /\ \/ /\ c = e /\ active' = [active EXCEPT ![t] = [kind |-> "resident", gen |-> gen[c]]]
           /\ UNCHANGED <<primary, fallback, fepoch>>
        \/ /\ c # e /\ primary[t] \in {"none", c}
           /\ primary' = [primary EXCEPT ![t] = c]
           /\ active' = [active EXCEPT ![t] = [kind |-> "primary", gen |-> gen[c]]]
           /\ UNCHANGED <<fallback, fepoch>>
        \/ /\ c # e /\ primary[t] \notin {"none", c}
           /\ fepoch' = fepoch + 1
           /\ fallback' = [fallback EXCEPT ![t] = [cell |-> c, gen |-> gen[c]]]
           /\ active' = [active EXCEPT ![t] = [kind |-> "fallback", gen |-> fepoch + 1]]
           /\ UNCHANGED primary
     /\ task' = [task EXCEPT ![e].pc = "recheck"]
     /\ UNCHANGED <<domain, cells>>

\* select_cancelled: only the generation that is waiting, and only once.
Selected(c, g) ==
  IF owner[c] # {} /\ gen[c] = g /\ winner[c] = "none"
  THEN [winner EXCEPT ![c] = "cancelled"] ELSE winner

\* Mutant: the flag is not read again after the slot is claimed.
recheck_never(e) ==
  /\ task[e].pc = "recheck"
  /\ task' = [task EXCEPT ![e].pc = "park"]
  /\ UNCHANGED <<domain, slots, cells>>

recheck(e) ==
  /\ task[e].pc = "recheck"
  /\ winner' = IF Cancelled(e) THEN Selected(task[e].cell, gen[task[e].cell]) ELSE winner
  /\ task' = [task EXCEPT ![e].pc = "park"]
  /\ UNCHANGED <<domain, slots, gen, owner, waits>>

\* The task resumes, cancelled or by some other winner, and the wait finishes
\* before its subscription is dropped.
finish(e) ==
  LET c == task[e].cell IN
  /\ task[e].pc = "park"
  /\ owner' = [owner EXCEPT ![c] = {}] /\ winner' = [winner EXCEPT ![c] = "none"]
  /\ task' = [task EXCEPT ![e].pc = "leave"]
  /\ UNCHANGED <<domain, slots, gen, waits>>

unregister_wait(e) ==
  LET t == task[e].token IN
  /\ task[e].pc = "leave"
  /\ active' = [active EXCEPT ![t] = NoWait]
  /\ fallback' = IF active[t].kind = "fallback" THEN [fallback EXCEPT ![t] = NoFallback] ELSE fallback
  /\ task' = [task EXCEPT ![e].pc = "run"]
  /\ UNCHANGED <<domain, primary, fepoch, cells>>

-----------------------------------------------------------------------------
(* cancel *)

Live == {task[e].token : e \in Executions} \ {NoTask}
Reaches(t) == {n \in (IF t = Root THEN Live \cup {Root} ELSE {t}) : ~flag[n]}

cancel(k, t) ==
  /\ canceller[k].phase = "idle" /\ calls < MaxCancels /\ lock = {} /\ t \in Live \cup {Root}
  /\ calls' = calls + 1 /\ lock' = {k}
  /\ canceller' = [canceller EXCEPT ![k] = [Idle EXCEPT !.phase = "mark", !.mark = Reaches(t)]]
  /\ UNCHANGED <<started, flag, epoch, slots, cells, task>>

\* cancel_nodes marks entry by entry; a flag is read without the lock.
mark(k, n) ==
  /\ canceller[k].phase = "mark" /\ n \in canceller[k].mark
  /\ flag' = [flag EXCEPT ![n] = TRUE]
  /\ canceller' = [canceller EXCEPT ![k].mark = @ \ {n}, ![k].read = @ \cup ({n} \ {Root})]
  /\ UNCHANGED <<started, lock, epoch, calls, slots, cells, task>>

\* A call with nothing left to read or select has returned.
Settled(c) == IF c.read = {} /\ c.waits = {} THEN Idle ELSE c

\* The epoch follows the last flag.
advance(k) ==
  /\ canceller[k].phase = "mark" /\ canceller[k].mark = {}
  /\ epoch' = epoch + 1 /\ lock' = {}
  /\ canceller' = [canceller EXCEPT ![k] = Settled([@ EXCEPT !.phase = "read"])]
  /\ UNCHANGED <<started, flag, calls, slots, cells, task>>

\* Node::active_wait outside the domain lock.
active_wait(k, n) ==
  LET a == active[n]
      seen(W) == Settled([canceller[k] EXCEPT !.read = @ \ {n}, !.waits = @ \cup W])
  IN /\ canceller[k].phase = "read" /\ n \in canceller[k].read /\ canceller[k].look = <<>>
     /\ \/ a = NoWait /\ canceller' = [canceller EXCEPT ![k] = seen({})]
        \/ /\ a.kind = "primary"
           /\ canceller' = [canceller EXCEPT ![k] = seen({<<primary[n], a.gen>>})]
        \/ /\ a.kind = "resident"
           /\ \E e \in Executions : task[e].token = n
                /\ canceller' = [canceller EXCEPT ![k] = seen({<<e, a.gen>>})]
        \/ /\ a.kind = "fallback"
           /\ canceller' = [canceller EXCEPT ![k].look = <<n, a>>]
     /\ UNCHANGED <<started, flag, lock, epoch, calls, slots, cells, task>>

\* Mutant: the slot is not compared again under the lock, and the generation
\* is the one the cell has by then.
Looked_any(n, a) ==
  IF fallback[n] # NoFallback THEN {<<fallback[n].cell, gen[fallback[n].cell]>>} ELSE {}

\* The fallback map is read under its lock, if the slot still holds a.
Looked(n, a) ==
  IF active[n] = a /\ fallback[n] # NoFallback THEN {<<fallback[n].cell, fallback[n].gen>>} ELSE {}

look_fallback(k) ==
  LET n == canceller[k].look[1]
      a == canceller[k].look[2]
      seen == [canceller[k] EXCEPT !.look = <<>>, !.read = @ \ {n}, !.waits = @ \cup Looked(n, a)]
  IN /\ canceller[k].phase = "read" /\ canceller[k].look # <<>>
     /\ canceller' = [canceller EXCEPT ![k] = Settled(seen)]
     /\ UNCHANGED <<started, flag, lock, epoch, calls, slots, cells, task>>

select_cancelled(k, w) ==
  LET left == [canceller[k] EXCEPT !.waits = @ \ {w}] IN
  /\ canceller[k].phase = "read" /\ canceller[k].read = {} /\ w \in canceller[k].waits
  /\ winner' = Selected(w[1], w[2])
  /\ canceller' = [canceller EXCEPT ![k] = Settled(left)]
  /\ UNCHANGED <<started, flag, lock, epoch, calls, slots, gen, owner, waits, task>>

-----------------------------------------------------------------------------
Tasks == \E e \in Executions : Start(e) \/ Complete(e)
Checkpoints == \E e \in Executions : check_epoch(e) \/ check_flag(e)
Parking == \E e \in Executions : \/ register(e) \/ recheck(e) \/ finish(e) \/ unregister_wait(e)
                                 \/ \E c \in Cells : begin(e, c)
Cancels == \E k \in Cancellers : \/ \E t \in Tokens : cancel(k, t) \/ mark(k, t) \/ active_wait(k, t)
                                 \/ advance(k) \/ look_fallback(k)
                                 \/ \E w \in canceller[k].waits : select_cancelled(k, w)
Next == Tasks \/ Checkpoints \/ Parking \/ Cancels
Spec == Init /\ [][Next]_vars

-----------------------------------------------------------------------------
(* Properties *)

Pending(t) == \E k \in Cancellers : canceller[k].phase # "idle"
                 /\ t \in canceller[k].mark \cup canceller[k].read
                          \cup {task[e].token : e \in {x \in Executions :
                                  <<task[x].cell, gen[task[x].cell]>> \in canceller[k].waits}}

\* task_context.rs:213: the epoch is read without the domain lock and cached,
\* also across the tasks of one execution; yet once a cancel has left the
\* lock, the next checkpoint of a task it reached reports it.
CheckpointSees ==
  \A e \in Executions :
    (task[e].pc = "run" /\ lock = {} /\ Cancelled(e)) => (task[e].cancelled \/ task[e].observed # epoch)

\* cancellation_subscription.rs:166: whichever of the parking task and the
\* cancel comes second sees the other: a task of a cancelled token never stays
\* parked, unless a cancel is still about to select it.
CancelReachesWait ==
  \A e \in Executions :
    (task[e].pc = "park" /\ Cancelled(e))
      => (winner[task[e].cell] # "none" \/ Pending(task[e].token))

\* cancellation_subscription.rs:94: a cancel that acts on a slot it read
\* earlier never cancels a wait of a task that was not cancelled, even when
\* that task reuses the parker of the one that was.
OnlyCancelled ==
  \A e \in Executions :
    (task[e].pc = "park" /\ winner[task[e].cell] = "cancelled") => Cancelled(e)
=============================================================================
