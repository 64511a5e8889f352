-------------------------- MODULE CancelTaskProofs --------------------------
(***************************************************************************)
(* A cancellation reaches the task it is for, and no other: the three      *)
(* properties of CancelTask for every number of executions, cancelling     *)
(* threads, parkers, tasks and calls.  The wake queue implements its FIFO, *)
(* and misses nothing it discards, for every number of slots.  And a token *)
(* is cancelled exactly with an ancestor, for every ancestry.              *)
(***************************************************************************)
EXTENDS Signals, LineLemmas, FiniteSetTheorems

-----------------------------------------------------------------------------
(* The inductive invariant, in parts. *)

Slot == [kind : {"none", "resident", "primary", "fallback"}, gen : Nat]
Places == {"none", "run", "check", "claim", "recheck", "park", "leave"}
TaskRec == [token : 0..NoTask, pc : Places, cell : Cells, observed : Nat, cancelled : BOOLEAN]
CancelRec == [phase : {"idle", "mark", "read"}, mark : SUBSET Tokens, read : SUBSET Tokens,
              look : {<<>>} \cup (Tokens \X Slot), waits : SUBSET (Cells \X Nat)]

TypeOK ==
  /\ started \in 0..MaxTokens
  /\ flag \in [Tokens -> BOOLEAN]
  /\ lock \in SUBSET Cancellers
  /\ epoch \in Nat /\ epoch > 0
  /\ active \in [Tokens -> Slot]
  /\ primary \in [Tokens -> Parkers \cup {"none"}]
  /\ fallback \in [Tokens -> [cell : Cells \cup {"none"}, gen : Nat]]
  /\ fepoch \in Nat
  /\ gen \in [Cells -> Nat]
  /\ owner \in [Cells -> SUBSET Executions]
  /\ winner \in [Cells -> {"none", "cancelled"}]
  /\ waits \in Nat
  /\ task \in [Executions -> TaskRec]
  /\ canceller \in [Cancellers -> CancelRec]
  /\ calls \in Nat

\* A running task has a token of its own, handed out before, and uses a parker
\* or its resident cell.
TaskShape ==
  \A e \in Executions :
    /\ task[e].pc = "none" <=> task[e].token = NoTask
    /\ task[e].pc # "none" => task[e].token \in 1..started
    /\ task[e].cell \in Parkers \cup {e}
    /\ \A f \in Executions : task[e].token = task[f].token /\ task[e].pc # "none" => e = f

\* Who marks holds the domain lock; what a cancel has still to read is flagged.
CancelShape ==
  /\ lock = {} \/ \E k \in Cancellers : lock = {k}
  /\ \A k \in Cancellers : LET c == canceller[k] IN
       /\ c.phase = "mark" <=> lock = {k}
       /\ c.phase = "idle" => c = Idle
       /\ c.phase = "mark" => c.look = <<>> /\ c.waits = {}
       /\ \A n \in c.mark : n <= started
       /\ \A n \in c.read : n <= started /\ flag[n] /\ n # Root
       /\ c.look # <<>> => c.look[1] \in c.read /\ c.look[2].kind = "fallback"

\* A cell is owned by the task that is in a wait on it.
CellOwned ==
  /\ \A e \in Executions :
       task[e].pc \in {"claim", "recheck", "park"} => owner[task[e].cell] = {e}
  /\ \A c \in Cells : \A e \in owner[c] :
       /\ owner[c] = {e} /\ task[e].cell = c
       /\ task[e].pc \in {"claim", "recheck", "park"}

\* The generation a slot was claimed for, and what the slot says of the cell.
ClaimedGen(n) == IF active[n].kind = "fallback" THEN fallback[n].gen ELSE active[n].gen

Registered(e) ==
  LET n == task[e].token
      c == task[e].cell
  IN /\ active[n].kind # "none"
     /\ active[n].kind = "resident" => c = e
     /\ active[n].kind = "primary" => c = primary[n]
     /\ active[n].kind = "fallback" => c = fallback[n].cell
     /\ ClaimedGen(n) <= gen[c]
     /\ task[e].pc # "leave" => ClaimedGen(n) = gen[c]
     /\ task[e].pc = "leave" /\ ClaimedGen(n) = gen[c] => owner[c] = {}

InSlot == {"recheck", "park", "leave"}

SlotShape ==
  /\ \A e \in Executions : task[e].pc \in InSlot => Registered(e)
  /\ \A n \in Tokens : active[n].kind # "none" =>
       \E e \in Executions : task[e].token = n /\ task[e].pc \in InSlot

\* A wait a cancel has in hand, and a wait that was cancelled, belong to a
\* cancelled task for as long as their generation lasts.
HandsClean ==
  /\ \A k \in Cancellers : \A w \in canceller[k].waits :
       /\ w[2] <= gen[w[1]]
       /\ \A e \in owner[w[1]] : gen[w[1]] = w[2] => flag[task[e].token]
  /\ \A c \in Cells : \A e \in owner[c] :
       winner[c] = "cancelled" => flag[task[e].token]

\* Canceller k will still find the wait of e: it has the token to read, with
\* no older slot in hand, or the very wait.
WillSelect(k, e) ==
  LET n == task[e].token
      c == task[e].cell
  IN \/ /\ n \in canceller[k].read
        /\ canceller[k].look # <<>> /\ canceller[k].look[1] = n =>
             canceller[k].look[2] = active[n]
     \/ <<c, gen[c]>> \in canceller[k].waits

Reached ==
  \A e \in Executions :
    task[e].pc = "park" /\ Cancelled(e) /\ winner[task[e].cell] = "none" =>
      \E k \in Cancellers : canceller[k].phase # "idle" /\ WillSelect(k, e)

\* A task that has looked at the current epoch has seen every flag, unless one
\* is being set.
EpochSeen ==
  \A e \in Executions :
    /\ task[e].observed <= epoch
    /\ task[e].pc \notin {"none", "check"} /\ lock = {} /\ Cancelled(e) =>
         task[e].cancelled \/ task[e].observed # epoch

Inv ==
  /\ TypeOK /\ TaskShape /\ CancelShape /\ CellOwned
  /\ SlotShape /\ HandsClean /\ Reached /\ EpochSeen

\* What the types say of one task and of one cancel.
LEMMA Fields ==
  ASSUME CancelTaskAssumption, TypeOK
  PROVE  /\ \A e \in Executions :
              /\ task[e] \in TaskRec
              /\ task[e].token \in 0..NoTask /\ task[e].cell \in Cells
              /\ task[e].observed \in Nat /\ task[e].cancelled \in BOOLEAN
         /\ \A k \in Cancellers :
              /\ canceller[k] \in CancelRec
              /\ canceller[k].read \subseteq Tokens /\ canceller[k].mark \subseteq Tokens
              /\ \A w \in canceller[k].waits :
                   w \in Cells \X Nat /\ w = <<w[1], w[2]>> /\ w[1] \in Cells /\ w[2] \in Nat
         /\ \A c \in Cells : owner[c] \subseteq Executions /\ gen[c] \in Nat
<1>1. \A e \in Executions :
        /\ task[e] \in TaskRec
        /\ task[e].token \in 0..NoTask /\ task[e].cell \in Cells
        /\ task[e].observed \in Nat /\ task[e].cancelled \in BOOLEAN
  BY DEF TypeOK, TaskRec
<1>2. \A k \in Cancellers :
        /\ canceller[k] \in CancelRec
        /\ canceller[k].read \subseteq Tokens /\ canceller[k].mark \subseteq Tokens
        /\ canceller[k].waits \subseteq Cells \X Nat
  BY DEF TypeOK, CancelRec
<1>3. \A w \in Cells \X Nat : w = <<w[1], w[2]>> /\ w[1] \in Cells /\ w[2] \in Nat
  OBVIOUS
<1>4. \A c \in Cells : owner[c] \subseteq Executions /\ gen[c] \in Nat
  BY DEF TypeOK
<1>. QED
  BY <1>1, <1>2, <1>3, <1>4

\* The record a task starts from, and the one it leaves behind.
LEMMA ResetType ==
  ASSUME CancelTaskAssumption, NEW t \in 0..NoTask, NEW e \in Executions, NEW o \in Nat
  PROVE  /\ reset(t, e) \in TaskRec
         /\ [reset(t, e) EXCEPT !.pc = "none"] \in TaskRec
         /\ [reset(t, e) EXCEPT !.pc = "none", !.observed = o] \in TaskRec
<1>1. reset(t, e) \in TaskRec
  BY DEF reset, TaskRec, Places, Cells
<1>. QED
  BY <1>1 DEF TaskRec, Places

-----------------------------------------------------------------------------
(* The initial state. *)

\* Nothing is cancelled, claimed or in hand before the first task starts.
LEMMA InitInv ==
  ASSUME CancelTaskAssumption, Init
  PROVE  Inv
<1>. USE DEF CancelTaskAssumption, Init, Tokens, NoTask, Root, Cells, reset, Idle
<1>1. TypeOK
  <2>1. \A e \in Executions : [reset(NoTask, e) EXCEPT !.pc = "none"] \in TaskRec
    <3>1. NoTask \in 0..NoTask
      OBVIOUS
    <3>. QED
      BY <3>1, ResetType, Zenon
  <2>2. Idle \in CancelRec
    BY DEF CancelRec
  <2>3. NoWait \in Slot /\ NoFallback \in [cell : Cells \cup {"none"}, gen : Nat]
    BY DEF Slot, NoWait, NoFallback
  <2>. QED
    BY <2>1, <2>2, <2>3 DEF TypeOK
<1>2. TaskShape
  BY DEF TaskShape
<1>3. CancelShape
  BY DEF CancelShape
<1>4. CellOwned
  BY DEF CellOwned
<1>5. SlotShape
  BY DEF SlotShape, InSlot, NoWait
<1>6. HandsClean
  BY DEF HandsClean
<1>7. Reached
  BY DEF Reached
<1>8. EpochSeen
  BY DEF EpochSeen
<1>. QED
  BY <1>1, <1>2, <1>3, <1>4, <1>5, <1>6, <1>7, <1>8 DEF Inv

-----------------------------------------------------------------------------
(* A task and its checkpoints. *)

\* A new task has a fresh token, and has observed no epoch.
LEMMA StartInv ==
  ASSUME CancelTaskAssumption, Inv, NEW e \in Executions, Start(e)
  PROVE  Inv'
<1>. DEFINE t == started + 1
<1>0. /\ TypeOK /\ TaskShape /\ CancelShape /\ CellOwned
      /\ SlotShape /\ HandsClean /\ Reached /\ EpochSeen
  BY DEF Inv
<1>1. /\ t \in 1..MaxTokens /\ MaxTokens \in Nat /\ started' = t /\ started \in Nat
      /\ t \in Tokens /\ t # NoTask
      /\ flag' = [flag EXCEPT ![t] = flag[Root]]
      /\ task[e].pc = "none" /\ lock = {}
      /\ task' = [task EXCEPT ![e] = reset(t, e)]
      /\ UNCHANGED <<lock, epoch, canceller, calls, active, primary, fallback, fepoch,
                     gen, owner, winner, waits>>
  BY <1>0 DEF Start, TypeOK, CancelTaskAssumption, reuse, slots, cells, Tokens, NoTask
<1>2. /\ task'[e].token = t /\ task'[e].pc = "run" /\ task'[e].cell = e
      /\ task'[e].observed = 0 /\ task'[e].cancelled = FALSE
      /\ \A f \in Executions : f # e => task'[f] = task[f]
  BY <1>0, <1>1 DEF TypeOK, reset
<1>3. \A n \in 0..started : n \in Tokens /\ n # t /\ flag'[n] = flag[n]
  BY <1>0, <1>1 DEF TypeOK, Tokens
<1>4. \A f \in Executions : f # e /\ task[f].pc # "none" => flag'[task[f].token] = flag[task[f].token]
  BY <1>0, <1>1, <1>3 DEF TaskShape
<1>5. TypeOK'
  <2>1. reset(t, e) \in TaskRec
    BY <1>1 DEF reset, TaskRec, Places, Cells, NoTask
  <2>2. flag' \in [Tokens -> BOOLEAN]
    BY <1>0, <1>1 DEF TypeOK, Tokens, Root
  <2>. QED
    BY <1>0, <1>1, <2>1, <2>2 DEF TypeOK
<1>6. TaskShape'
  BY <1>0, <1>1, <1>2 DEF TaskShape
<1>7. CancelShape'
  <2>1. \A k \in Cancellers : canceller[k].read \subseteq Tokens /\ canceller[k].mark \subseteq Tokens
    BY <1>0, Fields
  <2>. QED
    BY <1>0, <1>1, <1>3, <2>1 DEF CancelShape, Tokens
<1>8. CellOwned'
  BY <1>0, <1>1, <1>2 DEF CellOwned
<1>9. SlotShape'
  BY <1>0, <1>1, <1>2 DEF SlotShape, InSlot, Registered, ClaimedGen
<1>10. HandsClean'
  <2>1. \A c \in Cells : \A f \in owner[c] : f \in Executions /\ f # e /\ task[f].pc # "none"
    BY <1>0, <1>1 DEF TypeOK, CellOwned
  <2>2. \A k \in Cancellers : \A w \in canceller[k].waits : w[1] \in Cells
    BY <1>0, Fields
  <2>. QED
    BY <1>0, <1>1, <1>2, <1>4, <2>1, <2>2 DEF HandsClean
<1>11. Reached'
  BY <1>0, <1>1, <1>2, <1>4 DEF Reached, WillSelect, Cancelled
<1>12. EpochSeen'
  BY <1>0, <1>1, <1>2, <1>4 DEF EpochSeen, Cancelled, TypeOK
<1>. QED
  BY <1>5, <1>6, <1>7, <1>8, <1>9, <1>10, <1>11, <1>12 DEF Inv

\* A task that completes holds no slot.
LEMMA CompleteInv ==
  ASSUME CancelTaskAssumption, Inv, NEW e \in Executions, Complete(e)
  PROVE  Inv'
<1>0. /\ TypeOK /\ TaskShape /\ CancelShape /\ CellOwned
      /\ SlotShape /\ HandsClean /\ Reached /\ EpochSeen
  BY DEF Inv
<1>1. /\ task[e].pc = "run" /\ MaxTokens \in Nat
      /\ task' = [task EXCEPT ![e] = [reset(NoTask, e) EXCEPT !.pc = "none", !.observed = task[e].observed]]
      /\ primary' = [primary EXCEPT ![task[e].token] = "none"]
      /\ UNCHANGED <<started, flag, lock, epoch, canceller, calls, active, fallback, fepoch,
                     gen, owner, winner, waits>>
  BY DEF Complete, domain, cells, CancelTaskAssumption
<1>2. /\ task'[e].token = NoTask /\ task'[e].pc = "none" /\ task'[e].cell = e
      /\ task'[e].observed = task[e].observed
      /\ \A f \in Executions : f # e => task'[f] = task[f]
  BY <1>0, <1>1 DEF TypeOK, reset
<1>3. \A f \in Executions : f # e /\ task[f].pc # "none" =>
        task[f].token \in Tokens /\ primary'[task[f].token] = primary[task[f].token]
  BY <1>0, <1>1 DEF TaskShape, TypeOK, Tokens
<1>5. TypeOK'
  <2>1. [reset(NoTask, e) EXCEPT !.pc = "none", !.observed = task[e].observed] \in TaskRec
    <3>1. NoTask \in 0..NoTask /\ task[e].observed \in Nat
      BY <1>0, <1>1, Fields DEF NoTask
    <3>. QED
      BY <3>1, ResetType, Zenon
  <2>. QED
    BY <1>0, <1>1, <2>1 DEF TypeOK
<1>6. TaskShape'
  BY <1>0, <1>1, <1>2 DEF TaskShape, NoTask, TypeOK
<1>7. CancelShape'
  BY <1>0, <1>1 DEF CancelShape
<1>8. CellOwned'
  BY <1>0, <1>1, <1>2 DEF CellOwned
<1>9. SlotShape'
  <2>1. \A f \in Executions : task'[f].pc \in InSlot => f # e /\ task[f].pc \in InSlot
    BY <1>1, <1>2 DEF InSlot
  <2>2. \A f \in Executions : task'[f].pc \in InSlot => Registered(f)'
    BY <1>0, <1>1, <1>2, <1>3, <2>1 DEF SlotShape, Registered, ClaimedGen, InSlot
  <2>. QED
    BY <1>0, <1>1, <1>2, <2>2 DEF SlotShape, InSlot
<1>10. HandsClean'
  <2>1. \A c \in Cells : \A f \in owner[c] : f \in Executions /\ f # e
    BY <1>0, <1>1 DEF TypeOK, CellOwned
  <2>2. \A k \in Cancellers : \A w \in canceller[k].waits : w[1] \in Cells
    BY <1>0, Fields
  <2>. QED
    BY <1>0, <1>1, <1>2, <2>1, <2>2 DEF HandsClean
<1>11. Reached'
  BY <1>0, <1>1, <1>2 DEF Reached, WillSelect, Cancelled
<1>12. EpochSeen'
  BY <1>0, <1>1, <1>2 DEF EpochSeen, Cancelled
<1>. QED
  BY <1>5, <1>6, <1>7, <1>8, <1>9, <1>10, <1>11, <1>12 DEF Inv

\* A step of e that changes only what it has observed, or whether it knows it
\* is cancelled, outside every wait.
CheckStep(e) ==
  /\ task[e].pc \in {"run", "check"} /\ task'[e].pc \in {"run", "check"}
  /\ task'[e].token = task[e].token /\ task'[e].cell = task[e].cell
  /\ \A f \in Executions : f # e => task'[f] = task[f]
  /\ UNCHANGED <<domain, slots, cells>>

\* A checkpoint disturbs no wait.
LEMMA CheckFrame ==
  ASSUME CancelTaskAssumption, Inv, NEW e \in Executions, CheckStep(e)
  PROVE  TaskShape' /\ CancelShape' /\ CellOwned' /\ SlotShape' /\ HandsClean' /\ Reached'
<1>. USE DEF CheckStep, domain, slots, cells
<1>0. /\ TypeOK /\ TaskShape /\ CancelShape /\ CellOwned
      /\ SlotShape /\ HandsClean /\ Reached
  BY DEF Inv
<1>1. TaskShape'
  BY <1>0 DEF TaskShape
<1>2. CancelShape'
  BY <1>0 DEF CancelShape
<1>3. CellOwned'
  <2>1. \A c \in Cells : owner[c] \subseteq Executions
    BY <1>0 DEF TypeOK
  <2>. QED
    BY <1>0, <2>1 DEF CellOwned
<1>4. SlotShape'
  BY <1>0 DEF SlotShape, InSlot, Registered, ClaimedGen
<1>5. HandsClean'
  <2>1. \A f \in Executions : task'[f].token = task[f].token
    OBVIOUS
  <2>2. \A c \in Cells : owner[c] \subseteq Executions
    BY <1>0 DEF TypeOK
  <2>3. \A k \in Cancellers : \A w \in canceller[k].waits : w[1] \in Cells
    BY <1>0, Fields
  <2>. QED
    BY <1>0, <2>1, <2>2, <2>3 DEF HandsClean
<1>6. Reached'
  BY <1>0 DEF Reached, WillSelect, Cancelled
<1>. QED
  BY <1>1, <1>2, <1>3, <1>4, <1>5, <1>6

\* The epoch is observed before the flag is read.
LEMMA CheckEpochInv ==
  ASSUME CancelTaskAssumption, Inv, NEW e \in Executions, check_epoch(e)
  PROVE  Inv'
<1>0. TypeOK /\ EpochSeen
  BY DEF Inv
<1>1. /\ task[e].pc = "run" /\ UNCHANGED <<domain, slots, cells>>
      /\ task'[e] = [task[e] EXCEPT !.observed = epoch, !.pc = "check"]
      /\ \A f \in Executions : f # e => task'[f] = task[f]
      /\ task[e] \in TaskRec
  BY <1>0 DEF check_epoch, TypeOK
<1>2. CheckStep(e)
  BY <1>1 DEF CheckStep, TaskRec
<1>3. TypeOK'
  <2>1. task'[e] \in TaskRec
    BY <1>0, <1>1 DEF TypeOK, TaskRec, Places
  <2>. QED
    BY <1>0, <1>1, <2>1 DEF check_epoch, TypeOK, domain, slots, cells
<1>4. EpochSeen'
  <2>1. /\ task'[e].observed = epoch /\ task'[e].pc = "check" /\ epoch \in Nat
        /\ task'[e].token = task[e].token
        /\ epoch' = epoch /\ flag' = flag /\ lock' = lock
        /\ \A f \in Executions : f # e => task'[f] = task[f]
    BY <1>0, <1>1 DEF TypeOK, TaskRec, domain
  <2>. QED
    BY <1>0, <2>1 DEF EpochSeen, Cancelled
<1>. QED
  BY <1>2, <1>3, <1>4, CheckFrame DEF Inv

\* A flag read after the epoch covers every cancel of that epoch.
LEMMA CheckFlagInv ==
  ASSUME CancelTaskAssumption, Inv, NEW e \in Executions, check_flag(e)
  PROVE  Inv'
<1>0. TypeOK /\ EpochSeen /\ TaskShape
  BY DEF Inv
<1>1. /\ task'[e] = [task[e] EXCEPT !.cancelled = Cancelled(e), !.pc = "run"]
      /\ \A f \in Executions : f # e => task'[f] = task[f]
      /\ task[e] \in TaskRec
      /\ task[e].pc = "check"
      /\ UNCHANGED <<domain, slots, cells>>
  BY <1>0 DEF check_flag, TypeOK
<1>2. CheckStep(e)
  BY <1>1 DEF CheckStep, TaskRec
<1>3. Cancelled(e) \in BOOLEAN
  BY <1>0, <1>1 DEF Cancelled, TypeOK, TaskShape, Tokens, CancelTaskAssumption
<1>4. TypeOK'
  <2>1. task'[e] \in TaskRec
    BY <1>1, <1>3 DEF TaskRec, Places
  <2>. QED
    BY <1>0, <1>1, <2>1 DEF check_flag, TypeOK, domain, slots, cells
<1>5. EpochSeen'
  <2>1. /\ task'[e].cancelled = flag[task[e].token] /\ task'[e].token = task[e].token
        /\ task'[e].observed = task[e].observed /\ flag' = flag
    BY <1>1 DEF TaskRec, Cancelled, domain
  <2>. QED
    BY <1>0, <1>1, <2>1 DEF EpochSeen, Cancelled, domain
<1>. QED
  BY <1>2, <1>4, <1>5, CheckFrame DEF Inv

-----------------------------------------------------------------------------
(* A task parks. *)

\* A step of e within a wait, or into or out of one.
ParkStep(e) ==
  /\ task' \in [Executions -> TaskRec]
  /\ task[e].pc \notin {"none", "check"} /\ task'[e].pc \notin {"none", "check"}
  /\ task'[e].token = task[e].token /\ task'[e].cell \in Parkers \cup {e}
  /\ task'[e].observed = task[e].observed /\ task'[e].cancelled = task[e].cancelled
  /\ \A f \in Executions : f # e => task'[f] = task[f]
  /\ UNCHANGED domain

\* A wait of one task changes nothing that tokens and epochs depend on.
LEMMA ParkFrame ==
  ASSUME CancelTaskAssumption, Inv, NEW e \in Executions, ParkStep(e)
  PROVE  TaskShape' /\ CancelShape' /\ EpochSeen'
<1>. USE DEF ParkStep, domain
<1>1. TaskShape'
  BY DEF Inv, TaskShape
<1>2. CancelShape'
  BY DEF Inv, CancelShape
<1>3. EpochSeen'
  BY DEF Inv, EpochSeen, Cancelled
<1>. QED
  BY <1>1, <1>2, <1>3

\* The token of a task in a wait is one of its own.
LEMMA OwnToken ==
  ASSUME CancelTaskAssumption, TypeOK, TaskShape, NEW e \in Executions, task[e].pc # "none"
  PROVE  /\ task[e].token \in Tokens /\ task[e].token # Root /\ task[e].token <= started
         /\ \A f \in Executions : f # e => task[f].token # task[e].token
BY DEF CancelTaskAssumption, TypeOK, TaskShape, Tokens, Root

\* A wait begins with a generation no slot and no cancel has seen.
LEMMA BeginInv ==
  ASSUME CancelTaskAssumption, Inv, NEW e \in Executions, NEW c \in Cells, begin(e, c)
  PROVE  Inv'
<1>0. /\ TypeOK /\ TaskShape /\ CellOwned /\ SlotShape /\ HandsClean /\ Reached
  BY DEF Inv
<1>1. /\ task[e].pc = "run" /\ owner[c] = {} /\ waits' = waits + 1
      /\ gen' = [gen EXCEPT ![c] = gen[c] + 1] /\ owner' = [owner EXCEPT ![c] = {e}]
      /\ winner' = [winner EXCEPT ![c] = "none"] /\ c \in Parkers \cup {e}
      /\ UNCHANGED <<started, flag, lock, epoch, canceller, calls, active, primary, fallback, fepoch>>
  BY <1>0 DEF begin, domain, slots
<1>2. /\ task' = [task EXCEPT ![e] = [task[e] EXCEPT !.cell = c, !.pc = "claim"]]
      /\ task[e] \in TaskRec
      /\ [task[e] EXCEPT !.cell = c, !.pc = "claim"] \in TaskRec
  <2>1. task[e] \in TaskRec
    BY <1>0, Fields
  <2>2. [task[e] EXCEPT !.cell = c, !.pc = "claim"] \in TaskRec
    BY <2>1 DEF TaskRec, Places
  <2>3. task' = [task EXCEPT ![e] = [task[e] EXCEPT !.cell = c, !.pc = "claim"]]
    BY <1>0 DEF begin, TypeOK
  <2>. QED
    BY <2>1, <2>2, <2>3
<1>3. /\ task'[e].token = task[e].token /\ task'[e].cell = c /\ task'[e].pc = "claim"
      /\ task'[e].observed = task[e].observed /\ task'[e].cancelled = task[e].cancelled
      /\ task' \in [Executions -> TaskRec]
      /\ \A f \in Executions : f # e => task'[f] = task[f]
  BY <1>0, <1>2 DEF TypeOK, TaskRec
<1>4. ParkStep(e)
  BY <1>1, <1>3 DEF ParkStep, domain
<1>5. TypeOK'
  BY <1>0, <1>1, <1>3 DEF TypeOK
<1>6. /\ gen'[c] = gen[c] + 1 /\ owner'[c] = {e} /\ winner'[c] = "none" /\ gen[c] \in Nat
      /\ \A d \in Cells : d # c =>
           gen'[d] = gen[d] /\ owner'[d] = owner[d] /\ winner'[d] = winner[d]
      /\ \A d \in Cells : owner[d] \subseteq Executions
  BY <1>0, <1>1 DEF TypeOK
<1>7. \A f \in Executions : task[f].pc \in {"claim", "recheck", "park"} => f # e /\ task[f].cell # c
  BY <1>0, <1>1 DEF CellOwned
<1>8. CellOwned'
  <2>1. \A f \in Executions : task[f].cell \in Cells
    BY <1>0, Fields
  <2>2. \A f \in Executions :
          task'[f].pc \in {"claim", "recheck", "park"} => owner'[task'[f].cell] = {f}
    BY <1>0, <1>3, <1>6, <1>7, <2>1 DEF CellOwned
  <2>3. \A d \in Cells : \A f \in owner'[d] :
          /\ owner'[d] = {f} /\ task'[f].cell = d
          /\ task'[f].pc \in {"claim", "recheck", "park"}
    BY <1>0, <1>3, <1>6, <1>7 DEF CellOwned
  <2>. QED
    BY <2>2, <2>3 DEF CellOwned
<1>9. SlotShape'
  <2>1. ASSUME NEW f \in Executions, task'[f].pc \in InSlot
        PROVE  Registered(f)'
    <3>1. f # e /\ task[f].pc \in InSlot /\ Registered(f)
      BY <1>0, <1>3, <2>1 DEF InSlot, SlotShape
    <3>2. /\ ClaimedGen(task[f].token) \in Nat /\ ClaimedGen(task[f].token)' = ClaimedGen(task[f].token)
          /\ task[f].cell \in Cells /\ gen[task[f].cell] \in Nat
      <4>1. task[f].token \in Tokens /\ task[f].cell \in Cells /\ gen[task[f].cell] \in Nat
        BY <1>0, <3>1, OwnToken, Fields DEF InSlot
      <4>. QED
        BY <1>0, <1>1, <1>3, <3>1, <4>1 DEF ClaimedGen, TypeOK, Slot
    <3>3. CASE task[f].cell = c
      BY <1>1, <1>3, <1>6, <1>7, <3>1, <3>2, <3>3 DEF Registered, InSlot
    <3>4. CASE task[f].cell # c
      BY <1>1, <1>3, <1>6, <3>1, <3>2, <3>4 DEF Registered
    <3>. QED
      BY <3>3, <3>4
  <2>. QED
    BY <1>0, <1>1, <1>3, <2>1 DEF SlotShape, InSlot
<1>10. HandsClean'
  <2>1. ASSUME NEW k \in Cancellers, NEW w \in canceller[k].waits
        PROVE  /\ w[2] <= gen'[w[1]]
               /\ \A f \in owner'[w[1]] : gen'[w[1]] = w[2] => flag'[task'[f].token]
    <3>1. w[1] \in Cells /\ w[2] \in Nat /\ w[2] <= gen[w[1]] /\ gen[w[1]] \in Nat
      BY <1>0, Fields DEF HandsClean
    <3>2. CASE w[1] = c
      BY <1>6, <3>1, <3>2
    <3>3. CASE w[1] # c
      BY <1>0, <1>1, <1>3, <1>6, <3>1, <3>3 DEF HandsClean
    <3>. QED
      BY <3>2, <3>3
  <2>2. \A d \in Cells : \A f \in owner'[d] : winner'[d] = "cancelled" => flag'[task'[f].token]
    BY <1>0, <1>1, <1>3, <1>6 DEF HandsClean
  <2>. QED
    BY <1>1, <2>1, <2>2 DEF HandsClean
<1>11. Reached'
  <2>1. \A f \in Executions : task'[f].pc = "park" =>
          /\ task'[f] = task[f] /\ task[f].cell \in Cells
          /\ gen'[task[f].cell] = gen[task[f].cell] /\ winner'[task[f].cell] = winner[task[f].cell]
    BY <1>0, <1>3, <1>6, <1>7, Fields
  <2>. QED
    BY <1>0, <1>1, <2>1 DEF Reached, WillSelect, Cancelled
<1>. QED
  BY <1>4, <1>5, <1>8, <1>9, <1>10, <1>11, ParkFrame DEF Inv

\* Claiming a slot records the cell and its generation, of that token alone.
LEMMA RegisterInv ==
  ASSUME CancelTaskAssumption, Inv, NEW e \in Executions, register(e)
  PROVE  Inv'
<1>. DEFINE t == task[e].token
            c == task[e].cell
<1>0. /\ TypeOK /\ TaskShape /\ CellOwned /\ SlotShape /\ HandsClean /\ Reached
  BY DEF Inv
<1>1. /\ task[e].pc = "claim"
      /\ UNCHANGED <<started, flag, lock, epoch, canceller, calls, gen, owner, winner, waits>>
  BY DEF register, domain, cells
<1>2. /\ task' = [task EXCEPT ![e] = [task[e] EXCEPT !.pc = "recheck"]]
      /\ task[e] \in TaskRec
      /\ [task[e] EXCEPT !.pc = "recheck"] \in TaskRec
  BY <1>0, Fields DEF register, TaskRec, Places
<1>3. /\ task'[e].token = t /\ task'[e].cell = c /\ task'[e].pc = "recheck"
      /\ task'[e].observed = task[e].observed /\ task'[e].cancelled = task[e].cancelled
      /\ task' \in [Executions -> TaskRec]
      /\ \A f \in Executions : f # e => task'[f] = task[f]
  BY <1>0, <1>2 DEF TypeOK, TaskRec
<1>4. ParkStep(e)
  BY <1>0, <1>1, <1>3 DEF ParkStep, domain, TaskShape
<1>5. /\ t \in Tokens /\ c \in Cells /\ gen[c] \in Nat /\ c \in Parkers \cup {e}
      /\ \A f \in Executions : f # e => task[f].token # t
  BY <1>0, <1>1, OwnToken, Fields DEF TaskShape
<1>6. /\ active' \in [Tokens -> Slot] /\ primary' \in [Tokens -> Parkers \cup {"none"}]
      /\ fallback' \in [Tokens -> [cell : Cells \cup {"none"}, gen : Nat]] /\ fepoch' \in Nat
      /\ \A n \in Tokens : n # t =>
           active'[n] = active[n] /\ primary'[n] = primary[n] /\ fallback'[n] = fallback[n]
      /\ Registered(e)'
  <2>. USE <1>0, <1>1, <1>3, <1>5
  <2>1. CASE c = e /\ active' = [active EXCEPT ![t] = [kind |-> "resident", gen |-> gen[c]]]
             /\ UNCHANGED <<primary, fallback, fepoch>>
    BY <2>1 DEF TypeOK, Slot, Registered, ClaimedGen
  <2>2. CASE c # e /\ primary' = [primary EXCEPT ![t] = c]
             /\ active' = [active EXCEPT ![t] = [kind |-> "primary", gen |-> gen[c]]]
             /\ UNCHANGED <<fallback, fepoch>>
    BY <2>2 DEF TypeOK, Slot, Registered, ClaimedGen
  <2>3. CASE c # e /\ fepoch' = fepoch + 1
             /\ fallback' = [fallback EXCEPT ![t] = [cell |-> c, gen |-> gen[c]]]
             /\ active' = [active EXCEPT ![t] = [kind |-> "fallback", gen |-> fepoch + 1]]
             /\ UNCHANGED primary
    BY <2>3 DEF TypeOK, Slot, Registered, ClaimedGen
  <2>. QED
    BY <2>1, <2>2, <2>3 DEF register
<1>7. TypeOK'
  BY <1>0, <1>1, <1>3, <1>6 DEF TypeOK
<1>8. CellOwned'
  BY <1>0, <1>1, <1>3, <1>5, Fields DEF CellOwned
<1>9. SlotShape'
  <2>1. ASSUME NEW f \in Executions, task'[f].pc \in InSlot, f # e
        PROVE  Registered(f)'
    <3>1. /\ task[f].pc \in InSlot /\ Registered(f) /\ task'[f] = task[f]
          /\ task[f].token \in Tokens /\ task[f].token # t
      BY <1>0, <1>3, <1>5, <2>1, OwnToken DEF InSlot, SlotShape
    <3>. QED
      BY <1>1, <1>6, <3>1 DEF Registered, ClaimedGen
  <2>2. \A n \in Tokens : active'[n].kind # "none" =>
          \E f \in Executions : task'[f].token = n /\ task'[f].pc \in InSlot
    BY <1>0, <1>1, <1>3, <1>6 DEF SlotShape, InSlot
  <2>. QED
    BY <1>6, <2>1, <2>2 DEF SlotShape
<1>10. HandsClean'
  BY <1>0, <1>1, <1>3, Fields DEF HandsClean
<1>11. Reached'
  BY <1>0, <1>1, <1>3, <1>5, <1>6, OwnToken DEF Reached, WillSelect, Cancelled
<1>. QED
  BY <1>4, <1>7, <1>8, <1>9, <1>10, <1>11, ParkFrame DEF Inv

\* A step of a wait that changes only the place of its task.
PlaceStep(e, q) ==
  /\ task' = [task EXCEPT ![e] = [task[e] EXCEPT !.pc = q]]
  /\ task'[e].token = task[e].token /\ task'[e].cell = task[e].cell /\ task'[e].pc = q
  /\ \A f \in Executions : f # e => task'[f] = task[f]
  /\ task' \in [Executions -> TaskRec]

\* What such a step leaves alone.
LEMMA PlaceFrame ==
  ASSUME CancelTaskAssumption, Inv, NEW e \in Executions, NEW q \in Places \ {"none", "check"},
         task[e].pc \notin {"none", "check"}, UNCHANGED domain,
         task' = [task EXCEPT ![e].pc = q]
  PROVE  PlaceStep(e, q) /\ ParkStep(e)
<1>1. task \in [Executions -> TaskRec] /\ task[e] \in TaskRec /\ task[e].cell \in Parkers \cup {e}
  BY Fields DEF Inv, TypeOK, TaskShape
<1>2. [task[e] EXCEPT !.pc = q] \in TaskRec
  BY <1>1 DEF TaskRec
<1>3. /\ task' = [task EXCEPT ![e] = [task[e] EXCEPT !.pc = q]]
      /\ task'[e] = [task[e] EXCEPT !.pc = q]
      /\ \A f \in Executions : f # e => task'[f] = task[f]
      /\ task' \in [Executions -> TaskRec]
  BY <1>1, <1>2
<1>4. /\ task'[e].token = task[e].token /\ task'[e].cell = task[e].cell /\ task'[e].pc = q
      /\ task'[e].observed = task[e].observed /\ task'[e].cancelled = task[e].cancelled
  BY <1>1, <1>3 DEF TaskRec
<1>. QED
  BY <1>1, <1>3, <1>4 DEF PlaceStep, ParkStep

\* Two tasks in a wait use two cells.
LEMMA OwnCell ==
  ASSUME CellOwned, NEW e \in Executions, task[e].pc \in {"claim", "recheck", "park"}
  PROVE  \A f \in Executions :
           f # e /\ task[f].pc \in {"claim", "recheck", "park"} => task[f].cell # task[e].cell
BY DEF CellOwned

\* The flag read after the slot is claimed selects the wait if it is set.
LEMMA RecheckInv ==
  ASSUME CancelTaskAssumption, Inv, NEW e \in Executions, recheck(e)
  PROVE  Inv'
<1>. DEFINE c == task[e].cell
<1>0. /\ TypeOK /\ TaskShape /\ CellOwned /\ SlotShape /\ HandsClean /\ Reached
  BY DEF Inv
<1>1. /\ task[e].pc = "recheck"
      /\ winner' = IF Cancelled(e) THEN Selected(c, gen[c]) ELSE winner
      /\ UNCHANGED <<started, flag, lock, epoch, canceller, calls, gen, owner, waits,
                     active, primary, fallback, fepoch>>
  BY DEF recheck, domain, slots
<1>2. PlaceStep(e, "park") /\ ParkStep(e)
  BY <1>1, PlaceFrame DEF recheck, Places
<1>3. /\ c \in Cells /\ owner[c] = {e} /\ \A d \in Cells : owner[d] \subseteq Executions
      /\ \A f \in Executions : task[f].cell \in Cells
  BY <1>0, <1>1, Fields DEF CellOwned
<1>4. /\ winner' \in [Cells -> {"none", "cancelled"}]
      /\ \A d \in Cells : d # c => winner'[d] = winner[d]
      /\ Cancelled(e) => winner'[c] = "cancelled"
      /\ ~Cancelled(e) => winner' = winner
  BY <1>0, <1>1, <1>3 DEF Selected, TypeOK
<1>5. TypeOK'
  BY <1>0, <1>1, <1>2, <1>4 DEF TypeOK, PlaceStep
<1>6. CellOwned'
  <2>1. \A f \in Executions :
          task'[f].pc \in {"claim", "recheck", "park"} => owner'[task'[f].cell] = {f}
    BY <1>0, <1>1, <1>2 DEF CellOwned, PlaceStep
  <2>2. \A d \in Cells : \A f \in owner'[d] :
          /\ owner'[d] = {f} /\ task'[f].cell = d
          /\ task'[f].pc \in {"claim", "recheck", "park"}
    BY <1>0, <1>1, <1>2, <1>3 DEF CellOwned, PlaceStep
  <2>. QED
    BY <2>1, <2>2 DEF CellOwned
<1>7. SlotShape'
  BY <1>0, <1>1, <1>2 DEF SlotShape, InSlot, Registered, ClaimedGen, PlaceStep
<1>8. HandsClean'
  <2>1. \A f \in Executions : task'[f].token = task[f].token
    BY <1>2 DEF PlaceStep
  <2>2. ASSUME NEW k \in Cancellers, NEW w \in canceller[k].waits
        PROVE  /\ w[2] <= gen[w[1]]
               /\ \A f \in owner[w[1]] : gen[w[1]] = w[2] => flag[task'[f].token]
    BY <1>0, <1>3, <2>1, Fields DEF HandsClean
  <2>3. ASSUME NEW d \in Cells, NEW f \in owner[d], winner'[d] = "cancelled"
        PROVE  flag[task'[f].token]
    <3>1. CASE d = c
      BY <1>0, <1>3, <1>4, <2>1, <2>3, <3>1 DEF HandsClean, Cancelled
    <3>2. CASE d # c
      BY <1>0, <1>3, <1>4, <2>1, <2>3, <3>2 DEF HandsClean
    <3>. QED
      BY <3>1, <3>2
  <2>. QED
    BY <1>1, <2>2, <2>3 DEF HandsClean
<1>9. Reached'
  <2>1. \A f \in Executions : task'[f].pc = "park" /\ f # e =>
          task'[f] = task[f] /\ winner'[task[f].cell] = winner[task[f].cell]
    BY <1>0, <1>1, <1>2, <1>3, <1>4, OwnCell DEF PlaceStep
  <2>2. Cancelled(e)' => winner'[task'[e].cell] # "none"
    BY <1>1, <1>2, <1>4 DEF PlaceStep, Cancelled
  <2>. QED
    BY <1>0, <1>1, <2>1, <2>2 DEF Reached, WillSelect, Cancelled
<1>. QED
  BY <1>2, <1>5, <1>6, <1>7, <1>8, <1>9, ParkFrame DEF Inv

\* A wait that finishes gives up its cell and keeps its slot.
LEMMA FinishInv ==
  ASSUME CancelTaskAssumption, Inv, NEW e \in Executions, finish(e)
  PROVE  Inv'
<1>. DEFINE c == task[e].cell
<1>0. /\ TypeOK /\ TaskShape /\ CellOwned /\ SlotShape /\ HandsClean /\ Reached
  BY DEF Inv
<1>1. /\ task[e].pc = "park"
      /\ owner' = [owner EXCEPT ![c] = {}] /\ winner' = [winner EXCEPT ![c] = "none"]
      /\ UNCHANGED <<started, flag, lock, epoch, canceller, calls, gen, waits,
                     active, primary, fallback, fepoch>>
  BY DEF finish, domain, slots
<1>2. PlaceStep(e, "leave") /\ ParkStep(e)
  BY <1>1, PlaceFrame DEF finish, Places
<1>3. /\ c \in Cells /\ owner[c] = {e} /\ \A d \in Cells : owner[d] \subseteq Executions
      /\ \A f \in Executions : task[f].cell \in Cells
  BY <1>0, <1>1, Fields DEF CellOwned
<1>4. /\ owner'[c] = {} /\ winner'[c] = "none"
      /\ \A d \in Cells : d # c => owner'[d] = owner[d] /\ winner'[d] = winner[d]
  BY <1>0, <1>1, <1>3 DEF TypeOK
<1>5. TypeOK'
  BY <1>0, <1>1, <1>2 DEF TypeOK, PlaceStep
<1>6. CellOwned'
  <2>0. \A f \in Executions :
          task'[f].pc \in {"claim", "recheck", "park"} => f # e /\ task'[f] = task[f] /\ task[f].cell # c
    BY <1>0, <1>1, <1>2, OwnCell DEF PlaceStep
  <2>1. \A f \in Executions :
          task'[f].pc \in {"claim", "recheck", "park"} => owner'[task'[f].cell] = {f}
    BY <1>0, <1>3, <1>4, <2>0 DEF CellOwned
  <2>2. \A d \in Cells : \A f \in owner'[d] :
          /\ owner'[d] = {f} /\ task'[f].cell = d
          /\ task'[f].pc \in {"claim", "recheck", "park"}
    BY <1>0, <1>1, <1>2, <1>3, <1>4 DEF CellOwned, PlaceStep
  <2>. QED
    BY <2>1, <2>2 DEF CellOwned
<1>7. SlotShape'
  <2>1. \A f \in Executions : task'[f].pc \in InSlot => Registered(f)'
    BY <1>0, <1>1, <1>2, <1>3, <1>4 DEF SlotShape, InSlot, Registered, ClaimedGen, PlaceStep
  <2>. QED
    BY <1>0, <1>1, <1>2, <2>1 DEF SlotShape, InSlot, PlaceStep
<1>8. HandsClean'
  <2>1. \A f \in Executions : task'[f].token = task[f].token
    BY <1>2 DEF PlaceStep
  <2>2. \A d \in Cells : owner'[d] \subseteq owner[d]
    BY <1>4
  <2>3. ASSUME NEW k \in Cancellers, NEW w \in canceller[k].waits
        PROVE  /\ w[2] <= gen[w[1]]
               /\ \A f \in owner'[w[1]] : gen[w[1]] = w[2] => flag[task'[f].token]
    BY <1>0, <1>3, <2>1, <2>2, Fields DEF HandsClean
  <2>. QED
    BY <1>0, <1>1, <1>3, <1>4, <2>1, <2>2, <2>3 DEF HandsClean
<1>9. Reached'
  <2>1. \A f \in Executions : task'[f].pc = "park" =>
          task'[f] = task[f] /\ winner'[task[f].cell] = winner[task[f].cell]
    BY <1>0, <1>1, <1>2, <1>3, <1>4, OwnCell DEF PlaceStep
  <2>. QED
    BY <1>0, <1>1, <2>1 DEF Reached, WillSelect, Cancelled
<1>. QED
  BY <1>2, <1>5, <1>6, <1>7, <1>8, <1>9, ParkFrame DEF Inv

\* Dropping the subscription empties the slot of that token alone.
LEMMA UnregisterInv ==
  ASSUME CancelTaskAssumption, Inv, NEW e \in Executions, unregister_wait(e)
  PROVE  Inv'
<1>. DEFINE t == task[e].token
<1>0. /\ TypeOK /\ TaskShape /\ CellOwned /\ SlotShape /\ HandsClean /\ Reached
  BY DEF Inv
<1>1. /\ task[e].pc = "leave"
      /\ active' = [active EXCEPT ![t] = NoWait]
      /\ fallback' = IF active[t].kind = "fallback" THEN [fallback EXCEPT ![t] = NoFallback] ELSE fallback
      /\ UNCHANGED <<started, flag, lock, epoch, canceller, calls, gen, owner, winner, waits,
                     primary, fepoch>>
  BY DEF unregister_wait, domain, cells
<1>2. PlaceStep(e, "run") /\ ParkStep(e)
  BY <1>1, PlaceFrame DEF unregister_wait, Places
<1>3. /\ t \in Tokens /\ \A f \in Executions : f # e => task[f].token # t
  BY <1>0, <1>1, OwnToken
<1>4. /\ active' \in [Tokens -> Slot] /\ active'[t].kind = "none"
      /\ fallback' \in [Tokens -> [cell : Cells \cup {"none"}, gen : Nat]]
      /\ \A n \in Tokens : n # t => active'[n] = active[n] /\ fallback'[n] = fallback[n]
  BY <1>0, <1>1, <1>3 DEF TypeOK, Slot, NoWait, NoFallback
<1>5. TypeOK'
  BY <1>0, <1>1, <1>2, <1>4 DEF TypeOK, PlaceStep
<1>6. CellOwned'
  <2>1. \A d \in Cells : owner[d] \subseteq Executions
    BY <1>0, Fields
  <2>. QED
    BY <1>0, <1>1, <1>2, <2>1 DEF CellOwned, PlaceStep
<1>7. SlotShape'
  <2>1. ASSUME NEW f \in Executions, task'[f].pc \in InSlot
        PROVE  Registered(f)'
    <3>1. /\ task[f].pc \in InSlot /\ Registered(f) /\ task'[f] = task[f]
          /\ task[f].token \in Tokens /\ task[f].token # t
      BY <1>0, <1>2, <1>3, <2>1, OwnToken DEF InSlot, SlotShape, PlaceStep
    <3>. QED
      BY <1>1, <1>4, <3>1 DEF Registered, ClaimedGen
  <2>2. \A n \in Tokens : active'[n].kind # "none" =>
          \E f \in Executions : task'[f].token = n /\ task'[f].pc \in InSlot
    BY <1>0, <1>2, <1>4 DEF SlotShape, PlaceStep
  <2>. QED
    BY <2>1, <2>2 DEF SlotShape
<1>8. HandsClean'
  <2>1. \A f \in Executions : task'[f].token = task[f].token
    BY <1>2 DEF PlaceStep
  <2>. QED
    BY <1>0, <1>1, <2>1, Fields DEF HandsClean
<1>9. Reached'
  <2>1. \A f \in Executions : task'[f].pc = "park" =>
          /\ task'[f] = task[f] /\ active'[task[f].token] = active[task[f].token]
    BY <1>0, <1>2, <1>3, <1>4, OwnToken DEF PlaceStep
  <2>. QED
    BY <1>0, <1>1, <2>1 DEF Reached, WillSelect, Cancelled
<1>. QED
  BY <1>2, <1>5, <1>6, <1>7, <1>8, <1>9, ParkFrame DEF Inv

-----------------------------------------------------------------------------
(* cancel. *)

\* A step of a cancel moves no task and no slot, and begins no wait.
CancelStep(k) ==
  /\ UNCHANGED <<started, active, primary, fallback, fepoch, gen, owner, waits, task>>
  /\ \A j \in Cancellers : j # k => canceller'[j] = canceller[j]

\* Such a step keeps what is said of tasks, cells and slots alone.
LEMMA CancelFrame ==
  ASSUME Inv, NEW k \in Cancellers, CancelStep(k)
  PROVE  TaskShape' /\ CellOwned' /\ SlotShape'
BY DEF Inv, CancelStep, TaskShape, CellOwned, SlotShape, Registered, ClaimedGen

\* A call that takes the lock has in hand the tokens it will mark.
LEMMA CancelInv ==
  ASSUME CancelTaskAssumption, Inv, NEW k \in Cancellers, NEW t \in Tokens, cancel(k, t)
  PROVE  Inv'
<1>. DEFINE r == [Idle EXCEPT !.phase = "mark", !.mark = Reaches(t)]
<1>0. /\ TypeOK /\ TaskShape /\ CancelShape /\ CellOwned
      /\ SlotShape /\ HandsClean /\ Reached /\ EpochSeen
  BY DEF Inv
<1>1. /\ canceller[k].phase = "idle" /\ lock = {} /\ lock' = {k} /\ calls' = calls + 1
      /\ t \in Live \cup {Root} /\ canceller' = [canceller EXCEPT ![k] = r]
      /\ UNCHANGED <<started, flag, epoch, active, primary, fallback, fepoch,
                     gen, owner, winner, waits, task>>
  BY DEF cancel, slots, cells
<1>2. \A n \in Reaches(t) : n \in Tokens /\ n <= started
  <2>1. \A n \in Live \cup {Root} : n \in Tokens /\ n <= started
    <3>1. \A e \in Executions : task[e].token # NoTask =>
            task[e].token \in Tokens /\ task[e].token <= started
      BY <1>0, OwnToken DEF TaskShape
    <3>2. Root \in Tokens /\ Root <= started
      BY <1>0 DEF Root, Tokens, TypeOK, CancelTaskAssumption
    <3>. QED
      BY <3>1, <3>2 DEF Live
  <2>. QED
    BY <1>1, <2>1 DEF Reaches
<1>3. r.phase = "mark" /\ r.mark = Reaches(t) /\ r.read = {} /\ r.look = <<>> /\ r.waits = {}
  BY DEF Idle
<1>4. r \in CancelRec
  BY <1>2 DEF CancelRec, Idle
<1>. HIDE DEF r
<1>5. canceller'[k] = r /\ CancelStep(k)
  BY <1>0, <1>1 DEF TypeOK, CancelStep
<1>6. TypeOK'
  BY <1>0, <1>1, <1>4 DEF TypeOK
<1>7. CancelShape'
  <2>1. \A n \in r.mark : n <= started
    BY <1>2, <1>3
  <2>. QED
    BY <1>0, <1>1, <1>3, <1>5, <2>1 DEF CancelShape, CancelStep
<1>8. HandsClean'
  BY <1>0, <1>1, <1>3, <1>5 DEF HandsClean, CancelStep
<1>9. Reached'
  BY <1>0, <1>1, <1>5 DEF Reached, WillSelect, Cancelled, CancelStep
<1>10. EpochSeen'
  BY <1>0, <1>1 DEF EpochSeen, Cancelled
<1>. QED
  BY <1>5, <1>6, <1>7, <1>8, <1>9, <1>10, CancelFrame DEF Inv

\* Setting a flag puts the token among those whose wait will be read.
LEMMA MarkInv ==
  ASSUME CancelTaskAssumption, Inv, NEW k \in Cancellers, NEW n \in Tokens, mark(k, n)
  PROVE  Inv'
<1>. DEFINE r == [canceller[k] EXCEPT !.mark = @ \ {n}, !.read = @ \cup ({n} \ {Root})]
<1>0. /\ TypeOK /\ TaskShape /\ CancelShape /\ CellOwned
      /\ SlotShape /\ HandsClean /\ Reached /\ EpochSeen
  BY DEF Inv
<1>1. /\ canceller[k].phase = "mark" /\ n \in canceller[k].mark
      /\ flag' = [flag EXCEPT ![n] = TRUE]
      /\ UNCHANGED <<started, lock, epoch, calls, active, primary, fallback, fepoch,
                     gen, owner, winner, waits, task>>
  BY DEF mark, slots, cells
<1>2. /\ canceller[k] \in CancelRec /\ canceller[k].look = <<>> /\ canceller[k].waits = {}
      /\ lock = {k} /\ n <= started
  BY <1>0, <1>1, Fields DEF CancelShape
<1>3. canceller' = [canceller EXCEPT ![k] = r]
  BY <1>0 DEF mark, TypeOK
<1>4. /\ r.phase = "mark" /\ r.mark = canceller[k].mark \ {n} /\ r.look = <<>> /\ r.waits = {}
      /\ r.read = canceller[k].read \cup ({n} \ {Root}) /\ r \in CancelRec
  BY <1>1, <1>2 DEF CancelRec
<1>. HIDE DEF r
<1>5. canceller'[k] = r /\ CancelStep(k)
  BY <1>0, <1>1, <1>3 DEF TypeOK, CancelStep
<1>6. /\ flag'[n] /\ \A m \in Tokens : (flag[m] => flag'[m]) /\ (m # n => flag'[m] = flag[m])
      /\ flag' \in [Tokens -> BOOLEAN]
  BY <1>0, <1>1 DEF TypeOK
<1>7. TypeOK'
  BY <1>0, <1>1, <1>3, <1>4, <1>6 DEF TypeOK
<1>8. CancelShape'
  <2>1. \A j \in Cancellers : canceller[j].read \subseteq Tokens
    BY <1>0, Fields
  <2>2. \A m \in canceller'[k].read : m <= started /\ flag'[m] /\ m # Root
    BY <1>0, <1>2, <1>4, <1>5, <1>6, <2>1 DEF CancelShape
  <2>3. \A j \in Cancellers : j # k =>
          \A m \in canceller[j].read : m <= started /\ flag'[m] /\ m # Root
    BY <1>0, <1>6, <2>1 DEF CancelShape
  <2>4. /\ canceller'[k].phase = "mark" /\ canceller'[k].look = <<>> /\ canceller'[k].waits = {}
        /\ \A m \in canceller'[k].mark : m <= started
    BY <1>0, <1>4, <1>5 DEF CancelShape
  <2>. QED
    BY <1>0, <1>1, <1>2, <1>5, <2>2, <2>3, <2>4 DEF CancelShape, CancelStep
<1>9. HandsClean'
  <2>1. \A d \in Cells : \A f \in owner[d] : task[f].token \in Tokens
    <3>1. \A d \in Cells : \A f \in owner[d] : f \in Executions /\ task[f].pc # "none"
      BY <1>0, Fields DEF CellOwned
    <3>. QED
      BY <1>0, <3>1, OwnToken
  <2>2. \A j \in Cancellers : \A w \in canceller[j].waits : w[1] \in Cells
    BY <1>0, Fields
  <2>3. \A j \in Cancellers : canceller'[j].waits = canceller[j].waits
    BY <1>2, <1>4, <1>5 DEF CancelStep
  <2>4. \A j \in Cancellers : \A w \in canceller'[j].waits :
          /\ w[2] <= gen[w[1]]
          /\ \A f \in owner[w[1]] : gen[w[1]] = w[2] => flag'[task[f].token]
    BY <1>0, <1>6, <2>1, <2>2, <2>3 DEF HandsClean
  <2>5. \A d \in Cells : \A f \in owner[d] : winner[d] = "cancelled" => flag'[task[f].token]
    BY <1>0, <1>6, <2>1 DEF HandsClean
  <2>. QED
    BY <1>1, <2>4, <2>5 DEF HandsClean
<1>10. Reached'
  <2>1. SUFFICES ASSUME NEW e \in Executions, task[e].pc = "park", flag'[task[e].token],
                        winner[task[e].cell] = "none"
                 PROVE  \E j \in Cancellers : canceller'[j].phase # "idle" /\ WillSelect(j, e)'
    BY <1>1 DEF Reached, Cancelled
  <2>2. task[e].token \in Tokens /\ task[e].token # Root
    BY <1>0, <2>1, OwnToken
  <2>3. CASE task[e].token = n
    BY <1>1, <1>4, <1>5, <2>2, <2>3 DEF WillSelect
  <2>4. CASE task[e].token # n
    <3>1. PICK j \in Cancellers : canceller[j].phase # "idle" /\ WillSelect(j, e)
      BY <1>0, <1>6, <2>1, <2>2, <2>4 DEF Reached, Cancelled
    <3>2. CASE j = k
      BY <1>1, <1>2, <1>4, <1>5, <3>1, <3>2 DEF WillSelect
    <3>3. CASE j # k
      BY <1>1, <1>5, <3>1, <3>3 DEF WillSelect, CancelStep
    <3>. QED
      BY <3>2, <3>3
  <2>. QED
    BY <2>3, <2>4
<1>11. EpochSeen'
  BY <1>0, <1>1, <1>2 DEF EpochSeen, Cancelled
<1>. QED
  BY <1>5, <1>7, <1>8, <1>9, <1>10, <1>11, CancelFrame DEF Inv

\* A call that settles has neither a token to read nor a wait to select.
LEMMA SettledFacts ==
  ASSUME NEW c \in CancelRec, c.phase = "read"
  PROVE  /\ Settled(c) \in CancelRec
         /\ Settled(c).read = c.read /\ Settled(c).waits = c.waits /\ Settled(c).phase # "mark"
         /\ Settled(c).mark \subseteq c.mark
         /\ Settled(c).phase = "idle" => Settled(c) = Idle /\ c.read = {} /\ c.waits = {}
         /\ Settled(c).look = c.look \/ (Settled(c).look = <<>> /\ c.read = {})
<1>1. Idle \in CancelRec
  BY DEF Idle, CancelRec
<1>. QED
  BY <1>1 DEF Settled, Idle

\* The epoch moves when every flag is set, and then the lock is given up.
LEMMA AdvanceInv ==
  ASSUME CancelTaskAssumption, Inv, NEW k \in Cancellers, advance(k)
  PROVE  Inv'
<1>. DEFINE c == [canceller[k] EXCEPT !.phase = "read"]
            r == Settled(c)
<1>0. /\ TypeOK /\ TaskShape /\ CancelShape /\ CellOwned
      /\ SlotShape /\ HandsClean /\ Reached /\ EpochSeen
  BY DEF Inv
<1>1. /\ canceller[k].phase = "mark" /\ canceller[k].mark = {}
      /\ epoch' = epoch + 1 /\ lock' = {}
      /\ UNCHANGED <<started, flag, calls, active, primary, fallback, fepoch,
                     gen, owner, winner, waits, task>>
  BY DEF advance, slots, cells
<1>2. canceller[k] \in CancelRec /\ canceller[k].look = <<>> /\ canceller[k].waits = {} /\ lock = {k}
  BY <1>0, <1>1, Fields DEF CancelShape
<1>3. canceller' = [canceller EXCEPT ![k] = r]
  BY <1>0 DEF advance, TypeOK
<1>4. /\ c \in CancelRec /\ c.phase = "read" /\ c.read = canceller[k].read /\ c.mark = {}
      /\ c.look = <<>> /\ c.waits = {}
  BY <1>1, <1>2 DEF CancelRec
<1>5. /\ r \in CancelRec /\ r.read = canceller[k].read /\ r.waits = {} /\ r.phase # "mark"
      /\ r.mark = {} /\ r.look = <<>> /\ (r.phase = "idle" => r = Idle /\ canceller[k].read = {})
  BY <1>4, SettledFacts
<1>. HIDE DEF c, r
<1>6. canceller'[k] = r /\ CancelStep(k)
  BY <1>0, <1>1, <1>3 DEF TypeOK, CancelStep
<1>7. TypeOK'
  BY <1>0, <1>1, <1>3, <1>5 DEF TypeOK
<1>8. CancelShape'
  BY <1>0, <1>1, <1>2, <1>5, <1>6 DEF CancelShape, CancelStep
<1>9. HandsClean'
  BY <1>0, <1>1, <1>5, <1>6 DEF HandsClean, CancelStep
<1>10. Reached'
  BY <1>0, <1>1, <1>2, <1>5, <1>6 DEF Reached, WillSelect, Cancelled, CancelStep
<1>11. EpochSeen'
  <2>1. \A e \in Executions : task[e].observed \in Nat /\ task[e].observed <= epoch /\ epoch \in Nat
    BY <1>0, Fields DEF EpochSeen, TypeOK
  <2>. QED
    BY <1>1, <2>1 DEF EpochSeen
<1>. QED
  BY <1>6, <1>7, <1>8, <1>9, <1>10, <1>11, CancelFrame DEF Inv

\* A call outside the lock that replaces its record by r, which no more than
\* reads and selects.
ReadStep(k, r) ==
  /\ canceller[k].phase = "read"
  /\ r \in CancelRec /\ r.phase = "read" /\ r.mark \subseteq canceller[k].mark
  /\ r.read \subseteq canceller[k].read
  /\ r.look = <<>> \/ (r.look[1] \in r.read /\ r.look[2].kind = "fallback")
  /\ canceller' = [canceller EXCEPT ![k] = Settled(r)]
  /\ winner' \in [Cells -> {"none", "cancelled"}]
  /\ UNCHANGED <<started, flag, lock, epoch, calls, active, primary, fallback, fepoch,
                 gen, owner, waits, task>>

\* Such a step keeps all but what is said of the waits in hand.
LEMMA ReadFrame ==
  ASSUME CancelTaskAssumption, Inv, NEW k \in Cancellers, NEW r, ReadStep(k, r)
  PROVE  /\ TypeOK' /\ TaskShape' /\ CancelShape' /\ CellOwned' /\ SlotShape' /\ EpochSeen'
         /\ canceller'[k] = Settled(r) /\ Settled(r).read = r.read /\ Settled(r).waits = r.waits
         /\ (Settled(r).phase = "idle" => r.read = {} /\ r.waits = {})
         /\ (Settled(r).look = r.look \/ (Settled(r).look = <<>> /\ r.read = {}))
         /\ \A j \in Cancellers : j # k => canceller'[j] = canceller[j]
<1>. DEFINE z == Settled(r)
<1>0. TypeOK /\ CancelShape /\ EpochSeen
  BY DEF Inv
<1>1. /\ z \in CancelRec
      /\ z.read = r.read /\ z.waits = r.waits /\ z.phase # "mark" /\ z.mark \subseteq r.mark
      /\ z.phase = "idle" => z = Idle /\ r.read = {} /\ r.waits = {}
      /\ z.look = r.look \/ (z.look = <<>> /\ r.read = {})
  BY SettledFacts DEF ReadStep
<1>2. canceller' = [canceller EXCEPT ![k] = z]
  BY DEF ReadStep
<1>. HIDE DEF z
<1>3. canceller'[k] = z /\ \A j \in Cancellers : j # k => canceller'[j] = canceller[j]
  BY <1>0, <1>2 DEF TypeOK
<1>4. CancelStep(k)
  BY <1>3 DEF CancelStep, ReadStep
<1>5. TypeOK'
  BY <1>0, <1>1, <1>2 DEF TypeOK, ReadStep
<1>6. CancelShape'
  <2>1. /\ \A m \in z.read : m <= started /\ flag[m] /\ m # Root
        /\ \A m \in z.mark : m <= started
        /\ z.look # <<>> => z.look[1] \in z.read /\ z.look[2].kind = "fallback"
        /\ lock # {k}
    BY <1>0, <1>1 DEF CancelShape, ReadStep
  <2>. QED
    BY <1>0, <1>1, <1>3, <2>1 DEF CancelShape, ReadStep
<1>7. EpochSeen'
  BY <1>0 DEF EpochSeen, Cancelled, ReadStep
<1>. QED
  BY <1>1, <1>3, <1>4, <1>5, <1>6, <1>7, CancelFrame DEF z

\* The wait a slot describes is the one its task is in, if it is in one.
LEMMA SlotWait ==
  ASSUME CancelTaskAssumption, Inv, NEW n \in Tokens, NEW e \in Executions,
         task[e].token = n, task[e].pc \in InSlot, flag[n]
  PROVE  /\ task[e].cell \in Cells /\ ClaimedGen(n) \in Nat
         /\ ClaimedGen(n) <= gen[task[e].cell]
         /\ \A f \in owner[task[e].cell] :
              gen[task[e].cell] = ClaimedGen(n) => flag[task[f].token]
         /\ \A f \in Executions : task[f].pc = "park" /\ task[f].token = n =>
              f = e /\ <<task[e].cell, ClaimedGen(n)>> = <<task[f].cell, gen[task[f].cell]>>
<1>0. TypeOK /\ TaskShape /\ CellOwned /\ SlotShape
  BY DEF Inv
<1>1. Registered(e) /\ task[e].cell \in Cells
  BY <1>0, Fields DEF SlotShape
<1>2. ClaimedGen(n) \in Nat
  BY <1>0 DEF ClaimedGen, TypeOK, Slot
<1>3. \A f \in owner[task[e].cell] : gen[task[e].cell] = ClaimedGen(n) => f = e
  BY <1>0, <1>1 DEF Registered, CellOwned, InSlot
<1>4. \A f \in Executions : task[f].pc = "park" /\ task[f].token = n => f = e
  BY <1>0, OwnToken
<1>. QED
  BY <1>1, <1>2, <1>3, <1>4 DEF Registered

\* A wait read out of a slot, or none if the task has left it, may be taken in
\* hand for the token it was read for.
LEMMA TakeWait ==
  ASSUME CancelTaskAssumption, Inv, NEW k \in Cancellers, NEW n \in Tokens, NEW r, NEW W,
         n \in canceller[k].read, ReadStep(k, r), winner' = winner,
         r.read = canceller[k].read \ {n}, r.waits = canceller[k].waits \cup W, r.look = <<>>,
         canceller[k].look = <<>> \/ canceller[k].look[1] = n,
         \A w \in W : \E e \in Executions :
           task[e].token = n /\ task[e].pc \in InSlot /\ w = <<task[e].cell, ClaimedGen(n)>>,
         \A e \in Executions : task[e].token = n /\ task[e].pc = "park"
              /\ (canceller[k].look # <<>> => canceller[k].look[2] = active[n]) =>
            <<task[e].cell, ClaimedGen(n)>> \in W
  PROVE  Inv'
<1>. DEFINE z == canceller'[k]
<1>0. /\ TypeOK /\ TaskShape /\ CancelShape /\ CellOwned
      /\ SlotShape /\ HandsClean /\ Reached /\ EpochSeen
  BY DEF Inv
<1>1. /\ TypeOK' /\ TaskShape' /\ CancelShape' /\ CellOwned' /\ SlotShape' /\ EpochSeen'
      /\ z.read = r.read /\ z.waits = r.waits
      /\ (z.phase = "idle" => r.read = {} /\ r.waits = {}) /\ z.look = <<>>
      /\ \A j \in Cancellers : j # k => canceller'[j] = canceller[j]
  BY ReadFrame
<1>2. UNCHANGED <<flag, active, gen, owner, task>> /\ flag[n]
  BY <1>0 DEF ReadStep, CancelShape
<1>3. HandsClean'
  <2>1. \A w \in W : /\ w[2] <= gen[w[1]]
                     /\ \A f \in owner[w[1]] : gen[w[1]] = w[2] => flag[task[f].token]
    BY <1>2, SlotWait
  <2>. QED
    BY <1>0, <1>1, <1>2, <2>1 DEF HandsClean
<1>4. Reached'
  <2>1. SUFFICES ASSUME NEW e \in Executions, task[e].pc = "park", flag[task[e].token],
                        winner[task[e].cell] = "none"
                 PROVE  \E j \in Cancellers : canceller'[j].phase # "idle" /\ WillSelect(j, e)'
    BY <1>2 DEF Reached, Cancelled
  <2>2. PICK j \in Cancellers : canceller[j].phase # "idle" /\ WillSelect(j, e)
    BY <1>0, <2>1 DEF Reached, Cancelled
  <2>3. CASE j # k
    BY <1>1, <1>2, <2>2, <2>3 DEF WillSelect
  <2>4. CASE j = k /\ <<task[e].cell, gen[task[e].cell]>> \in canceller[k].waits
    BY <1>1, <1>2, <2>4 DEF WillSelect
  <2>5. CASE /\ j = k /\ task[e].token \in canceller[k].read
             /\ canceller[k].look # <<>> /\ canceller[k].look[1] = task[e].token =>
                  canceller[k].look[2] = active[task[e].token]
    <3>1. CASE task[e].token # n
      BY <1>1, <1>2, <2>5, <3>1 DEF WillSelect
    <3>2. CASE task[e].token = n
      <4>1. <<task[e].cell, ClaimedGen(n)>> \in W
        BY <2>1, <2>5, <3>2
      <4>2. <<task[e].cell, ClaimedGen(n)>> = <<task[e].cell, gen[task[e].cell]>>
        BY <1>2, <2>1, <3>2, SlotWait DEF InSlot
      <4>. QED
        BY <1>1, <1>2, <4>1, <4>2 DEF WillSelect
    <3>. QED
      BY <3>1, <3>2
  <2>. QED
    BY <2>2, <2>3, <2>4, <2>5 DEF WillSelect
<1>. QED
  BY <1>1, <1>3, <1>4 DEF Inv

\* A slot in use is that of a task in its wait, which it describes.
LEMMA SlotHolder ==
  ASSUME CancelTaskAssumption, Inv, NEW n \in Tokens, active[n].kind # "none"
  PROVE  \E e \in Executions : task[e].token = n /\ task[e].pc \in InSlot /\ Registered(e)
BY DEF Inv, SlotShape

\* A parked task is in its slot.
LEMMA ParkedSlot ==
  ASSUME CancelTaskAssumption, Inv, NEW e \in Executions, task[e].pc = "park"
  PROVE  task[e].pc \in InSlot /\ Registered(e) /\ active[task[e].token].kind # "none"
BY DEF Inv, SlotShape, InSlot, Registered

\* Reading a slot: nothing to select, one wait, or a fallback to look up.
LEMMA ActiveWaitInv ==
  ASSUME CancelTaskAssumption, Inv, NEW k \in Cancellers, NEW n \in Tokens, active_wait(k, n)
  PROVE  Inv'
<1>. DEFINE a == active[n]
            seen(W) == [canceller[k] EXCEPT !.read = @ \ {n}, !.waits = @ \cup W]
<1>0. /\ TypeOK /\ TaskShape /\ CancelShape /\ CellOwned
      /\ SlotShape /\ HandsClean /\ Reached /\ EpochSeen
  BY DEF Inv
<1>1. /\ canceller[k].phase = "read" /\ n \in canceller[k].read /\ canceller[k].look = <<>>
      /\ UNCHANGED <<started, flag, lock, epoch, calls, active, primary, fallback, fepoch,
                     gen, owner, winner, waits, task>>
      /\ canceller[k] \in CancelRec /\ a \in Slot
  BY <1>0, Fields DEF active_wait, slots, cells, TypeOK
<1>2. ASSUME NEW W \in SUBSET (Cells \X Nat), canceller' = [canceller EXCEPT ![k] = Settled(seen(W))],
             \A w \in W : \E e \in Executions :
               task[e].token = n /\ task[e].pc \in InSlot /\ w = <<task[e].cell, ClaimedGen(n)>>,
             \A e \in Executions : task[e].token = n /\ task[e].pc = "park" =>
               <<task[e].cell, ClaimedGen(n)>> \in W
      PROVE  Inv'
  <2>1. /\ seen(W) \in CancelRec /\ seen(W).phase = "read" /\ seen(W).mark = canceller[k].mark
        /\ seen(W).read = canceller[k].read \ {n} /\ seen(W).waits = canceller[k].waits \cup W
        /\ seen(W).look = <<>>
    BY <1>1, <1>2 DEF CancelRec
  <2>. HIDE DEF seen
  <2>2. ReadStep(k, seen(W))
    BY <1>0, <1>1, <1>2, <2>1 DEF ReadStep, TypeOK
  <2>. QED
    BY <1>1, <1>2, <2>1, <2>2, TakeWait
<1>3. CASE a = NoWait /\ canceller' = [canceller EXCEPT ![k] = Settled(seen({}))]
  <2>1. \A e \in Executions : ~(task[e].token = n /\ task[e].pc = "park")
    BY <1>3, ParkedSlot DEF NoWait
  <2>. DEFINE W == {}
  <2>2. /\ W \in SUBSET (Cells \X Nat)
        /\ canceller' = [canceller EXCEPT ![k] = Settled(seen(W))]
        /\ \A w \in W : \E e \in Executions :
             task[e].token = n /\ task[e].pc \in InSlot /\ w = <<task[e].cell, ClaimedGen(n)>>
        /\ \A e \in Executions : task[e].token = n /\ task[e].pc = "park" =>
             <<task[e].cell, ClaimedGen(n)>> \in W
    <3>. HIDE DEF seen
    <3>. QED
      BY <1>3, <2>1
  <2>. HIDE DEF seen, W
  <2>. QED
    BY <1>2, <2>2
<1>4. CASE /\ a.kind = "primary"
           /\ canceller' = [canceller EXCEPT ![k] = Settled(seen({<<primary[n], a.gen>>}))]
  <2>1. PICK e \in Executions : task[e].token = n /\ task[e].pc \in InSlot /\ Registered(e)
    BY <1>4, SlotHolder
  <2>2. /\ <<primary[n], a.gen>> = <<task[e].cell, ClaimedGen(n)>>
        /\ <<primary[n], a.gen>> \in Cells \X Nat
    BY <1>0, <1>1, <1>4, <2>1, Fields DEF Registered, ClaimedGen, Slot
  <2>3. \A f \in Executions : task[f].token = n /\ task[f].pc = "park" => f = e
    BY <1>0, <2>1, OwnToken
  <2>. DEFINE W == {<<primary[n], a.gen>>}
  <2>4. /\ W \in SUBSET (Cells \X Nat)
        /\ canceller' = [canceller EXCEPT ![k] = Settled(seen(W))]
        /\ \A w \in W : \E f \in Executions :
             task[f].token = n /\ task[f].pc \in InSlot /\ w = <<task[f].cell, ClaimedGen(n)>>
        /\ \A f \in Executions : task[f].token = n /\ task[f].pc = "park" =>
             <<task[f].cell, ClaimedGen(n)>> \in W
    <3>. HIDE DEF seen
    <3>. QED
      BY <1>4, <2>1, <2>2, <2>3
  <2>. HIDE DEF seen, W
  <2>. QED
    BY <1>2, <2>4
<1>5. ASSUME NEW g \in Executions, task[g].token = n, a.kind = "resident",
             canceller' = [canceller EXCEPT ![k] = Settled(seen({<<g, a.gen>>}))]
      PROVE  Inv'
  <2>1. PICK e \in Executions : task[e].token = n /\ task[e].pc \in InSlot /\ Registered(e)
    BY <1>5, SlotHolder
  <2>2. \A f \in Executions : task[f].token = n => f = e
    BY <1>0, <2>1, OwnToken DEF InSlot
  <2>3. /\ <<g, a.gen>> = <<task[e].cell, ClaimedGen(n)>>
        /\ <<g, a.gen>> \in Cells \X Nat
    BY <1>0, <1>1, <1>5, <2>1, <2>2, Fields DEF Registered, ClaimedGen, Slot
  <2>. DEFINE W == {<<g, a.gen>>}
  <2>4. /\ W \in SUBSET (Cells \X Nat)
        /\ canceller' = [canceller EXCEPT ![k] = Settled(seen(W))]
        /\ \A w \in W : \E f \in Executions :
             task[f].token = n /\ task[f].pc \in InSlot /\ w = <<task[f].cell, ClaimedGen(n)>>
        /\ \A f \in Executions : task[f].token = n /\ task[f].pc = "park" =>
             <<task[f].cell, ClaimedGen(n)>> \in W
    <3>. HIDE DEF seen
    <3>. QED
      BY <1>5, <2>1, <2>2, <2>3
  <2>. HIDE DEF seen, W
  <2>. QED
    BY <1>2, <2>4
<1>6. CASE a.kind = "fallback" /\ canceller' = [canceller EXCEPT ![k].look = <<n, a>>]
  <2>. DEFINE r == [canceller[k] EXCEPT !.look = <<n, a>>]
  <2>1. /\ r \in CancelRec /\ r.phase = "read" /\ r.mark = canceller[k].mark
        /\ r.read = canceller[k].read /\ r.waits = canceller[k].waits /\ r.look = <<n, a>>
    BY <1>1 DEF CancelRec
  <2>2. canceller' = [canceller EXCEPT ![k] = r]
    BY <1>0, <1>6 DEF TypeOK
  <2>. HIDE DEF r
  <2>3. Settled(r) = r
    BY <1>1, <2>1 DEF Settled
  <2>4. ReadStep(k, r)
    <3>1. r.look[1] = n /\ r.look[2] = a
      BY <2>1
    <3>2. winner' \in [Cells -> {"none", "cancelled"}]
      BY <1>0, <1>1 DEF TypeOK
    <3>. QED
      BY <1>1, <1>6, <2>1, <2>2, <2>3, <3>1, <3>2 DEF ReadStep
  <2>5. /\ TypeOK' /\ TaskShape' /\ CancelShape' /\ CellOwned' /\ SlotShape' /\ EpochSeen'
        /\ canceller'[k] = r
        /\ \A j \in Cancellers : j # k => canceller'[j] = canceller[j]
    BY <2>3, <2>4, ReadFrame
  <2>6. HandsClean'
    <3>1. \A j \in Cancellers : canceller'[j].waits = canceller[j].waits
      BY <2>1, <2>5
    <3>. QED
      BY <1>0, <1>1, <3>1 DEF HandsClean
  <2>7. Reached'
    <3>1. \A j \in Cancellers : \A e \in Executions :
            canceller[j].phase # "idle" /\ WillSelect(j, e) =>
              canceller'[j].phase # "idle" /\ WillSelect(j, e)'
      BY <1>1, <2>1, <2>5 DEF WillSelect
    <3>. QED
      BY <1>0, <1>1, <3>1 DEF Reached, Cancelled
  <2>. QED
    BY <2>5, <2>6, <2>7 DEF Inv
<1>. QED
  BY <1>3, <1>4, <1>5, <1>6 DEF active_wait

\* The fallback map names a wait only while the slot is as it was.
LEMMA LookFallbackInv ==
  ASSUME CancelTaskAssumption, Inv, NEW k \in Cancellers, look_fallback(k)
  PROVE  Inv'
<1>. DEFINE n == canceller[k].look[1]
            a == canceller[k].look[2]
            W == Looked(n, a)
            r == [canceller[k] EXCEPT !.look = <<>>, !.read = @ \ {n}, !.waits = @ \cup W]
<1>0. TypeOK /\ TaskShape /\ CancelShape
  BY DEF Inv
<1>1. /\ canceller[k].phase = "read" /\ canceller[k].look # <<>>
      /\ UNCHANGED <<started, flag, lock, epoch, calls, active, primary, fallback, fepoch,
                     gen, owner, winner, waits, task>>
      /\ canceller[k] \in CancelRec
  BY <1>0, Fields DEF look_fallback, slots, cells
<1>2. n \in Tokens /\ n \in canceller[k].read /\ a.kind = "fallback"
  BY <1>0, <1>1, Fields DEF CancelShape
<1>3. canceller' = [canceller EXCEPT ![k] = Settled(r)]
  BY <1>0 DEF look_fallback, TypeOK
<1>4. ASSUME active[n] = a, fallback[n] # NoFallback
      PROVE  \E e \in Executions :
               /\ task[e].token = n /\ task[e].pc \in InSlot /\ task[e].cell \in Cells
               /\ fallback[n].cell = task[e].cell /\ fallback[n].gen = ClaimedGen(n)
  BY <1>0, <1>2, <1>4, SlotHolder, Fields DEF Registered, ClaimedGen
<1>5. \A e \in Executions : task[e].token = n /\ task[e].pc = "park" /\ a = active[n] =>
        <<task[e].cell, ClaimedGen(n)>> \in W
  <2>1. SUFFICES ASSUME NEW e \in Executions, task[e].token = n, task[e].pc = "park", a = active[n]
                 PROVE  <<task[e].cell, ClaimedGen(n)>> \in W
    OBVIOUS
  <2>2. fallback[n].cell = task[e].cell /\ fallback[n].gen = ClaimedGen(n) /\ task[e].cell \in Cells
    BY <1>0, <1>2, <2>1, ParkedSlot, Fields DEF Registered, ClaimedGen
  <2>3. fallback[n] # NoFallback
    BY <2>2 DEF NoFallback, CancelTaskAssumption, Cells
  <2>. QED
    BY <2>1, <2>2, <2>3 DEF Looked
<1>6. W \in SUBSET (Cells \X Nat)
  BY <1>0, <1>2, <1>4 DEF Looked, TypeOK
<1>7. \A w \in W : \E e \in Executions :
        task[e].token = n /\ task[e].pc \in InSlot /\ w = <<task[e].cell, ClaimedGen(n)>>
  BY <1>4 DEF Looked
<1>8. /\ r \in CancelRec /\ r.phase = "read" /\ r.mark = canceller[k].mark /\ r.look = <<>>
      /\ r.read = canceller[k].read \ {n} /\ r.waits = canceller[k].waits \cup W
  <2>. HIDE DEF W
  <2>. QED
    BY <1>1, <1>6 DEF CancelRec
<1>. HIDE DEF r, W
<1>9. ReadStep(k, r)
  BY <1>0, <1>1, <1>3, <1>8 DEF ReadStep, TypeOK
<1>10. canceller[k].look[1] = n /\ canceller[k].look[2] = a
  OBVIOUS
<1>. HIDE DEF n, a
<1>. QED
  BY <1>1, <1>2, <1>5, <1>7, <1>8, <1>9, <1>10, TakeWait

\* Selecting a wait in hand cancels its own generation, or nothing.
LEMMA SelectInv ==
  ASSUME CancelTaskAssumption, Inv, NEW k \in Cancellers, NEW w \in canceller[k].waits,
         select_cancelled(k, w)
  PROVE  Inv'
<1>. DEFINE r == [canceller[k] EXCEPT !.waits = @ \ {w}]
<1>0. /\ TypeOK /\ TaskShape /\ CancelShape /\ CellOwned
      /\ SlotShape /\ HandsClean /\ Reached /\ EpochSeen
  BY DEF Inv
<1>1. /\ canceller[k].phase = "read" /\ canceller[k].read = {}
      /\ winner' = Selected(w[1], w[2])
      /\ UNCHANGED <<started, flag, lock, epoch, calls, active, primary, fallback, fepoch,
                     gen, owner, waits, task>>
      /\ canceller[k] \in CancelRec
  BY <1>0, Fields DEF select_cancelled, slots
<1>2. canceller' = [canceller EXCEPT ![k] = Settled(r)]
  BY <1>0 DEF select_cancelled, TypeOK
<1>3. /\ r \in CancelRec /\ r.phase = "read" /\ r.mark = canceller[k].mark /\ r.read = {}
      /\ r.look = canceller[k].look /\ r.waits = canceller[k].waits \ {w}
  BY <1>1 DEF CancelRec
<1>. HIDE DEF r
<1>4. w[1] \in Cells /\ w[2] \in Nat /\ w = <<w[1], w[2]>> /\ canceller[k].look = <<>>
  BY <1>0, <1>1, Fields DEF CancelShape
<1>5. /\ winner' \in [Cells -> {"none", "cancelled"}]
      /\ \A d \in Cells : winner'[d] # winner[d] =>
           d = w[1] /\ gen[d] = w[2] /\ winner'[d] = "cancelled"
      /\ owner[w[1]] # {} /\ gen[w[1]] = w[2] => winner'[w[1]] = "cancelled"
      /\ \A d \in Cells : winner[d] = "cancelled" => winner'[d] = "cancelled"
  BY <1>0, <1>1, <1>4 DEF Selected, TypeOK
<1>6. ReadStep(k, r)
  BY <1>1, <1>2, <1>3, <1>4, <1>5 DEF ReadStep
<1>7. /\ TypeOK' /\ TaskShape' /\ CancelShape' /\ CellOwned' /\ SlotShape' /\ EpochSeen'
      /\ canceller'[k].read = r.read /\ canceller'[k].waits = r.waits
      /\ (canceller'[k].phase = "idle" => r.read = {} /\ r.waits = {})
      /\ \A j \in Cancellers : j # k => canceller'[j] = canceller[j]
  BY <1>6, ReadFrame
<1>8. HandsClean'
  <2>1. \A j \in Cancellers : canceller'[j].waits \subseteq canceller[j].waits
    BY <1>3, <1>7
  <2>2. \A d \in Cells : \A f \in owner[d] : winner'[d] = "cancelled" => flag[task[f].token]
    BY <1>0, <1>4, <1>5 DEF HandsClean
  <2>. QED
    BY <1>0, <1>1, <2>1, <2>2 DEF HandsClean
<1>9. Reached'
  <2>1. SUFFICES ASSUME NEW e \in Executions, task[e].pc = "park", flag[task[e].token],
                        winner'[task[e].cell] = "none"
                 PROVE  \E j \in Cancellers : canceller'[j].phase # "idle" /\ WillSelect(j, e)'
    BY <1>1 DEF Reached, Cancelled
  <2>2. task[e].cell \in Cells /\ owner[task[e].cell] = {e} /\ winner[task[e].cell] = "none"
    <3>1. task[e].cell \in Cells /\ owner[task[e].cell] = {e}
      BY <1>0, <2>1, Fields DEF CellOwned
    <3>. QED
      BY <1>0, <1>5, <2>1, <3>1 DEF TypeOK
  <2>3. PICK j \in Cancellers : canceller[j].phase # "idle" /\ WillSelect(j, e)
    BY <1>0, <2>1, <2>2 DEF Reached, Cancelled
  <2>4. CASE j # k
    BY <1>1, <1>7, <2>3, <2>4 DEF WillSelect
  <2>5. CASE j = k
    <3>1. <<task[e].cell, gen[task[e].cell]>> \in canceller[k].waits
      BY <1>1, <2>3, <2>5 DEF WillSelect
    <3>2. <<task[e].cell, gen[task[e].cell]>> # w
      <4>1. ~(task[e].cell = w[1] /\ gen[w[1]] = w[2])
        BY <1>5, <2>1, <2>2
      <4>. QED
        BY <1>4, <4>1
    <3>. QED
      BY <1>1, <1>3, <1>7, <3>1, <3>2 DEF WillSelect
  <2>. QED
    BY <2>4, <2>5
<1>. QED
  BY <1>7, <1>8, <1>9 DEF Inv

-----------------------------------------------------------------------------
(* The invariant and what it implies. *)

\* Every step keeps the invariant.
LEMMA NextInv ==
  ASSUME CancelTaskAssumption, Inv, [Next]_vars
  PROVE  Inv'
<1>1. CASE UNCHANGED vars
  <2>1. TypeOK' /\ TaskShape'
    BY <1>1 DEF vars, Inv, TypeOK, TaskShape
  <2>2. CancelShape' /\ CellOwned' /\ HandsClean' /\ EpochSeen'
    BY <1>1 DEF vars, Inv, CancelShape, CellOwned, HandsClean, Cancelled, EpochSeen
  <2>3. SlotShape'
    BY <1>1 DEF vars, Inv, SlotShape, Registered, ClaimedGen
  <2>4. Reached'
    BY <1>1 DEF vars, Inv, Reached, WillSelect, Cancelled
  <2>. QED
    BY <2>1, <2>2, <2>3, <2>4 DEF Inv
<1>2. CASE Tasks
  BY <1>2, StartInv, CompleteInv DEF Tasks
<1>3. CASE Checkpoints
  BY <1>3, CheckEpochInv, CheckFlagInv DEF Checkpoints
<1>4. CASE Parking
  BY <1>4, BeginInv, RegisterInv, RecheckInv, FinishInv, UnregisterInv DEF Parking
<1>5. CASE Cancels
  BY <1>5, CancelInv, MarkInv, ActiveWaitInv, AdvanceInv, LookFallbackInv, SelectInv DEF Cancels
<1>. QED
  BY <1>1, <1>2, <1>3, <1>4, <1>5 DEF Next

\* The inductive invariant holds of every reachable state: slots, cells, tokens
\* and what each cancel has in hand agree at every step of the code.
THEOREM CancelTaskInvariance ==
  ASSUME CancelTaskAssumption
  PROVE  Spec => []Inv
<1>1. Init => Inv
  BY InitInv
<1>2. Inv /\ [Next]_vars => Inv'
  BY NextInv
<1>. QED
  BY <1>1, <1>2, PTL DEF Spec

\* task_context.rs:213: whenever no cancel is in the lock, the epoch a running
\* task has cached is old enough for its next checkpoint to read the flag.
THEOREM CheckpointsSee ==
  ASSUME CancelTaskAssumption
  PROVE  Spec => []CheckpointSees
<1>1. Inv => CheckpointSees
  BY DEF Inv, EpochSeen, CheckpointSees
<1>. QED
  BY <1>1, CancelTaskInvariance, PTL

\* cancellation_subscription.rs:166: a parked task of a cancelled token has been
\* selected, or some cancel still has its token or its very wait in hand.
THEOREM CancelsReachWaits ==
  ASSUME CancelTaskAssumption
  PROVE  Spec => []CancelReachesWait
<1>1. Inv => CancelReachesWait
  BY DEF Inv, Reached, WillSelect, CancelReachesWait, Pending
<1>. QED
  BY <1>1, CancelTaskInvariance, PTL

\* cancellation_subscription.rs:94: a cancelled wait is one of a cancelled task,
\* however late the cancel acts on the slot it read.
THEOREM OnlyCancelledWaits ==
  ASSUME CancelTaskAssumption
  PROVE  Spec => []OnlyCancelled
<1>1. Inv => OnlyCancelled
  BY Fields DEF Inv, HandsClean, CellOwned, OnlyCancelled, Cancelled
<1>. QED
  BY <1>1, CancelTaskInvariance, PTL

-----------------------------------------------------------------------------
(* The wake queue. *)

-----------------------------------------------------------------------------
(* Chains of slots *)

Routes == Queue!Routes

\* The members of s are linked by nx one after the other, from i to 0.
Links(nx, i, s) ==
  /\ i = IF s = <<>> THEN 0 ELSE s[1]
  /\ \A k \in 1..Len(s) : nx[s[k]] = IF k = Len(s) THEN 0 ELSE s[k + 1]
ChainOf(nx, i) == CHOOSE s \in Queue!SeqOf(Routes, Capacity) : Links(nx, i, s)

\* The length of a line is the number of its members.
LEMMA LineSize ==
  ASSUME NEW T, NEW s \in LineOf(T)
  PROVE  IsFiniteSet(ToSet(s)) /\ Cardinality(ToSet(s)) = Len(s)
<1>1. /\ Len(s) \in Nat /\ s \in [1..Len(s) -> ToSet(s)]
      /\ \A i, j \in 1..Len(s) : s[i] = s[j] => i = j
      /\ \A x \in ToSet(s) : \E i \in 1..Len(s) : s[i] = x
  BY InLine, LenProperties
<1>2. s \in Bijection(1..Len(s), ToSet(s))
  BY <1>1 DEF Bijection, Injection, Surjection, IsInjective
<1>3. IsFiniteSet(1..Len(s)) /\ Cardinality(1..Len(s)) = Len(s)
  <2>1. 1 \in Int /\ Len(s) \in Int
    BY <1>1
  <2>2. IsFiniteSet(1..Len(s)) /\ Cardinality(1..Len(s)) = IF 1 > Len(s) THEN 0 ELSE Len(s) - 1 + 1
    BY <2>1, FS_Interval
  <2>. QED
    BY <1>1, <2>2
<1>. QED
  BY <1>2, <1>3, FS_Bijection DEF ExistsBijection

\* A line of routes is no longer than there are slots.
LEMMA LineFits ==
  ASSUME NEW s \in LineOf(Routes)
  PROVE  s \in Queue!SeqOf(Routes, Capacity)
<1>1. Capacity \in Nat /\ Routes = 1..Capacity
  BY QueueAssumption DEF Queue!WakeQueueAssumption, Queue!Routes, Routes
<1>2. IsFiniteSet(Routes) /\ Cardinality(Routes) <= Capacity
  <2>1. 1 \in Int /\ Capacity \in Int
    BY <1>1
  <2>2. IsFiniteSet(1..Capacity) /\ Cardinality(1..Capacity) = IF 1 > Capacity THEN 0 ELSE Capacity - 1 + 1
    BY <2>1, FS_Interval
  <2>. QED
    BY <1>1, <2>2
<1>3. s \in Seq(Routes) /\ Len(s) \in Nat /\ ToSet(s) \in SUBSET Routes
  BY InLine
<1>4. Cardinality(ToSet(s)) <= Cardinality(Routes) /\ Cardinality(Routes) \in Nat
  BY <1>2, <1>3, FS_Subset, FS_CardinalityType
<1>5. Len(s) \in 0..Capacity
  BY <1>1, <1>2, <1>3, <1>4, LineSize
<1>6. s \in [1..Len(s) -> Routes]
  BY <1>3, LenProperties
<1>. QED
  BY <1>5, <1>6 DEF Queue!SeqOf

\* A chain goes as far as any other from the same slot.
LEMMA ChainCovers ==
  ASSUME NEW s \in Seq(Routes), NEW t \in Seq(Routes), NEW nx, NEW i,
         Links(nx, i, s), Links(nx, i, t)
  PROVE  \A k \in 1..Len(s) : k \in 1..Len(t) /\ s[k] = t[k]
<1>. DEFINE Odd == {k \in 1..Len(s) : ~(k \in 1..Len(t) /\ s[k] = t[k])}
<1>1. /\ Len(s) \in Nat /\ Len(t) \in Nat
      /\ \A k \in 1..Len(s) : s[k] \in Routes /\ s[k] # 0
      /\ \A k \in 1..Len(t) : t[k] \in Routes /\ t[k] # 0
  BY QueueAssumption, LenProperties, ElementOfSeq DEF Queue!WakeQueueAssumption, Queue!Routes, Routes
<1>2. SUFFICES ASSUME Odd # {} PROVE FALSE
  OBVIOUS
<1>3. Odd \in SUBSET Nat
  BY <1>1
<1>4. PICK k \in Odd : \A y \in Odd : k <= y
  BY <1>2, <1>3, LeastNat
<1>5. k \in 1..Len(s) /\ ~(k \in 1..Len(t) /\ s[k] = t[k])
  OBVIOUS
<1>6. \A y \in 1..Len(s) : y < k => y \in 1..Len(t) /\ s[y] = t[y]
  BY <1>1, <1>4
<1>. HIDE DEF Odd
<1>7. CASE k = 1
  <2>1. s # <<>> /\ i = s[1] /\ i # 0
    BY <1>1, <1>5, <1>7, EmptySeq DEF Links
  <2>2. t # <<>> /\ i = t[1]
    BY <2>1 DEF Links
  <2>3. 1 \in 1..Len(t)
    BY <1>1, <2>2, EmptySeq
  <2>. QED
    BY <1>5, <1>7, <2>1, <2>2, <2>3
<1>8. CASE k # 1
  <2>1. k - 1 \in 1..Len(s) /\ k - 1 < k /\ k - 1 # Len(s) /\ (k - 1) + 1 = k
    BY <1>1, <1>5, <1>8
  <2>2. k - 1 \in 1..Len(t) /\ s[k - 1] = t[k - 1]
    BY <1>6, <2>1
  <2>3. nx[s[k - 1]] = s[k]
    BY <2>1 DEF Links
  <2>4. nx[t[k - 1]] = IF k - 1 = Len(t) THEN 0 ELSE t[k]
    BY <2>1, <2>2 DEF Links
  <2>5. s[k] # 0
    BY <1>1, <1>5
  <2>6. k - 1 # Len(t) /\ s[k] = t[k]
    BY <2>2, <2>3, <2>4, <2>5
  <2>. QED
    BY <1>1, <1>5, <2>2, <2>6
<1>. QED
  BY <1>7, <1>8

\* From a slot there is one chain, and it is what Chain finds.
LEMMA ChainIs ==
  ASSUME NEW nx, NEW i, NEW s \in LineOf(Routes), Links(nx, i, s)
  PROVE  ChainOf(nx, i) = s
<1>. DEFINE t == ChainOf(nx, i)
<1>1. s \in Queue!SeqOf(Routes, Capacity)
  BY LineFits
<1>2. t \in Queue!SeqOf(Routes, Capacity) /\ Links(nx, i, t)
  BY <1>1 DEF ChainOf
<1>. HIDE DEF t
<1>3. t \in Seq(Routes) /\ s \in Seq(Routes)
  <2>1. PICK m \in 0..Capacity : t \in [1..m -> Routes]
    BY <1>2 DEF Queue!SeqOf
  <2>2. m \in Nat
    BY <2>1, QueueAssumption DEF Queue!WakeQueueAssumption
  <2>. QED
    BY <2>1, <2>2, InLine, IsASeq
<1>4. \A k \in 1..Len(s) : k \in 1..Len(t) /\ s[k] = t[k]
  BY <1>2, <1>3, ChainCovers
<1>5. \A k \in 1..Len(t) : k \in 1..Len(s) /\ s[k] = t[k]
  BY <1>2, <1>3, ChainCovers
<1>6. Len(s) \in Nat /\ Len(t) \in Nat
  BY <1>3, LenProperties
<1>7. Len(s) = Len(t)
  BY <1>4, <1>5, <1>6
<1>8. s = t
  BY <1>3, <1>4, <1>7, SeqEqual
<1>. QED
  BY <1>8 DEF t

\* No slot is linked from 0.
LEMMA ChainOfNone ==
  /\ \A nx : Links(nx, 0, <<>>)
  /\ \A nx : \A s \in LineOf(Routes) : Links(nx, 0, s) => s = <<>>
<1>1. Len(<<>>) = 0
  BY EmptySeq
<1>2. ASSUME NEW nx PROVE Links(nx, 0, <<>>)
  BY <1>1 DEF Links
<1>3. ASSUME NEW nx, NEW s \in LineOf(Routes), Links(nx, 0, s), s # <<>> PROVE FALSE
  <2>1. s[1] \in Routes
    BY <1>3, ServeLine
  <2>2. 0 \notin Routes
    BY QueueAssumption DEF Queue!WakeQueueAssumption, Queue!Routes, Routes
  <2>. QED
    BY <1>3, <2>1, <2>2 DEF Links
<1>. QED
  BY <1>2, <1>3

\* Links elsewhere may change.
LEMMA ChainFrame ==
  ASSUME NEW nx, NEW mx, NEW i, NEW s \in LineOf(Routes), Links(nx, i, s),
         \A x \in ToSet(s) : mx[x] = nx[x]
  PROVE  Links(mx, i, s)
<1>1. \A k \in 1..Len(s) : s[k] \in ToSet(s)
  BY InLine
<1>. QED
  BY <1>1 DEF Links

\* One slot in front of a chain.
LEMMA ConsFacts ==
  ASSUME NEW T, NEW s \in Seq(T), NEW x \in T
  PROVE  /\ <<x>> \o s \in Seq(T) /\ Len(<<x>> \o s) = Len(s) + 1 /\ <<x>> \o s # <<>>
         /\ (<<x>> \o s)[1] = x /\ Head(<<x>> \o s) = x /\ Tail(<<x>> \o s) = s
         /\ \A k \in 1..Len(s) : (<<x>> \o s)[k + 1] = s[k]
<1>1. <<x>> \in Seq(T) /\ Len(<<x>>) = 1 /\ <<x>>[1] = x /\ Len(s) \in Nat
  BY LenProperties
<1>2. /\ <<x>> \o s \in Seq(T) /\ Len(<<x>> \o s) = Len(<<x>>) + Len(s)
      /\ \A k \in 1..(Len(<<x>>) + Len(s)) : (<<x>> \o s)[k] = IF k <= Len(<<x>>) THEN <<x>>[k] ELSE s[k - Len(<<x>>)]
  BY <1>1, ConcatProperties
<1>. DEFINE c == <<x>> \o s
<1>3. /\ c \in Seq(T) /\ Len(c) = Len(s) + 1
      /\ \A k \in 1..(Len(s) + 1) : c[k] = IF k <= 1 THEN <<x>>[k] ELSE s[k - 1]
  BY <1>1, <1>2
<1>. HIDE DEF c
<1>4. c # <<>> /\ c[1] = x /\ Head(c) = x
  BY <1>1, <1>3, EmptySeq
<1>5. \A k \in 1..Len(s) : c[k + 1] = s[k]
  <2>1. ASSUME NEW k \in 1..Len(s) PROVE c[k + 1] = s[k]
    <3>1. k + 1 \in 1..(Len(s) + 1) /\ ~(k + 1 <= 1) /\ (k + 1) - 1 = k
      BY <1>1
    <3>. QED
      BY <1>3, <3>1
  <2>. QED
    BY <2>1
<1>6. Tail(c) = s
  <2>1. Tail(c) \in Seq(T) /\ Len(Tail(c)) = Len(c) - 1 /\ \A k \in 1..(Len(c) - 1) : Tail(c)[k] = c[k + 1]
    BY <1>3, <1>4, HeadTailProperties
  <2>2. Len(Tail(c)) = Len(s)
    BY <1>1, <1>3, <2>1
  <2>3. \A k \in 1..Len(s) : Tail(c)[k] = s[k]
    BY <1>1, <1>3, <1>5, <2>1
  <2>. QED
    BY <2>1, <2>2, <2>3, SeqEqual
<1>. QED
  BY <1>3, <1>4, <1>5, <1>6 DEF c

\* A slot that is not in a line makes a longer one in front of it.
LEMMA ConsLine ==
  ASSUME NEW T, NEW s \in LineOf(T), NEW x \in T, x \notin ToSet(s)
  PROVE  <<x>> \o s \in LineOf(T) /\ ToSet(<<x>> \o s) = ToSet(s) \cup {x}
<1>. DEFINE c == <<x>> \o s
<1>1. s \in Seq(T) /\ Len(s) \in Nat /\ (\A k \in 1..Len(s) : s[k] # x)
      /\ \A j, k \in 1..Len(s) : s[j] = s[k] => j = k
  BY InLine
<1>2. /\ c \in Seq(T) /\ Len(c) = Len(s) + 1 /\ c[1] = x
      /\ \A k \in 1..Len(s) : c[k + 1] = s[k]
  BY <1>1, ConsFacts
<1>. HIDE DEF c
<1>3. \A k \in 1..(Len(s) + 1) : k = 1 \/ (k - 1 \in 1..Len(s) /\ c[k] = s[k - 1])
  <2>1. ASSUME NEW k \in 1..(Len(s) + 1), k # 1 PROVE k - 1 \in 1..Len(s) /\ c[k] = s[k - 1]
    <3>1. k - 1 \in 1..Len(s) /\ (k - 1) + 1 = k
      BY <1>1, <2>1
    <3>. QED
      BY <1>2, <3>1
  <2>. QED
    BY <2>1
<1>4. ASSUME NEW j \in 1..Len(c), NEW k \in 1..Len(c), c[j] = c[k] PROVE j = k
  <2>1. CASE j = 1
    BY <1>1, <1>2, <1>3, <1>4, <2>1
  <2>2. CASE k = 1
    BY <1>1, <1>2, <1>3, <1>4, <2>2
  <2>3. CASE j # 1 /\ k # 1
    <3>1. j - 1 \in 1..Len(s) /\ k - 1 \in 1..Len(s) /\ s[j - 1] = s[k - 1]
      BY <1>2, <1>3, <1>4, <2>3
    <3>2. j - 1 = k - 1
      BY <1>1, <3>1
    <3>. QED
      BY <3>2
  <2>. QED
    BY <2>1, <2>2, <2>3
<1>5. c \in LineOf(T)
  BY <1>2, <1>4, IsLine
<1>6. ToSet(c) = ToSet(s) \cup {x}
  <2>1. \A y : y \in ToSet(c) <=> \E k \in 1..(Len(s) + 1) : c[k] = y
    BY <1>2, <1>5, InLine
  <2>2. \A y : y \in ToSet(s) <=> \E k \in 1..Len(s) : s[k] = y
    BY InLine
  <2>3. \A k \in 1..Len(s) : k + 1 \in 1..(Len(s) + 1)
    BY <1>1
  <2>4. 1 \in 1..(Len(s) + 1)
    BY <1>1
  <2>5. ASSUME NEW y, y \in ToSet(c) PROVE y \in ToSet(s) \cup {x}
    BY <1>2, <1>3, <2>1, <2>2, <2>5
  <2>6. ASSUME NEW y, y \in ToSet(s) \cup {x} PROVE y \in ToSet(c)
    BY <1>2, <2>1, <2>2, <2>3, <2>4, <2>6
  <2>. QED
    BY <2>5, <2>6
<1>. QED
  BY <1>5, <1>6 DEF c

\* The first slot of a chain, and the chain behind it.
LEMMA ChainFront ==
  ASSUME NEW nx, NEW i, NEW s \in LineOf(Routes), Links(nx, i, s), i # 0
  PROVE  /\ s # <<>> /\ i \in Routes /\ s = <<i>> \o Tail(s)
         /\ Tail(s) \in LineOf(Routes) /\ i \notin ToSet(Tail(s)) /\ ToSet(s) = ToSet(Tail(s)) \cup {i}
         /\ Links(nx, nx[i], Tail(s)) /\ (nx[i] = 0 <=> Tail(s) = <<>>)
<1>1. s # <<>> /\ i = s[1]
  BY ChainOfNone DEF Links
<1>2. /\ Head(s) \in Routes /\ Head(s) \in ToSet(s) /\ Head(s) = s[1]
      /\ Tail(s) \in LineOf(Routes) /\ ToSet(Tail(s)) = ToSet(s) \ {Head(s)}
      /\ Len(s) \in Nat \ {0} /\ Len(Tail(s)) = Len(s) - 1
      /\ (Len(s) = 1 <=> Tail(s) = <<>>)
      /\ \A k \in 1..(Len(s) - 1) : Tail(s)[k] = s[k + 1]
  BY <1>1, ServeLine
<1>3. s \in Seq(Routes) /\ Tail(s) \in Seq(Routes) /\ i \in Routes /\ i = Head(s)
  BY <1>1, <1>2, InLine
<1>4. s = <<i>> \o Tail(s)
  <2>. DEFINE c == <<i>> \o Tail(s)
  <2>1. /\ c \in Seq(Routes) /\ Len(c) = Len(Tail(s)) + 1 /\ c[1] = i
        /\ \A k \in 1..Len(Tail(s)) : c[k + 1] = Tail(s)[k]
    BY <1>3, ConsFacts
  <2>. HIDE DEF c
  <2>2. ASSUME NEW k \in 1..Len(s) PROVE c[k] = s[k]
    <3>1. CASE k = 1
      BY <1>1, <2>1, <3>1
    <3>2. CASE k # 1
      <4>1. k - 1 \in 1..(Len(s) - 1) /\ (k - 1) + 1 = k
        BY <1>2, <3>2
      <4>. QED
        BY <1>2, <2>1, <4>1
    <3>. QED
      BY <3>1, <3>2
  <2>3. c = s
    BY <1>2, <1>3, <2>1, <2>2, SeqEqual
  <2>. QED
    BY <2>3 DEF c
<1>5. 1 \in 1..Len(s)
  BY <1>2
<1>6. nx[i] = IF Len(s) = 1 THEN 0 ELSE s[2]
  BY <1>1, <1>5 DEF Links
<1>7. 0 \notin Routes
  BY QueueAssumption DEF Queue!WakeQueueAssumption, Queue!Routes, Routes
<1>8. Len(s) # 1 => s[2] \in Routes /\ Tail(s)[1] = s[2]
  <2>1. Len(s) # 1 => 2 \in 1..Len(s) /\ 1 \in 1..(Len(s) - 1)
    BY <1>2
  <2>. QED
    BY <1>2, <1>3, <2>1, ElementOfSeq
<1>9. nx[i] = 0 <=> Tail(s) = <<>>
  BY <1>2, <1>6, <1>7, <1>8
<1>10. nx[i] = IF Tail(s) = <<>> THEN 0 ELSE Tail(s)[1]
  BY <1>2, <1>6, <1>8
<1>11. ASSUME NEW k \in 1..Len(Tail(s))
       PROVE  nx[Tail(s)[k]] = IF k = Len(Tail(s)) THEN 0 ELSE Tail(s)[k + 1]
  <2>1. k \in 1..(Len(s) - 1) /\ k + 1 \in 1..Len(s)
    BY <1>2
  <2>2. nx[s[k + 1]] = IF k + 1 = Len(s) THEN 0 ELSE s[(k + 1) + 1]
    BY <2>1 DEF Links
  <2>3. Tail(s)[k] = s[k + 1]
    BY <1>2, <2>1
  <2>4. ASSUME k # Len(Tail(s)) PROVE k + 1 \in 1..(Len(s) - 1) /\ Tail(s)[k + 1] = s[(k + 1) + 1]
    <3>1. Len(s) \in Nat /\ Len(Tail(s)) = Len(s) - 1
      BY <1>2
    <3>2. k + 1 \in 1..(Len(s) - 1)
      BY <2>1, <2>4, <3>1
    <3>. QED
      BY <1>2, <3>2
  <2>5. k = Len(Tail(s)) <=> k + 1 = Len(s)
    BY <1>2
  <2>. QED
    BY <2>2, <2>3, <2>4, <2>5
<1>12. Links(nx, nx[i], Tail(s))
  BY <1>10, <1>11 DEF Links
<1>. QED
  BY <1>1, <1>2, <1>3, <1>4, <1>9, <1>12

\* A slot linked to a chain makes a longer one.
LEMMA ChainPush ==
  ASSUME NEW nx, NEW mx, NEW j, NEW s \in LineOf(Routes), Links(nx, j, s),
         NEW i \in Routes, i \notin ToSet(s), mx[i] = j, \A x \in ToSet(s) : mx[x] = nx[x]
  PROVE  /\ Links(mx, i, <<i>> \o s) /\ <<i>> \o s \in LineOf(Routes)
         /\ ToSet(<<i>> \o s) = ToSet(s) \cup {i}
<1>. DEFINE c == <<i>> \o s
<1>1. s \in Seq(Routes) /\ Len(s) \in Nat
  BY InLine
<1>2. /\ c \in Seq(Routes) /\ Len(c) = Len(s) + 1 /\ c[1] = i /\ c # <<>>
      /\ \A k \in 1..Len(s) : c[k + 1] = s[k]
  BY <1>1, ConsFacts
<1>3. c \in LineOf(Routes) /\ ToSet(c) = ToSet(s) \cup {i}
  BY ConsLine
<1>4. Links(mx, j, s)
  BY ChainFrame
<1>. HIDE DEF c
<1>5. ASSUME NEW k \in 1..Len(c)
      PROVE  mx[c[k]] = IF k = Len(c) THEN 0 ELSE c[k + 1]
  <2>1. CASE k = 1
    <3>1. s = <<>> <=> Len(s) = 0
      BY <1>1, EmptySeq
    <3>2. s # <<>> => 1 \in 1..Len(s) /\ c[1 + 1] = s[1]
      BY <1>1, <1>2, <3>1
    <3>. QED
      BY <1>1, <1>2, <1>4, <2>1, <3>1, <3>2 DEF Links
  <2>2. CASE k # 1
    <3>1. k - 1 \in 1..Len(s) /\ (k - 1) + 1 = k
      BY <1>1, <1>2, <2>2
    <3>2. mx[s[k - 1]] = IF k - 1 = Len(s) THEN 0 ELSE s[(k - 1) + 1]
      BY <1>4, <3>1 DEF Links
    <3>3. c[k] = s[k - 1]
      BY <1>2, <3>1
    <3>4. k # Len(c) => k \in 1..Len(s) /\ c[k + 1] = s[k]
      BY <1>1, <1>2, <3>1
    <3>. QED
      BY <1>1, <1>2, <3>1, <3>2, <3>3, <3>4
  <2>. QED
    BY <2>1, <2>2
<1>6. Links(mx, i, c)
  BY <1>2, <1>5 DEF Links
<1>. QED
  BY <1>3, <1>6 DEF c

-----------------------------------------------------------------------------
(* The list, oldest first, from its three chains *)

\* The part still to reverse, the part in order, and the stack at the head.
Three(u, d, h) == (Reverse(u) \o d) \o Reverse(h)

\* The reverse of a sequence, member by member.
LEMMA ReverseFacts ==
  ASSUME NEW T, NEW s \in Seq(T)
  PROVE  /\ Reverse(s) \in Seq(T) /\ Len(Reverse(s)) = Len(s)
         /\ \A k \in 1..Len(s) : Reverse(s)[k] = s[(Len(s) - k) + 1]
<1>1. Len(s) \in Nat /\ \A k \in 1..Len(s) : s[k] \in T
  BY LenProperties, ElementOfSeq
<1>2. \A k \in 1..Len(s) : (Len(s) - k) + 1 \in 1..Len(s)
  BY <1>1
<1>3. Reverse(s) = [k \in 1..Len(s) |-> s[(Len(s) - k) + 1]]
  BY DEF Reverse
<1>4. \A k \in 1..Len(s) : s[(Len(s) - k) + 1] \in T
  BY <1>1, <1>2
<1>5. Reverse(s) \in Seq(T)
  BY <1>1, <1>3, <1>4, IsASeq
<1>. QED
  BY <1>1, <1>3, <1>5, LenProperties

\* Nothing to reverse.
LEMMA ReverseNone == Reverse(<<>>) = <<>>
<1>1. <<>> \in Seq({}) /\ Len(<<>>) = 0
  BY EmptySeq
<1>2. Reverse(<<>>) \in Seq({}) /\ Len(Reverse(<<>>)) = 0
  BY <1>1, ReverseFacts
<1>. QED
  BY <1>2, EmptySeq

\* The first of a sequence is the last of its reverse.
LEMMA ReverseCons ==
  ASSUME NEW T, NEW s \in Seq(T), NEW x \in T
  PROVE  Reverse(<<x>> \o s) = Reverse(s) \o <<x>>
<1>. DEFINE c == <<x>> \o s
            r == Append(Reverse(s), x)
<1>1. /\ c \in Seq(T) /\ Len(c) = Len(s) + 1 /\ c[1] = x /\ Len(s) \in Nat
      /\ \A k \in 1..Len(s) : c[k + 1] = s[k]
  BY ConsFacts, LenProperties
<1>2. /\ Reverse(s) \in Seq(T) /\ Len(Reverse(s)) = Len(s)
      /\ \A k \in 1..Len(s) : Reverse(s)[k] = s[(Len(s) - k) + 1]
  BY ReverseFacts
<1>3. /\ r \in Seq(T) /\ Len(r) = Len(s) + 1
      /\ \A k \in 1..Len(s) : r[k] = Reverse(s)[k]
      /\ r[Len(s) + 1] = x
  BY <1>2, AppendProperties
<1>. HIDE DEF c, r
<1>4. /\ Reverse(c) \in Seq(T) /\ Len(Reverse(c)) = Len(c)
      /\ \A k \in 1..Len(c) : Reverse(c)[k] = c[(Len(c) - k) + 1]
  BY <1>1, ReverseFacts
<1>5. ASSUME NEW k \in 1..(Len(s) + 1) PROVE Reverse(c)[k] = r[k]
  <2>1. CASE k = Len(s) + 1
    <3>1. k \in 1..Len(c) /\ (Len(c) - k) + 1 = 1
      BY <1>1, <2>1
    <3>2. Reverse(c)[k] = x
      BY <1>1, <1>4, <3>1
    <3>. QED
      BY <1>3, <2>1, <3>2
  <2>2. CASE k # Len(s) + 1
    <3>1. /\ k \in 1..Len(c) /\ k \in 1..Len(s) /\ (Len(s) - k) + 1 \in 1..Len(s)
          /\ (Len(c) - k) + 1 = ((Len(s) - k) + 1) + 1
      BY <1>1, <2>2
    <3>2. Reverse(c)[k] = c[((Len(s) - k) + 1) + 1]
      BY <1>4, <3>1
    <3>3. c[((Len(s) - k) + 1) + 1] = s[(Len(s) - k) + 1]
      BY <1>1, <3>1
    <3>. QED
      BY <1>2, <1>3, <3>1, <3>2, <3>3
  <2>. QED
    BY <2>1, <2>2
<1>6. Reverse(c) = r
  BY <1>1, <1>3, <1>4, <1>5, SeqEqual
<1>7. r = Reverse(s) \o <<x>>
  BY <1>2, AppendIsConcat DEF r
<1>. QED
  BY <1>6, <1>7 DEF c

\* A slot pushed at the head is the youngest of the list.
LEMMA ThreePush ==
  ASSUME NEW T, NEW u \in Seq(T), NEW d \in Seq(T), NEW h \in Seq(T), NEW x \in T
  PROVE  /\ Three(u, d, h) \in Seq(T)
         /\ Three(u, d, <<x>> \o h) = Append(Three(u, d, h), x)
<1>1. Reverse(u) \in Seq(T) /\ Reverse(h) \in Seq(T) /\ <<x>> \in Seq(T)
  BY ReverseFacts
<1>2. Reverse(u) \o d \in Seq(T) /\ Three(u, d, h) \in Seq(T)
  BY <1>1, ConcatProperties DEF Three
<1>3. Reverse(<<x>> \o h) = Reverse(h) \o <<x>>
  BY ReverseCons
<1>4. (Reverse(u) \o d) \o (Reverse(h) \o <<x>>) = Three(u, d, h) \o <<x>>
  BY <1>1, <1>2, ConcatAssociative DEF Three
<1>. QED
  BY <1>2, <1>3, <1>4, AppendIsConcat DEF Three

\* One slot reversed leaves the list as it is.
LEMMA ThreeTurn ==
  ASSUME NEW x \in Routes, NEW u \in Seq(Routes), NEW d \in Seq(Routes), NEW h \in Seq(Routes)
  PROVE  Three(<<x>> \o u, d, h) = Three(u, <<x>> \o d, h)
<1>2. Reverse(u) \in Seq(Routes) /\ <<x>> \in Seq(Routes)
  BY ReverseFacts
<1>3. Reverse(<<x>> \o u) = Reverse(u) \o <<x>>
  BY ReverseCons
<1>4. (Reverse(u) \o <<x>>) \o d = Reverse(u) \o (<<x>> \o d)
  BY <1>2, ConcatAssociative
<1>. QED
  BY <1>3, <1>4 DEF Three

\* The first slot in order is the oldest, once everything is reversed.
LEMMA ThreeTake ==
  ASSUME NEW T, NEW d \in Seq(T), NEW h \in Seq(T), NEW x \in T
  PROVE  Three(<<>>, <<x>> \o d, h) = <<x>> \o Three(<<>>, d, h)
<1>1. Reverse(h) \in Seq(T) /\ <<x>> \in Seq(T) /\ <<x>> \o d \in Seq(T)
  BY ReverseFacts, ConsFacts
<1>2. Reverse(<<>>) \o (<<x>> \o d) = <<x>> \o d /\ Reverse(<<>>) \o d = d
  BY <1>1, ReverseNone, ConcatEmptySeq
<1>3. (<<x>> \o d) \o Reverse(h) = <<x>> \o (d \o Reverse(h))
  BY <1>1, ConcatAssociative
<1>. QED
  BY <1>2, <1>3 DEF Three

\* A detached stack is still to be reversed.
LEMMA ThreeSwap ==
  ASSUME NEW T, NEW h \in Seq(T)
  PROVE  Three(<<>>, <<>>, h) = Three(h, <<>>, <<>>)
<1>1. Reverse(h) \in Seq(T) /\ <<>> \in Seq(T)
  BY ReverseFacts, EmptySeq
<1>2. Three(<<>>, <<>>, h) = Reverse(h)
  BY <1>1, ReverseNone, ConcatEmptySeq DEF Three
<1>3. Three(h, <<>>, <<>>) = Reverse(h)
  BY <1>1, ReverseNone, ConcatEmptySeq DEF Three
<1>. QED
  BY <1>2, <1>3

\* Three empty chains are the empty list.
LEMMA ThreeNone == Three(<<>>, <<>>, <<>>) = <<>>
<1>1. <<>> \in Seq({})
  BY EmptySeq
<1>2. <<>> \o <<>> = <<>>
  BY <1>1, ConcatEmptySeq
<1>. QED
  BY <1>2, ReverseNone DEF Three

\* Who is in the list is in one of the chains.
LEMMA ThreeSet ==
  ASSUME NEW T, NEW u \in Seq(T), NEW d \in Seq(T), NEW h \in Seq(T)
  PROVE  ToSet(Three(u, d, h)) = ToSet(u) \cup ToSet(d) \cup ToSet(h)
<1>1. ASSUME NEW s \in Seq(T) PROVE Reverse(s) \in Seq(T) /\ ToSet(Reverse(s)) = ToSet(s)
  <2>1. /\ Reverse(s) \in Seq(T) /\ Len(Reverse(s)) = Len(s) /\ Len(s) \in Nat
        /\ \A k \in 1..Len(s) : Reverse(s)[k] = s[(Len(s) - k) + 1]
    BY ReverseFacts, LenProperties
  <2>2. /\ \A x : x \in ToSet(s) <=> \E k \in 1..Len(s) : s[k] = x
        /\ \A x : x \in ToSet(Reverse(s)) <=> \E k \in 1..Len(s) : Reverse(s)[k] = x
    BY <2>1, LenProperties DEF ToSet
  <2>3. \A k \in 1..Len(s) : (Len(s) - k) + 1 \in 1..Len(s) /\ (Len(s) - ((Len(s) - k) + 1)) + 1 = k
    BY <2>1
  <2>4. ASSUME NEW x, x \in ToSet(s) PROVE x \in ToSet(Reverse(s))
    <3>1. PICK k \in 1..Len(s) : s[k] = x
      BY <2>2, <2>4
    <3>2. Reverse(s)[(Len(s) - k) + 1] = x
      BY <2>1, <2>3, <3>1
    <3>. QED
      BY <2>2, <2>3, <3>2
  <2>5. ASSUME NEW x, x \in ToSet(Reverse(s)) PROVE x \in ToSet(s)
    <3>1. PICK k \in 1..Len(s) : Reverse(s)[k] = x
      BY <2>2, <2>5
    <3>. QED
      BY <2>1, <2>2, <2>3, <3>1
  <2>. QED
    BY <2>1, <2>4, <2>5
<1>2. ASSUME NEW s \in Seq(T), NEW t \in Seq(T)
      PROVE  s \o t \in Seq(T) /\ ToSet(s \o t) = ToSet(s) \cup ToSet(t)
  <2>1. s \o t \in Seq(T) /\ Range(s \o t) = Range(s) \cup Range(t)
    BY ConcatProperties, RangeConcatenation
  <2>. QED
    BY <2>1 DEF Range, ToSet
<1>3. /\ Reverse(u) \in Seq(T) /\ ToSet(Reverse(u)) = ToSet(u)
      /\ Reverse(h) \in Seq(T) /\ ToSet(Reverse(h)) = ToSet(h)
  BY <1>1
<1>4. Reverse(u) \o d \in Seq(T) /\ ToSet(Reverse(u) \o d) = ToSet(u) \cup ToSet(d)
  BY <1>2, <1>3
<1>5. ToSet((Reverse(u) \o d) \o Reverse(h)) = ToSet(Reverse(u) \o d) \cup ToSet(Reverse(h))
  BY <1>2, <1>3, <1>4
<1>. QED
  BY <1>3, <1>4, <1>5 DEF Three

\* The three chains share no slot, and no slot stands twice in the list.
Shape(nx, n, o, i, u, d, h) ==
  /\ u \in LineOf(Routes) /\ d \in LineOf(Routes) /\ h \in LineOf(Routes)
  /\ Links(nx, n, u) /\ Links(nx, o, d) /\ Links(nx, i, h)
  /\ ToSet(u) \cap ToSet(d) = {} /\ ToSet(u) \cap ToSet(h) = {} /\ ToSet(d) \cap ToSet(h) = {}
  /\ Three(u, d, h) \in LineOf(Routes)
Chained(nx, n, o, i) == \E u, d, h : Shape(nx, n, o, i, u, d, h)
List(nx, n, o, i) == Three(ChainOf(nx, n), ChainOf(nx, o), ChainOf(nx, i))

\* The list of three given chains.
LEMMA ListIs ==
  ASSUME NEW nx, NEW n, NEW o, NEW i, NEW u, NEW d, NEW h, Shape(nx, n, o, i, u, d, h)
  PROVE  /\ Chained(nx, n, o, i) /\ List(nx, n, o, i) = Three(u, d, h)
         /\ List(nx, n, o, i) \in LineOf(Routes)
         /\ ToSet(List(nx, n, o, i)) = ToSet(u) \cup ToSet(d) \cup ToSet(h)
         /\ u \in Seq(Routes) /\ d \in Seq(Routes) /\ h \in Seq(Routes)
<1>1. ChainOf(nx, n) = u /\ ChainOf(nx, o) = d /\ ChainOf(nx, i) = h
  BY ChainIs DEF Shape
<1>2. u \in Seq(Routes) /\ d \in Seq(Routes) /\ h \in Seq(Routes)
  BY InLine DEF Shape
<1>. QED
  BY <1>1, <1>2, ThreeSet DEF Shape, Chained, List

\* An empty list.
LEMMA ListNone ==
  ASSUME NEW nx
  PROVE  Chained(nx, 0, 0, 0) /\ List(nx, 0, 0, 0) = <<>>
<1>1. <<>> \in LineOf(Routes) /\ ToSet(<<>>) = {}
  BY NobodyInLine
<1>2. Links(nx, 0, <<>>)
  BY ChainOfNone
<1>3. Shape(nx, 0, 0, 0, <<>>, <<>>, <<>>)
  BY <1>1, <1>2, ThreeNone DEF Shape
<1>. QED
  BY <1>3, ListIs, ThreeNone

\* push links its slot at the head.
LEMMA ListPush ==
  ASSUME NEW nx \in [Routes -> 0..Capacity], NEW n, NEW o, NEW i \in 0..Capacity, Chained(nx, n, o, i),
         NEW r \in Routes, r \notin ToSet(List(nx, n, o, i)),
         NEW mx, mx[r] = i, \A x \in Routes : x # r => mx[x] = nx[x]
  PROVE  Chained(mx, n, o, r) /\ List(mx, n, o, r) = Append(List(nx, n, o, i), r)
<1>1. PICK u, d, h : Shape(nx, n, o, i, u, d, h)
  BY DEF Chained
<1>2. /\ List(nx, n, o, i) = Three(u, d, h) /\ List(nx, n, o, i) \in LineOf(Routes)
      /\ ToSet(List(nx, n, o, i)) = ToSet(u) \cup ToSet(d) \cup ToSet(h)
      /\ u \in Seq(Routes) /\ d \in Seq(Routes) /\ h \in Seq(Routes)
  BY <1>1, ListIs
<1>3. r \notin ToSet(u) /\ r \notin ToSet(d) /\ r \notin ToSet(h)
  BY <1>2
<1>5. ToSet(u) \subseteq Routes /\ ToSet(d) \subseteq Routes /\ ToSet(h) \subseteq Routes
  BY <1>1, InLine DEF Shape
<1>6. Links(mx, n, u) /\ Links(mx, o, d)
  BY <1>1, <1>3, <1>5, ChainFrame DEF Shape
<1>7. /\ Links(mx, r, <<r>> \o h) /\ <<r>> \o h \in LineOf(Routes)
      /\ ToSet(<<r>> \o h) = ToSet(h) \cup {r}
  <2>1. \A x \in ToSet(h) : mx[x] = nx[x]
    BY <1>3, <1>5
  <2>2. h \in LineOf(Routes) /\ Links(nx, i, h)
    BY <1>1 DEF Shape
  <2>. QED
    BY <1>3, <2>1, <2>2, ChainPush
<1>8. Three(u, d, <<r>> \o h) = Append(Three(u, d, h), r)
  BY <1>2, ThreePush
<1>9. Append(Three(u, d, h), r) \in LineOf(Routes)
  BY <1>2, JoinLine
<1>10. Shape(mx, n, o, r, u, d, <<r>> \o h)
  BY <1>1, <1>3, <1>6, <1>7, <1>8, <1>9 DEF Shape
<1>. QED
  <2>1. Chained(mx, n, o, r) /\ List(mx, n, o, r) = Three(u, d, <<r>> \o h)
    BY <1>10, ListIs
  <2>. QED
    BY <1>2, <1>8, <2>1

\* ChainPush where the chain is linked from the slot already.
LEMMA ChainCons ==
  ASSUME NEW mx, NEW s \in LineOf(Routes), NEW i \in Routes, Links(mx, mx[i], s), i \notin ToSet(s)
  PROVE  /\ Links(mx, i, <<i>> \o s) /\ <<i>> \o s \in LineOf(Routes)
         /\ ToSet(<<i>> \o s) = ToSet(s) \cup {i}
BY ChainPush

\* One round of reverse.
LEMMA ListTurn ==
  ASSUME NEW nx \in [Routes -> 0..Capacity], NEW n \in 0..Capacity, NEW o \in 0..Capacity, NEW i,
         Chained(nx, n, o, i), n # 0,
         NEW mx, mx[n] = o, \A x \in Routes : x # n => mx[x] = nx[x]
  PROVE  Chained(mx, nx[n], n, i) /\ List(mx, nx[n], n, i) = List(nx, n, o, i)
<1>1. PICK u, d, h : Shape(nx, n, o, i, u, d, h)
  BY DEF Chained
<1>2. /\ List(nx, n, o, i) = Three(u, d, h) /\ List(nx, n, o, i) \in LineOf(Routes)
      /\ u \in Seq(Routes) /\ d \in Seq(Routes) /\ h \in Seq(Routes)
  BY <1>1, ListIs
<1>3. /\ n \in Routes /\ u = <<n>> \o Tail(u) /\ Tail(u) \in LineOf(Routes)
      /\ n \notin ToSet(Tail(u)) /\ ToSet(u) = ToSet(Tail(u)) \cup {n} /\ Links(nx, nx[n], Tail(u))
  BY <1>1, ChainFront DEF Shape
<1>5. ToSet(Tail(u)) \subseteq Routes /\ ToSet(d) \subseteq Routes /\ ToSet(h) \subseteq Routes
  BY <1>1, <1>3, InLine DEF Shape
<1>6. n \notin ToSet(d) /\ n \notin ToSet(h)
  BY <1>1, <1>3 DEF Shape
<1>7. Links(mx, nx[n], Tail(u)) /\ Links(mx, i, h)
  BY <1>1, <1>3, <1>5, <1>6, ChainFrame DEF Shape
<1>8. /\ Links(mx, n, <<n>> \o d) /\ <<n>> \o d \in LineOf(Routes)
      /\ ToSet(<<n>> \o d) = ToSet(d) \cup {n}
  <2>1. d \in LineOf(Routes) /\ Links(mx, o, d)
    BY <1>1, <1>5, <1>6, ChainFrame DEF Shape
  <2>2. Links(mx, mx[n], d) /\ n \in Routes /\ n \notin ToSet(d)
    BY <1>3, <1>6, <2>1
  <2>. QED
    BY <2>1, <2>2, ChainCons
<1>9. Three(u, d, h) = Three(Tail(u), <<n>> \o d, h)
  <2>1. Tail(u) \in Seq(Routes)
    BY <1>3, InLine
  <2>2. Three(<<n>> \o Tail(u), d, h) = Three(Tail(u), <<n>> \o d, h)
    <3>1. n \in Routes /\ d \in Seq(Routes) /\ h \in Seq(Routes)
      BY <1>2, <1>3
    <3>. QED
      BY <2>1, <3>1, ThreeTurn
  <2>. QED
    BY <1>3, <2>2
<1>10. Shape(mx, nx[n], n, i, Tail(u), <<n>> \o d, h)
  BY <1>1, <1>2, <1>3, <1>6, <1>7, <1>8, <1>9 DEF Shape
<1>. QED
  BY <1>2, <1>9, <1>10, ListIs

\* pop takes the first slot in order.
LEMMA ListTake ==
  ASSUME NEW nx, NEW o, NEW i, Chained(nx, 0, o, i), o # 0
  PROVE  /\ Chained(nx, 0, nx[o], i) /\ List(nx, 0, o, i) # <<>>
         /\ Head(List(nx, 0, o, i)) = o /\ List(nx, 0, nx[o], i) = Tail(List(nx, 0, o, i))
<1>1. PICK u, d, h : Shape(nx, 0, o, i, u, d, h)
  BY DEF Chained
<1>2. /\ List(nx, 0, o, i) = Three(u, d, h) /\ List(nx, 0, o, i) \in LineOf(Routes)
      /\ u \in Seq(Routes) /\ d \in Seq(Routes) /\ h \in Seq(Routes)
  BY <1>1, ListIs
<1>3. /\ o \in Routes /\ d = <<o>> \o Tail(d) /\ Tail(d) \in LineOf(Routes)
      /\ ToSet(d) = ToSet(Tail(d)) \cup {o} /\ Links(nx, nx[o], Tail(d))
  BY <1>1, ChainFront DEF Shape
<1>4. u = <<>>
  BY <1>1, ChainOfNone DEF Shape
<1>5. Tail(d) \in Seq(Routes)
  BY <1>3, InLine
<1>. DEFINE t == Three(<<>>, Tail(d), h)
<1>6. List(nx, 0, o, i) = <<o>> \o t
  <2>1. Three(<<>>, <<o>> \o Tail(d), h) = <<o>> \o Three(<<>>, Tail(d), h)
    BY <1>2, <1>3, <1>5, ThreeTake
  <2>. QED
    BY <1>2, <1>3, <1>4, <2>1
<1>7. t \in Seq(Routes)
  BY <1>2, <1>3, <1>4, <1>5, ThreePush
<1>. HIDE DEF t
<1>8. List(nx, 0, o, i) # <<>> /\ Head(List(nx, 0, o, i)) = o /\ Tail(List(nx, 0, o, i)) = t
  <2>1. o \in Routes
    BY <1>3
  <2>2. <<o>> \o t # <<>> /\ Head(<<o>> \o t) = o /\ Tail(<<o>> \o t) = t
    BY Zenon, <1>7, <2>1, ConsFacts
  <2>. QED
    BY <1>6, <2>2
<1>9. t \in LineOf(Routes)
  BY <1>2, <1>8, ServeLine
<1>10. Shape(nx, 0, nx[o], i, u, Tail(d), h)
  BY <1>1, <1>3, <1>4, <1>9 DEF Shape, t
<1>11. Chained(nx, 0, nx[o], i) /\ List(nx, 0, nx[o], i) = Three(u, Tail(d), h)
  BY <1>10, ListIs
<1>. QED
  BY <1>4, <1>8, <1>11 DEF t

\* pop detaches the stack at the head, to reverse it if it has two slots.
LEMMA ListSwap ==
  ASSUME NEW nx, NEW i, Chained(nx, 0, 0, i), i # 0
  PROVE  /\ Chained(nx, i, 0, 0) /\ List(nx, i, 0, 0) = List(nx, 0, 0, i)
         /\ nx[i] = 0 => Chained(nx, 0, i, 0) /\ List(nx, 0, i, 0) = List(nx, 0, 0, i)
<1>1. PICK u, d, h : Shape(nx, 0, 0, i, u, d, h)
  BY DEF Chained
<1>2. u = <<>> /\ d = <<>>
  BY <1>1, ChainOfNone DEF Shape
<1>3. /\ List(nx, 0, 0, i) = Three(<<>>, <<>>, h) /\ Three(<<>>, <<>>, h) \in LineOf(Routes)
      /\ h \in Seq(Routes)
  BY <1>1, <1>2, ListIs DEF Shape
<1>4. Links(nx, 0, <<>>) /\ <<>> \in LineOf(Routes) /\ ToSet(<<>>) = {}
  BY ChainOfNone, NobodyInLine
<1>5. Three(<<>>, <<>>, h) = Three(h, <<>>, <<>>)
  BY <1>3, ThreeSwap
<1>6. Shape(nx, i, 0, 0, h, <<>>, <<>>)
  BY <1>1, <1>3, <1>4, <1>5 DEF Shape
<1>7. Chained(nx, i, 0, 0) /\ List(nx, i, 0, 0) = List(nx, 0, 0, i)
  BY <1>3, <1>5, <1>6, ListIs
<1>8. ASSUME nx[i] = 0
      PROVE  Chained(nx, 0, i, 0) /\ List(nx, 0, i, 0) = List(nx, 0, 0, i)
  <2>1. i \in Routes /\ h = <<i>> \o Tail(h) /\ Tail(h) = <<>>
    BY <1>1, <1>8, ChainFront DEF Shape
  <2>2. <<>> \in Seq(Routes)
    BY EmptySeq
  <2>3. Three(<<i>> \o <<>>, <<>>, <<>>) = Three(<<>>, <<i>> \o <<>>, <<>>)
    BY <2>1, <2>2, ThreeTurn
  <2>4. h = <<i>> \o <<>>
    BY <2>1
  <2>5. Three(h, <<>>, <<>>) = Three(<<>>, h, <<>>)
    BY <2>3, <2>4
  <2>6. Shape(nx, 0, i, 0, <<>>, h, <<>>)
    BY <1>1, <1>3, <1>4, <1>5, <2>5 DEF Shape
  <2>. QED
    BY <1>3, <1>5, <2>5, <2>6, ListIs
<1>. QED
  BY <1>7, <1>8

\* The notices of the slots of a list.
Read(l, sl) == [k \in DOMAIN l |-> sl[l[k]]]
Words == Queue!Notices \cup {NoNotice}

\* The notices of a list, one by one.
LEMMA ReadFacts ==
  ASSUME NEW l \in LineOf(Routes), NEW sl \in [Routes -> Words]
  PROVE  /\ Read(l, sl) \in Seq(Words) /\ Len(Read(l, sl)) = Len(l)
         /\ \A k \in 1..Len(l) : Read(l, sl)[k] = sl[l[k]]
<1>1. DOMAIN l = 1..Len(l) /\ Len(l) \in Nat /\ \A k \in 1..Len(l) : l[k] \in Routes
  BY InLine
<1>2. Read(l, sl) = [k \in 1..Len(l) |-> sl[l[k]]]
  BY <1>1 DEF Read
<1>3. \A k \in 1..Len(l) : sl[l[k]] \in Words
  BY <1>1
<1>4. Read(l, sl) \in Seq(Words)
  BY <1>1, <1>2, <1>3, IsASeq
<1>. QED
  BY <1>1, <1>2, <1>4, LenProperties

\* Writing slots outside the list shows nothing.
LEMMA ReadElsewhere ==
  ASSUME NEW l \in LineOf(Routes), NEW sl, NEW sm, \A x \in ToSet(l) : sm[x] = sl[x]
  PROVE  Read(l, sm) = Read(l, sl)
<1>1. \A k \in DOMAIN l : l[k] \in ToSet(l)
  BY InLine
<1>. QED
  BY <1>1 DEF Read

\* The notice of a slot pushed at the end comes last.
LEMMA ReadAppend ==
  ASSUME NEW l \in LineOf(Routes), NEW sl \in [Routes -> Words], NEW r \in Routes, r \notin ToSet(l)
  PROVE  Read(Append(l, r), sl) = Append(Read(l, sl), sl[r])
<1>1. Append(l, r) \in LineOf(Routes) /\ Len(Append(l, r)) = Len(l) + 1
  BY JoinLine
<1>2. /\ l \in Seq(Routes) /\ Len(l) \in Nat
      /\ \A k \in 1..Len(l) : Append(l, r)[k] = l[k]
      /\ Append(l, r)[Len(l) + 1] = r
  BY InLine, AppendProperties
<1>3. /\ Read(l, sl) \in Seq(Words) /\ Len(Read(l, sl)) = Len(l)
      /\ \A k \in 1..Len(l) : Read(l, sl)[k] = sl[l[k]]
  BY ReadFacts
<1>. DEFINE a == Append(l, r)
            b == Append(Read(l, sl), sl[r])
<1>4. /\ Read(a, sl) \in Seq(Words) /\ Len(Read(a, sl)) = Len(l) + 1
      /\ \A k \in 1..(Len(l) + 1) : Read(a, sl)[k] = sl[a[k]]
  <2>1. a \in LineOf(Routes) /\ Len(a) = Len(l) + 1
    BY <1>1
  <2>. HIDE DEF a
  <2>. QED
    BY <2>1, ReadFacts
<1>5. /\ b \in Seq(Words) /\ Len(b) = Len(l) + 1
      /\ \A k \in 1..Len(l) : b[k] = Read(l, sl)[k]
      /\ b[Len(l) + 1] = sl[r]
  BY <1>3, AppendProperties
<1>6. \A k \in 1..Len(l) : a[k] = l[k]
  BY <1>2
<1>7. a[Len(l) + 1] = r
  BY <1>2
<1>. HIDE DEF a, b
<1>8. ASSUME NEW k \in 1..(Len(l) + 1) PROVE Read(a, sl)[k] = b[k]
  <2>1. CASE k = Len(l) + 1
    BY <1>4, <1>5, <1>7, <2>1
  <2>2. CASE k # Len(l) + 1
    <3>1. k \in 1..Len(l)
      BY <1>2, <2>2
    <3>. QED
      BY <1>3, <1>4, <1>5, <1>6, <3>1
  <2>. QED
    BY <2>1, <2>2
<1>9. Read(a, sl) = b
  BY <1>4, <1>5, <1>8, SeqEqual
<1>. QED
  BY <1>9 DEF a, b

\* Without its first slot a list shows all but its first notice.
LEMMA ReadTail ==
  ASSUME NEW l \in LineOf(Routes), NEW sl \in [Routes -> Words], l # <<>>
  PROVE  /\ Read(l, sl) # <<>> /\ Head(Read(l, sl)) = sl[Head(l)]
         /\ Read(Tail(l), sl) = Tail(Read(l, sl))
<1>1. /\ Head(l) = l[1] /\ Tail(l) \in LineOf(Routes) /\ Len(l) \in Nat \ {0} /\ Len(Tail(l)) = Len(l) - 1
      /\ \A k \in 1..(Len(l) - 1) : Tail(l)[k] = l[k + 1]
  BY ServeLine
<1>2. /\ Read(l, sl) \in Seq(Words) /\ Len(Read(l, sl)) = Len(l)
      /\ \A k \in 1..Len(l) : Read(l, sl)[k] = sl[l[k]]
  BY ReadFacts
<1>. DEFINE q == Read(l, sl)
            t == Tail(l)
<1>3. q # <<>>
  BY <1>1, <1>2, EmptySeq
<1>4. Head(q) = q[1] /\ q[1] = sl[l[1]]
  BY <1>1, <1>2, <1>3
<1>5. /\ Tail(q) \in Seq(Words) /\ Len(Tail(q)) = Len(l) - 1
      /\ \A k \in 1..(Len(l) - 1) : Tail(q)[k] = q[k + 1]
  <2>. HIDE DEF q
  <2>1. q \in Seq(Words) /\ Len(q) = Len(l)
    BY <1>2 DEF q
  <2>. QED
    BY <1>3, <2>1, HeadTailProperties
<1>6. /\ Read(t, sl) \in Seq(Words) /\ Len(Read(t, sl)) = Len(l) - 1
      /\ \A k \in 1..(Len(l) - 1) : Read(t, sl)[k] = sl[t[k]]
  <2>1. t \in LineOf(Routes) /\ Len(t) = Len(l) - 1
    BY <1>1
  <2>. HIDE DEF t
  <2>. QED
    BY <2>1, ReadFacts
<1>7. \A k \in 1..(Len(l) - 1) : t[k] = l[k + 1] /\ q[k + 1] = sl[l[k + 1]]
  <2>1. \A k \in 1..(Len(l) - 1) : k + 1 \in 1..Len(l)
    BY <1>1
  <2>. QED
    BY <1>1, <1>2, <2>1
<1>. HIDE DEF q, t
<1>8. Read(t, sl) = Tail(q)
  <2>1. \A k \in 1..(Len(l) - 1) : Read(t, sl)[k] = Tail(q)[k]
    BY <1>5, <1>6, <1>7
  <2>. QED
    BY <1>5, <1>6, <2>1, SeqEqual
<1>. QED
  BY <1>1, <1>3, <1>4, <1>8 DEF q, t

\* The empty list shows no notice.
LEMMA ReadNone == ASSUME NEW sl PROVE Read(<<>>, sl) = <<>>
BY DEF Read

-----------------------------------------------------------------------------
(* The inductive invariant *)

\* Every linked slot, as Linked.
Lane == List(next, Queue!Newest, Queue!Oldest, head.index)

\* A slot holds a notice of its route, which was issued.
SlotsFit ==
  /\ \A r \in Routes : slot[r] # NoNotice => slot[r].route = r /\ slot[r].gen <= issued
  /\ \A r \in Routes : ppc[r] # "idle" => slot[r] # NoNotice
  /\ \A n \in ToSet(retained) : n.gen <= issued

\* A slot with a notice is linked, but while it is being pushed or freed.
Listed ==
  /\ Chained(next, Queue!Newest, Queue!Oldest, head.index)
  /\ \A r \in Routes : r \in ToSet(Lane) <=>
       slot[r] # NoNotice /\ ppc[r] = "idle" /\ ~(opc = "free" /\ oindex = r)

\* What the owner has in hand at each of its places.
OwnerAt ==
  /\ opc \in {"reverse", "take", "free"} => oindex # 0
  /\ opc = "free" => ppc[oindex] = "idle" /\ slot[oindex] # NoNotice
  /\ opc = "take" => consumer \in {0, oindex}
  /\ opc \in {"swap", "reverse", "arm"} => consumer = 0
  /\ opc = "swap" => head.index # 0
  /\ head.sleeping => head.index = 0
  /\ got # NoNotice => opc = "free"
  /\ opc = "relink" =>
       retained # <<>> /\ slot[Head(retained).route] = Head(retained) /\ ppc[Head(retained).route] # "idle"
  /\ opc \in {"discard", "repush", "relink"} => token # NoNotice
  /\ opc \in {"run", "arm", "asleep", "leave"} => token = NoNotice
  /\ token = NoNotice => retained = <<>>
  /\ opc \in {"swap", "reverse", "take"} /\ token # NoNotice => left > 0

\* Until its pops are over a discard reaches its notice, which nobody repeats.
Discarding ==
  token # NoNotice =>
    /\ token \notin ToSet(retained) /\ token.gen <= issued
    /\ slot[token.route] = token => ppc[token.route] = "idle"
    /\ opc \in {"repush", "relink"} => slot[token.route] # token
    /\ opc \notin {"repush", "relink"} =>
         \A k \in 1..Len(Lane) : slot[Lane[k]] = token => k <= left

\* What is not linked yet was never linked before, unless a discard puts it back.
Fresh ==
  /\ \A n \in sent : n.gen <= issued
  /\ \A r \in Routes : ppc[r] # "idle" /\ ~Queue!Repushing(r) => slot[r] \notin sent

\* The notices a discard found at its begin are the first of the list, and its
\* pops suffice for them.
Counted ==
  /\ token = NoNotice => ahead = 0
  /\ Queue!Returning => ahead = 0
  /\ ahead <= Len(Lane)
  /\ token # NoNotice /\ ~Queue!Returning => ahead <= left

QueueInv ==
  /\ Queue!TypeOK
  /\ SlotsFit
  /\ Listed
  /\ OwnerAt
  /\ Discarding
  /\ Fresh
  /\ Counted

\* A step of the FIFO, or none.
FifoStep == [Queue!Fifo!FifoNext]_(Queue!Fifo!fifoVars)

\* What QueueAssumption says of the slots and the notices.
LEMMA RouteFacts ==
  /\ Routes = 1..Capacity /\ Routes = Queue!Routes /\ 0 \notin Routes /\ Capacity \in Nat
  /\ MaxNotices \in Nat /\ NoNotice \notin Queue!Notices
  /\ \A n \in Queue!Notices : n.route \in Routes /\ n.gen \in 1..MaxNotices /\ n.gen \in Nat
  /\ \A r \in Routes, g \in 1..MaxNotices : [route |-> r, gen |-> g] \in Queue!Notices
BY QueueAssumption DEF Queue!WakeQueueAssumption, Queue!Routes, Routes, Queue!Notices

\* Linked is the lane, before and after a step.
LEMMA LinkedIs == Queue!Linked = Lane /\ Queue!Linked' = Lane'
<1>1. /\ Queue!Chain(Queue!Newest) = ChainOf(next, Queue!Newest)
      /\ Queue!Chain(Queue!Oldest) = ChainOf(next, Queue!Oldest)
      /\ Queue!Chain(head.index) = ChainOf(next, head.index)
  BY DEF Queue!Chain, Queue!Follows, ChainOf, Links, Routes
<1>2. /\ Queue!Chain(Queue!Newest)' = ChainOf(next', Queue!Newest')
      /\ Queue!Chain(Queue!Oldest)' = ChainOf(next', Queue!Oldest')
      /\ Queue!Chain(head.index)' = ChainOf(next', head.index')
  BY DEF Queue!Chain, Queue!Follows, ChainOf, Links, Routes
<1>3. \A s : Queue!Reverse(s) = Reverse(s)
  BY DEF Queue!Reverse, Reverse
<1>4. Queue!Linked = Lane
  BY <1>1, <1>3 DEF Queue!Linked, Lane, List, Three
<1>5. Queue!Linked' = Lane'
  BY <1>2, <1>3 DEF Queue!Linked, Lane, List, Three
<1>. QED
  BY <1>4, <1>5

\* The queue of the FIFO is what the lane shows.
LEMMA QueuedIs == Queue!Queued = Read(Lane, slot) /\ Queue!Queued' = Read(Lane', slot')
BY LinkedIs DEF Queue!Queued, Read

\* The list of chained slots is a line.
LEMMA LaneIsLine ==
  ASSUME NEW nx, NEW n, NEW o, NEW i, Chained(nx, n, o, i)
  PROVE  List(nx, n, o, i) \in LineOf(Routes)
<1>1. PICK u, d, h : Shape(nx, n, o, i, u, d, h)
  BY DEF Chained
<1>. QED
  BY <1>1, ListIs

\* A step that leaves the linked notices alone.
LEMMA Stutter ==
  ASSUME QueueInv, Lane' = Lane, \A x \in ToSet(Lane) : slot'[x] = slot[x],
         head'.sleeping = head.sleeping, UNCHANGED <<retained, alarm, got, sent, ahead, token>>,
         Queue!Returning' <=> Queue!Returning
  PROVE  FifoStep
<1>1. Lane \in LineOf(Routes)
  BY LaneIsLine DEF QueueInv, Listed, Lane
<1>2. Read(Lane, slot') = Read(Lane, slot)
  BY <1>1, ReadElsewhere
<1>3. Queue!Queued' = Queue!Queued
  BY <1>2, QueuedIs
<1>4. Queue!Returning' = Queue!Returning
  BY DEF Queue!Returning
<1>. QED
  BY <1>3, <1>4 DEF FifoStep, Queue!Fifo!fifoVars, Queue!Fifo!discardVars

\* An empty list, and an empty FIFO.
LEMMA QueueInit == ASSUME Queue!Init PROVE QueueInv /\ Queue!Fifo!FifoInit
<1>. USE DEF Queue!Init
<1>1. head.index = 0 /\ ~head.sleeping /\ Queue!Newest = 0 /\ Queue!Oldest = 0
  BY DEF Queue!NoHead, Queue!Newest, Queue!Oldest
<1>2. Lane = <<>> /\ Chained(next, Queue!Newest, Queue!Oldest, head.index)
  BY <1>1, ListNone DEF Lane
<1>3. Queue!TypeOK
  <2>1. <<>> \in Seq(Queue!Notices)
    BY EmptySeq
  <2>2. Queue!NoHead \in Queue!Heads /\ 0 \in Queue!Index /\ 0 \in 0..Capacity
    BY RouteFacts DEF Queue!Heads, Queue!NoHead, Queue!Index
  <2>3. issued \in 0..MaxNotices
    BY RouteFacts
  <2>. QED
    BY <2>1, <2>2, <2>3 DEF Queue!TypeOK
<1>4. ToSet(<<>>) = {}
  BY NobodyInLine
<1>5. SlotsFit /\ Listed /\ OwnerAt /\ Discarding
  BY <1>1, <1>2, <1>4, RouteFacts DEF SlotsFit, Listed, OwnerAt, Discarding
<1>7. Fresh /\ Counted
  BY <1>2, EmptySeq, RouteFacts DEF Fresh, Counted
<1>6. Queue!Queued = <<>>
  BY <1>2, QueuedIs, ReadNone
<1>. QED
  BY <1>1, <1>3, <1>5, <1>6, <1>7 DEF QueueInv, Queue!Fifo!FifoInit, Queue!Returning

\* What the invariant says of the list.
LEMMA LaneFacts ==
  ASSUME QueueInv
  PROVE  /\ Lane \in LineOf(Routes) /\ Len(Lane) \in Nat
         /\ \A k \in 1..Len(Lane) : Lane[k] \in Routes /\ Lane[k] \in ToSet(Lane)
         /\ \A r \in Routes : r \in ToSet(Lane) <=>
              slot[r] # NoNotice /\ ppc[r] = "idle" /\ ~(opc = "free" /\ oindex = r)
         /\ slot \in [Routes -> Words] /\ next \in [Routes -> 0..Capacity]
         /\ head.index \in 0..Capacity /\ oindex \in 0..Capacity /\ consumer \in 0..Capacity
         /\ oreversed \in 0..Capacity
<1>1. Lane \in LineOf(Routes)
  BY LaneIsLine DEF QueueInv, Listed, Lane
<1>. QED
  BY <1>1, InLine, RouteFacts
     DEF QueueInv, Listed, Queue!TypeOK, Queue!Heads, Queue!Index, Words

\* What the invariant says of the notices.
LEMMA NoticeFacts ==
  ASSUME QueueInv
  PROVE  /\ retained \in Seq(Queue!Notices) /\ ToSet(retained) \subseteq Queue!Notices
         /\ \A n \in ToSet(retained) : n \in Queue!Notices /\ n.gen \in Nat /\ n.route \in Routes
         /\ retained # <<>> => Head(retained) \in ToSet(retained) /\ Tail(retained) \in Seq(Queue!Notices)
                               /\ ToSet(Tail(retained)) \subseteq ToSet(retained)
         /\ \A r \in Routes : slot[r] # NoNotice =>
              slot[r] \in Queue!Notices /\ slot[r].gen \in Nat /\ slot[r].route = r
         /\ token # NoNotice => token \in Queue!Notices /\ token.route \in Routes /\ token.gen \in Nat
         /\ issued \in Nat /\ left \in Nat
<1>1. retained \in Seq(Queue!Notices) /\ issued \in Nat /\ left \in Nat
  BY RouteFacts DEF QueueInv, Queue!TypeOK
<1>2. ToSet(retained) \subseteq Queue!Notices
  BY <1>1, RangeOfSeq DEF Range, ToSet
<1>3. ASSUME retained # <<>>
      PROVE  /\ Head(retained) \in ToSet(retained) /\ Tail(retained) \in Seq(Queue!Notices)
             /\ ToSet(Tail(retained)) \subseteq ToSet(retained)
  <2>1. /\ Head(retained) = retained[1] /\ Tail(retained) \in Seq(Queue!Notices)
        /\ Len(Tail(retained)) = Len(retained) - 1 /\ Len(retained) \in Nat \ {0}
        /\ \A k \in 1..(Len(retained) - 1) : Tail(retained)[k] = retained[k + 1]
    BY <1>1, <1>3, HeadTailProperties, EmptySeq
  <2>2. \A k \in 1..Len(retained) : retained[k] \in ToSet(retained)
    BY <1>1, LenProperties DEF ToSet
  <2>3. 1 \in 1..Len(retained) /\ \A k \in 1..(Len(retained) - 1) : k + 1 \in 1..Len(retained)
    BY <2>1
  <2>4. \A x \in ToSet(Tail(retained)) : \E k \in 1..(Len(retained) - 1) : Tail(retained)[k] = x
    BY <2>1, LenProperties DEF ToSet
  <2>. QED
    BY <2>1, <2>2, <2>3, <2>4
<1>. QED
  BY <1>1, <1>2, <1>3, LaneFacts, RouteFacts DEF QueueInv, SlotsFit, Queue!TypeOK, Words

\* A step that leaves the list, its slots and their readers alone keeps it.
LEMMA ListStays ==
  ASSUME QueueInv, UNCHANGED <<next, slot, ppc>>, head'.index = head.index,
         Queue!Newest' = Queue!Newest, Queue!Oldest' = Queue!Oldest,
         (opc' = "free" /\ oindex' # 0) <=> (opc = "free" /\ oindex # 0),
         opc = "free" => oindex' = oindex
  PROVE  Listed' /\ Lane' = Lane
<1>1. Lane' = Lane
  BY DEF Lane
<1>2. 0 \notin Routes
  BY RouteFacts
<1>3. Listed
  BY DEF QueueInv
<1>. QED
  BY <1>1, <1>2, <1>3 DEF Listed

\* A step that starts no push keeps what is not linked fresh.
LEMMA FreshStays ==
  ASSUME QueueInv, UNCHANGED <<sent, slot, retained>>, issued' \in Nat, issued <= issued',
         opc' = "relink" <=> opc = "relink", \A r \in Routes : ppc'[r] = "idle" <=> ppc[r] = "idle"
  PROVE  Fresh'
<1>1. \A n \in sent : n \in Queue!Notices /\ n.gen \in Nat /\ n.gen <= issued /\ issued \in Nat
  BY RouteFacts DEF QueueInv, Queue!TypeOK, Fresh
<1>2. \A r \in Routes : Queue!Repushing(r)' <=> Queue!Repushing(r)
  BY DEF Queue!Repushing
<1>. QED
  BY <1>1, <1>2 DEF QueueInv, Fresh

\* A step that neither links nor pops keeps the count.
LEMMA CountedStays ==
  ASSUME QueueInv, UNCHANGED <<ahead, token, left>>, Lane' = Lane,
         Queue!Returning' <=> Queue!Returning
  PROVE  Counted'
BY DEF QueueInv, Counted

-----------------------------------------------------------------------------
(* Publishers *)

\* An occupied slot refuses the notice.
LEMMA PushRejectedKeeps ==
  ASSUME QueueInv, NEW r \in Routes, Queue!PushRejected(r)
  PROVE  QueueInv' /\ FifoStep
<1>. USE DEF Queue!PushRejected, Queue!queueVars, Queue!ownerVars, Queue!history
<1>1. Queue!Newest' = Queue!Newest /\ Queue!Oldest' = Queue!Oldest
  BY DEF Queue!Newest, Queue!Oldest
<1>2. Listed' /\ Lane' = Lane
  BY <1>1, ListStays
<1>3. Queue!TypeOK'
  BY RouteFacts DEF QueueInv, Queue!TypeOK
<1>4. SlotsFit'
  BY NoticeFacts DEF QueueInv, SlotsFit
<1>5. OwnerAt' /\ Discarding'
  BY <1>2, RouteFacts DEF QueueInv, OwnerAt, Discarding, Queue!TypeOK
<1>6. FifoStep
  BY <1>2, Stutter DEF Queue!Returning
<1>7. Fresh'
  BY FreshStays, NoticeFacts
<1>8. Counted'
  BY <1>2, CountedStays DEF Queue!Returning
<1>. QED
  BY <1>2, <1>3, <1>4, <1>5, <1>6, <1>7, <1>8 DEF QueueInv

\* Loading the head, first or again.
LEMMA PushLoadKeeps ==
  ASSUME QueueInv, NEW r \in Routes, Queue!PushLoad(r) \/ Queue!PushRetry(r)
  PROVE  QueueInv' /\ FifoStep
<1>. USE DEF Queue!PushLoad, Queue!PushRetry, Queue!queueVars, Queue!ownerVars, Queue!history
<1>0. ppc[r] # "idle" /\ ppc'[r] # "idle" /\ \A q \in Routes : q # r => ppc'[q] = ppc[q]
  BY DEF QueueInv, Queue!TypeOK, Routes
<1>1. Lane' = Lane
  BY DEF Queue!Newest, Queue!Oldest, Lane
<1>2. Listed'
  <2>1. Chained(next, Queue!Newest, Queue!Oldest, head.index)'
    BY DEF QueueInv, Listed, Queue!Newest, Queue!Oldest
  <2>2. \A q \in Routes : ppc'[q] = "idle" <=> ppc[q] = "idle"
    BY <1>0
  <2>. QED
    BY <1>1, <2>1, <2>2 DEF QueueInv, Listed
<1>3. Queue!TypeOK'
  BY DEF QueueInv, Queue!TypeOK, Routes
<1>4. SlotsFit'
  BY <1>0 DEF QueueInv, SlotsFit
<1>5. OwnerAt'
  <2>1. opc = "free" => oindex \in Routes
    BY RouteFacts DEF QueueInv, OwnerAt, Queue!TypeOK, Queue!Index
  <2>2. opc = "relink" => Head(retained).route \in Routes
    <3>1. retained \in Seq(Queue!Notices)
      BY DEF QueueInv, Queue!TypeOK
    <3>2. retained # <<>> => Head(retained) \in Queue!Notices
      BY <3>1, HeadTailProperties
    <3>. QED
      BY <3>2, RouteFacts DEF QueueInv, OwnerAt
  <2>. QED
    BY <1>0, <2>1, <2>2 DEF QueueInv, OwnerAt
<1>6. Discarding'
  <2>1. token # NoNotice => token.route \in Routes
    BY RouteFacts DEF QueueInv, Queue!TypeOK
  <2>. QED
    BY <1>0, <1>1, <2>1 DEF QueueInv, Discarding
<1>7. FifoStep
  BY <1>1, Stutter DEF Queue!Returning
<1>8. Fresh'
  BY <1>0, FreshStays, NoticeFacts
<1>9. Counted'
  BY <1>1, CountedStays DEF Queue!Returning
<1>. QED
  BY <1>2, <1>3, <1>4, <1>5, <1>6, <1>7, <1>8, <1>9 DEF QueueInv

\* The slot is written before it is linked; its notice is a new one.
LEMMA PushWriteKeeps ==
  ASSUME QueueInv, NEW r \in Routes, Queue!PushWrite(r)
  PROVE  QueueInv' /\ FifoStep
<1>. USE DEF Queue!PushWrite, Queue!write_slot, Queue!ownerVars, Queue!history
<1>. DEFINE n == [route |-> r, gen |-> issued']
<1>0. /\ n \in Queue!Notices /\ n # NoNotice /\ issued' = issued + 1 /\ issued' \in 0..MaxNotices
      /\ issued \in Nat
  BY RouteFacts DEF QueueInv, Queue!TypeOK
<1>1. /\ slot'[r] = n /\ ppc'[r] = "load" /\ slot[r] = NoNotice /\ ppc[r] = "idle"
      /\ \A q \in Routes : q # r => slot'[q] = slot[q] /\ ppc'[q] = ppc[q]
  BY DEF QueueInv, Queue!TypeOK, Routes
<1>2. n.route = r /\ n.gen = issued'
  OBVIOUS
<1>. HIDE DEF n
<1>3. Lane' = Lane /\ r \notin ToSet(Lane)
  BY <1>1, LaneFacts DEF Queue!Newest, Queue!Oldest, Lane
<1>4. Listed'
  <2>1. Chained(next, Queue!Newest, Queue!Oldest, head.index)'
    BY DEF QueueInv, Listed, Queue!Newest, Queue!Oldest
  <2>. QED
    BY <1>1, <1>3, <2>1 DEF QueueInv, Listed
<1>5. Queue!TypeOK'
  <2>1. slot' \in [Routes -> Queue!Notices \cup {NoNotice}]
    <3>1. slot' = [slot EXCEPT ![r] = n]
      BY DEF n
    <3>. QED
      BY <1>0, <3>1 DEF QueueInv, Queue!TypeOK, Routes
  <2>. QED
    BY <1>0, <2>1 DEF QueueInv, Queue!TypeOK, Routes
<1>6. SlotsFit'
  BY <1>0, <1>1, <1>2, NoticeFacts DEF QueueInv, SlotsFit
<1>7. OwnerAt'
  <2>1. opc = "free" => oindex \in Routes /\ oindex # r
    BY <1>1, RouteFacts DEF QueueInv, OwnerAt, Queue!TypeOK, Queue!Index
  <2>2. opc = "relink" => Head(retained).route \in Routes /\ Head(retained).route # r
    <3>1. retained \in Seq(Queue!Notices)
      BY DEF QueueInv, Queue!TypeOK
    <3>2. retained # <<>> => Head(retained) \in Queue!Notices
      BY <3>1, HeadTailProperties
    <3>. QED
      BY <1>1, <3>2, RouteFacts DEF QueueInv, OwnerAt
  <2>. QED
    BY <1>1, <2>1, <2>2 DEF QueueInv, OwnerAt
<1>8. Discarding'
  <2>1. token # NoNotice => token.route \in Routes /\ token.gen \in Nat
    BY RouteFacts DEF QueueInv, Queue!TypeOK
  <2>2. token # NoNotice => token.gen <= issued
    BY DEF QueueInv, Discarding
  <2>3. token # NoNotice => n # token
    BY <1>0, <1>2, <2>1, <2>2
  <2>4. \A k \in 1..Len(Lane) : slot'[Lane[k]] = slot[Lane[k]]
    BY <1>1, <1>3, LaneFacts
  <2>5. token # NoNotice => token.gen <= issued'
    BY <1>0, <2>1, <2>2
  <2>. QED
    BY <1>1, <1>3, <2>1, <2>3, <2>4, <2>5 DEF QueueInv, Discarding
<1>9. FifoStep
  BY <1>1, <1>3, LaneFacts, Stutter DEF Queue!Returning
<1>10. Fresh'
  <2>1. \A m \in sent : m.gen \in Nat /\ m.gen <= issued
    BY RouteFacts DEF QueueInv, Queue!TypeOK, Fresh
  <2>2. n \notin sent /\ \A m \in sent : m.gen <= issued'
    BY <1>0, <1>2, <2>1
  <2>3. \A q \in Routes : Queue!Repushing(q)' <=> Queue!Repushing(q)
    BY DEF Queue!Repushing
  <2>. QED
    BY <1>1, <2>2, <2>3 DEF QueueInv, Fresh
<1>11. Counted'
  BY <1>3, CountedStays DEF Queue!Returning
<1>. QED
  BY <1>4, <1>5, <1>6, <1>7, <1>8, <1>9, <1>10, <1>11 DEF QueueInv

\* The exchange at the head links the slot behind all others.
LEMMA LinkFacts ==
  ASSUME QueueInv, NEW r \in Routes, Queue!link(r), slot' = slot,
         Queue!Newest' = Queue!Newest, Queue!Oldest' = Queue!Oldest
  PROVE  /\ Chained(next, Queue!Newest, Queue!Oldest, head.index)'
         /\ Lane' = Append(Lane, r) /\ r \notin ToSet(Lane) /\ slot[r] # NoNotice
         /\ Lane' \in LineOf(Routes) /\ ToSet(Lane') = ToSet(Lane) \cup {r}
         /\ head' \in Queue!Heads /\ next' \in [Routes -> Queue!Index]
         /\ ppc' \in [Routes -> {"idle", "load", "link"}] /\ phead' \in [Routes -> Queue!Heads]
         /\ alarm' = (alarm \/ head.sleeping) /\ ~head'.sleeping /\ head'.index = r
         /\ ppc[r] # "idle" /\ ppc'[r] = "idle" /\ \A q \in Routes : q # r => ppc'[q] = ppc[q]
<1>. USE DEF Queue!link
<1>0. /\ head \in Queue!Heads /\ head.index \in 0..Capacity /\ head.sleeping \in BOOLEAN
      /\ next \in [Routes -> 0..Capacity] /\ ppc \in [Routes -> {"idle", "load", "link"}]
      /\ phead \in [Routes -> Queue!Heads] /\ r \in 0..Capacity
  BY RouteFacts DEF QueueInv, Queue!TypeOK, Queue!Heads, Queue!Index
<1>1. /\ head' = [index |-> r, sleeping |-> FALSE] /\ next' = [next EXCEPT ![r] = head.index]
      /\ phead[r] = head /\ ppc[r] = "link"
  OBVIOUS
<1>2. r \notin ToSet(Lane) /\ slot[r] # NoNotice
  BY <1>1, LaneFacts DEF QueueInv, SlotsFit
<1>3. Chained(next, Queue!Newest, Queue!Oldest, head.index)
  BY DEF QueueInv, Listed
<1>4. /\ Chained(next', Queue!Newest, Queue!Oldest, r)
      /\ List(next', Queue!Newest, Queue!Oldest, r) = Append(Lane, r)
  <2>1. PICK mx : mx = next'
    OBVIOUS
  <2>2. /\ mx[r] = head.index /\ (\A x \in Routes : x # r => mx[x] = next[x])
        /\ r \notin ToSet(List(next, Queue!Newest, Queue!Oldest, head.index))
    BY <1>0, <1>1, <1>2, <2>1 DEF Lane
  <2>3. Chained(mx, Queue!Newest, Queue!Oldest, r) /\ List(mx, Queue!Newest, Queue!Oldest, r) = Append(Lane, r)
    BY <1>0, <1>3, <2>2, ListPush DEF Lane
  <2>. QED
    BY <2>1, <2>3
<1>5. Chained(next, Queue!Newest, Queue!Oldest, head.index)' /\ Lane' = Append(Lane, r)
  <2>1. head'.index = r
    BY <1>1
  <2>. QED
    BY <1>4, <2>1 DEF Lane
<1>6. Append(Lane, r) \in LineOf(Routes) /\ ToSet(Append(Lane, r)) = ToSet(Lane) \cup {r}
  BY <1>2, LaneFacts, JoinLine
<1>7. head' \in Queue!Heads /\ ~head'.sleeping /\ head'.index = r
  BY <1>0, <1>1, RouteFacts DEF Queue!Heads, Queue!Index
<1>8. next' \in [Routes -> Queue!Index]
  BY <1>0, <1>1, RouteFacts DEF Queue!Index
<1>9. ppc' \in [Routes -> {"idle", "load", "link"}] /\ phead' \in [Routes -> Queue!Heads]
  BY <1>0, RouteFacts DEF Queue!NoHead, Queue!Heads, Queue!Index
<1>10. alarm' = (alarm \/ head.sleeping)
  BY <1>1
<1>11. ppc'[r] = "idle" /\ \A q \in Routes : q # r => ppc'[q] = ppc[q]
  BY <1>0
<1>. QED
  BY <1>1, <1>2, <1>5, <1>6, <1>7, <1>8, <1>9, <1>10, <1>11

\* In the FIFO, the notice of the slot comes last.
LEMMA LinkSends ==
  ASSUME QueueInv, NEW r \in Routes, Queue!link(r), slot' = slot,
         Queue!Newest' = Queue!Newest, Queue!Oldest' = Queue!Oldest
  PROVE  /\ Queue!Fifo!Arrive(slot[r]) /\ slot[r] \in Queue!Notices /\ Queue!Queued' # Queue!Queued
         /\ \A k \in DOMAIN Queue!Queued : Queue!Queued[k] # slot[r]
<1>1. /\ Lane' = Append(Lane, r) /\ r \notin ToSet(Lane) /\ slot[r] # NoNotice
      /\ alarm' = (alarm \/ head.sleeping) /\ ~head'.sleeping
      /\ head' \in Queue!Heads
  BY LinkFacts
<1>2. slot[r] \in Queue!Notices /\ slot[r].route = r
  BY <1>1, NoticeFacts
<1>3. Lane \in LineOf(Routes) /\ slot \in [Routes -> Words]
  BY LaneFacts
<1>4. /\ Queue!Queued = Read(Lane, slot) /\ Queue!Queued' = Append(Read(Lane, slot), slot[r])
  <2>1. Read(Append(Lane, r), slot) = Append(Read(Lane, slot), slot[r])
    BY <1>1, <1>3, ReadAppend
  <2>. QED
    BY <1>1, <2>1, QueuedIs
<1>5. /\ Read(Lane, slot) \in Seq(Words) /\ Len(Read(Lane, slot)) = Len(Lane)
      /\ \A k \in 1..Len(Lane) : Read(Lane, slot)[k] = slot[Lane[k]]
  BY <1>3, ReadFacts
<1>6. Queue!Queued' # Queue!Queued
  <2>1. Len(Append(Read(Lane, slot), slot[r])) = Len(Lane) + 1 /\ Len(Lane) \in Nat
    BY <1>3, <1>5, AppendProperties, LaneFacts
  <2>. QED
    BY <1>4, <1>5, <2>1
<1>7. ASSUME NEW k \in DOMAIN Queue!Queued
      PROVE  Queue!Queued[k] # slot[r]
  <2>1. k \in 1..Len(Lane)
    BY <1>4, <1>5, LenProperties
  <2>2. Queue!Queued[k] = slot[Lane[k]] /\ Lane[k] \in Routes /\ Lane[k] # r
    BY <1>1, <1>4, <1>5, <2>1, LaneFacts
  <2>3. slot[Lane[k]] # NoNotice => slot[Lane[k]].route = Lane[k]
    BY <2>2, NoticeFacts
  <2>. QED
    BY <1>1, <1>2, <2>2, <2>3
<1>8. head'.sleeping = FALSE
  BY <1>1 DEF Queue!Heads
<1>9. Queue!Fifo!Arrive(slot[r])
  BY <1>1, <1>4, <1>8 DEF Queue!Fifo!Arrive
<1>. QED
  BY <1>2, <1>6, <1>7, <1>9

\* A publisher links its slot.
LEMMA PushLinkKeeps ==
  ASSUME QueueInv, NEW r \in Routes, Queue!PushLink(r)
  PROVE  QueueInv' /\ FifoStep
<1>. USE DEF Queue!PushLink, Queue!ownerVars
<1>1. /\ Queue!link(r) /\ slot' = slot
      /\ sent' = sent \cup {slot[r]}
      /\ UNCHANGED <<retained, got, opc, oindex, oreversed, consumer, token, left, issued, ohead, ahead>>
  OBVIOUS
<1>2. Queue!Newest' = Queue!Newest /\ Queue!Oldest' = Queue!Oldest
  BY <1>1 DEF Queue!Newest, Queue!Oldest
<1>3. /\ Chained(next, Queue!Newest, Queue!Oldest, head.index)'
      /\ Lane' = Append(Lane, r) /\ r \notin ToSet(Lane) /\ slot[r] # NoNotice
      /\ Lane' \in LineOf(Routes) /\ ToSet(Lane') = ToSet(Lane) \cup {r}
      /\ head' \in Queue!Heads /\ next' \in [Routes -> Queue!Index]
      /\ ppc' \in [Routes -> {"idle", "load", "link"}] /\ phead' \in [Routes -> Queue!Heads]
      /\ alarm' = (alarm \/ head.sleeping) /\ ~head'.sleeping /\ head'.index = r
      /\ ppc[r] # "idle" /\ ppc'[r] = "idle" /\ \A q \in Routes : q # r => ppc'[q] = ppc[q]
  BY <1>1, <1>2, LinkFacts
<1>4. ~(opc = "free" /\ oindex = r)
  BY <1>3 DEF QueueInv, OwnerAt
<1>5. Listed'
  BY <1>1, <1>3, <1>4 DEF QueueInv, Listed
<1>6. Queue!TypeOK'
  <2>1. alarm' \in BOOLEAN
    BY <1>3 DEF QueueInv, Queue!TypeOK, Queue!Heads
  <2>2. slot[r] \in Queue!Notices
    BY <1>3, NoticeFacts
  <2>. QED
    BY <1>1, <1>3, <2>1, <2>2 DEF QueueInv, Queue!TypeOK, Routes
<1>7. SlotsFit'
  BY <1>1, <1>3 DEF QueueInv, SlotsFit
<1>8. OwnerAt'
  <2>1. opc = "free" => oindex \in Routes /\ oindex # r
    BY <1>4, RouteFacts, LaneFacts DEF QueueInv, OwnerAt
  <2>2. opc = "relink" => Head(retained).route \in Routes /\ Head(retained).route # r
    BY NoticeFacts DEF QueueInv, OwnerAt, Queue!Repushing
  <2>3. r # 0
    BY RouteFacts
  <2>4. opc # "swap" \/ head'.index # 0
    BY <1>3, <2>3
  <2>5. ~head'.sleeping
    BY <1>3
  <2>. QED
    BY <1>1, <1>3, <2>1, <2>2, <2>4, <2>5 DEF QueueInv, OwnerAt
<1>9. Discarding'
  <2>1. ASSUME token # NoNotice PROVE slot[r] # token
    BY <1>3, <2>1, NoticeFacts DEF QueueInv, Discarding
  <2>2. /\ Len(Lane') = Len(Lane) + 1 /\ Len(Lane) \in Nat /\ Lane'[Len(Lane) + 1] = r
        /\ \A k \in 1..Len(Lane) : Lane'[k] = Lane[k]
    BY <1>3, LaneFacts, InLine, AppendProperties
  <2>3. \A k \in 1..Len(Lane') : k \in 1..Len(Lane) \/ k = Len(Lane) + 1
    BY <2>2
  <2>4. ASSUME token # NoNotice, opc \notin {"repush", "relink"}
        PROVE  \A k \in 1..Len(Lane') : slot[Lane'[k]] = token => k <= left
    BY <2>1, <2>2, <2>3, <2>4 DEF QueueInv, Discarding
  <2>5. token # NoNotice => token.route \in Routes
    BY NoticeFacts
  <2>. QED
    BY <1>1, <1>3, <2>4, <2>5 DEF QueueInv, Discarding
<1>10. FifoStep
  <2>1. /\ Queue!Fifo!Arrive(slot[r]) /\ slot[r] \in Queue!Notices /\ Queue!Queued' # Queue!Queued
        /\ \A k \in DOMAIN Queue!Queued : Queue!Queued[k] # slot[r]
    BY <1>1, <1>2, LinkSends
  <2>4. slot[r] \notin sent
    BY <1>3 DEF QueueInv, Fresh
  <2>5. Queue!Returning' = Queue!Returning
    BY <1>1 DEF Queue!Returning
  <2>2. Queue!Fifo!Send(slot[r])
    BY <1>1, <2>1, <2>4, <2>5 DEF Queue!Fifo!Send, Queue!Fifo!discardVars
  <2>3. Queue!Fifo!FifoNext
    BY <2>1, <2>2 DEF Queue!Fifo!FifoNext
  <2>. QED
    BY <2>3 DEF FifoStep
<1>11. Fresh'
  <2>1. slot[r].route = r /\ slot[r].gen <= issued
    BY <1>3, NoticeFacts DEF QueueInv, SlotsFit
  <2>2. \A q \in Routes : q # r => slot[q] = NoNotice \/ slot[q].route = q
    BY NoticeFacts
  <2>3. \A q \in Routes : ppc[q] # "idle" => slot[q] # NoNotice
    BY DEF QueueInv, SlotsFit
  <2>4. \A q \in Routes : Queue!Repushing(q)' <=> Queue!Repushing(q)
    BY <1>1 DEF Queue!Repushing
  <2>. QED
    BY <1>1, <1>3, <2>1, <2>2, <2>3, <2>4 DEF QueueInv, Fresh
<1>12. Counted'
  <2>1. Len(Lane') = Len(Lane) + 1 /\ Len(Lane) \in Nat
    BY <1>3, LaneFacts, InLine, AppendProperties
  <2>2. ahead \in Nat
    BY RouteFacts DEF QueueInv, Queue!TypeOK
  <2>3. Queue!Returning' <=> Queue!Returning
    BY <1>1 DEF Queue!Returning
  <2>. QED
    BY <1>1, <2>1, <2>2, <2>3 DEF QueueInv, Counted
<1>. QED
  BY <1>5, <1>6, <1>7, <1>8, <1>9, <1>10, <1>11, <1>12 DEF QueueInv

\* The owner links the slot of a retained notice.
LEMMA RelinkKeeps ==
  ASSUME QueueInv, Queue!Relink
  PROVE  QueueInv' /\ FifoStep
<1>. USE DEF Queue!Relink
<1>. DEFINE r == Head(retained).route
<1>0. /\ opc = "relink" /\ opc' = "repush" /\ retained # <<>> /\ r \in Routes /\ slot[r] = Head(retained)
      /\ token # NoNotice
  BY NoticeFacts DEF QueueInv, OwnerAt
<1>1. /\ Queue!link(r) /\ slot' = slot /\ retained' = Tail(retained)
      /\ UNCHANGED <<got, oindex, oreversed, consumer, token, left, issued, ohead, sent, ahead>>
  OBVIOUS
<1>. HIDE DEF r
<1>2. Queue!Newest' = Queue!Newest /\ Queue!Oldest' = Queue!Oldest
  BY <1>0, <1>1 DEF Queue!Newest, Queue!Oldest
<1>3. /\ Chained(next, Queue!Newest, Queue!Oldest, head.index)'
      /\ Lane' = Append(Lane, r) /\ r \notin ToSet(Lane) /\ slot[r] # NoNotice
      /\ Lane' \in LineOf(Routes) /\ ToSet(Lane') = ToSet(Lane) \cup {r}
      /\ head' \in Queue!Heads /\ next' \in [Routes -> Queue!Index]
      /\ ppc' \in [Routes -> {"idle", "load", "link"}] /\ phead' \in [Routes -> Queue!Heads]
      /\ alarm' = (alarm \/ head.sleeping) /\ ~head'.sleeping /\ head'.index = r
      /\ ppc[r] # "idle" /\ ppc'[r] = "idle" /\ \A q \in Routes : q # r => ppc'[q] = ppc[q]
  BY <1>0, <1>1, <1>2, LinkFacts
<1>4. Tail(retained) \in Seq(Queue!Notices) /\ ToSet(Tail(retained)) \subseteq ToSet(retained)
  BY <1>0, NoticeFacts
<1>5. Listed'
  BY <1>0, <1>1, <1>3 DEF QueueInv, Listed
<1>6. Queue!TypeOK'
  <2>1. alarm' \in BOOLEAN
    BY <1>3 DEF QueueInv, Queue!TypeOK, Queue!Heads
  <2>. QED
    BY <1>0, <1>1, <1>3, <1>4, <2>1 DEF QueueInv, Queue!TypeOK, Routes
<1>7. SlotsFit'
  BY <1>1, <1>3, <1>4 DEF QueueInv, SlotsFit
<1>8. OwnerAt'
  BY <1>0, <1>1, <1>3 DEF QueueInv, OwnerAt
<1>9. Discarding'
  <2>1. token.route \in Routes
    BY <1>0, NoticeFacts
  <2>. QED
    BY <1>0, <1>1, <1>3, <1>4, <2>1 DEF QueueInv, Discarding
<1>10. FifoStep
  <2>1. Queue!Fifo!Arrive(Head(retained))
    BY <1>0, <1>1, <1>2, LinkSends
  <2>2. Queue!Fifo!FifoNext
    BY <1>0, <1>1, <2>1 DEF Queue!Fifo!FifoNext, Queue!Fifo!PutBack, Queue!Returning
  <2>. QED
    BY <2>2 DEF FifoStep
<1>11. Fresh'
  <2>1. \A q \in Routes : ppc'[q] # "idle" => q # r /\ ~Queue!Repushing(q)
    BY <1>3 DEF Queue!Repushing, r
  <2>. QED
    BY <1>1, <1>3, <2>1 DEF QueueInv, Fresh
<1>12. Counted'
  <2>1. Queue!Returning /\ Queue!Returning' /\ ahead = 0
    BY <1>0 DEF QueueInv, Counted, Queue!Returning
  <2>2. Len(Lane') \in Nat
    BY <1>3, InLine
  <2>. QED
    BY <1>0, <1>1, <2>1, <2>2 DEF Counted
<1>. QED
  BY <1>5, <1>6, <1>7, <1>8, <1>9, <1>10, <1>11, <1>12 DEF QueueInv

-----------------------------------------------------------------------------
(* pop *)

\* pop looks at the consumer, then at the head.
LEMMA PopProbeKeeps ==
  ASSUME QueueInv, Queue!PopProbe
  PROVE  QueueInv' /\ FifoStep
<1>. USE DEF Queue!PopProbe, Queue!queueVars, Queue!pushVars, Queue!history
<1>1. /\ opc \in {"run", "discard"} /\ opc' \in {"take", "swap"}
      /\ opc' = "take" => consumer # 0 /\ oindex' = consumer
      /\ opc' = "swap" => consumer = 0 /\ head.index # 0 /\ oindex' = oindex
      /\ token # NoNotice => left > 0
  BY DEF QueueInv, OwnerAt
<1>2. Queue!Newest' = Queue!Newest /\ Queue!Oldest' = Queue!Oldest
  BY <1>1 DEF Queue!Newest, Queue!Oldest
<1>3. Listed' /\ Lane' = Lane
  BY <1>1, <1>2, ListStays
<1>4. Queue!TypeOK'
  BY <1>1 DEF QueueInv, Queue!TypeOK
<1>5. SlotsFit'
  BY DEF QueueInv, SlotsFit
<1>6. OwnerAt'
  BY <1>1 DEF QueueInv, OwnerAt
<1>7. Discarding'
  BY <1>1, <1>3 DEF QueueInv, Discarding
<1>8. FifoStep
  BY <1>1, <1>3, Stutter DEF Queue!Returning
<1>9. Fresh'
  BY <1>1, FreshStays, NoticeFacts
<1>10. Counted'
  BY <1>1, <1>3, CountedStays DEF Queue!Returning
<1>. QED
  BY <1>3, <1>4, <1>5, <1>6, <1>7, <1>8, <1>9, <1>10 DEF QueueInv

\* The stack at the head becomes the batch to walk.
LEMMA PopSwapKeeps ==
  ASSUME QueueInv, Queue!PopSwap
  PROVE  QueueInv' /\ FifoStep
<1>. USE DEF Queue!PopSwap, Queue!pushVars, Queue!history
<1>1. /\ opc = "swap" /\ consumer = 0 /\ consumer' = 0 /\ head.index # 0 /\ ~head.sleeping
      /\ oindex' = head.index /\ oreversed' = 0
      /\ opc' = IF next[head.index] # 0 THEN "reverse" ELSE "take"
      /\ UNCHANGED <<next, slot, ppc, issued, phead, ohead, token, left, retained, alarm, got>>
  BY DEF QueueInv, OwnerAt
<1>2. head' \in Queue!Heads /\ head'.index = 0 /\ ~head'.sleeping
  BY RouteFacts DEF Queue!NoHead, Queue!Heads, Queue!Index
<1>3. Queue!Newest = 0 /\ Queue!Oldest = 0
  BY <1>1 DEF Queue!Newest, Queue!Oldest
<1>4. Chained(next, 0, 0, head.index) /\ Lane = List(next, 0, 0, head.index)
  BY <1>3 DEF QueueInv, Listed, Lane
<1>5. /\ Chained(next, head.index, 0, 0) /\ List(next, head.index, 0, 0) = Lane
      /\ next[head.index] = 0 => Chained(next, 0, head.index, 0) /\ List(next, 0, head.index, 0) = Lane
  BY <1>1, <1>4, ListSwap
<1>6. Chained(next, Queue!Newest, Queue!Oldest, head.index)' /\ Lane' = Lane
  <2>1. CASE next[head.index] = 0
    <3>1. Queue!Newest' = 0 /\ Queue!Oldest' = head.index
      BY <1>1, <2>1 DEF Queue!Newest, Queue!Oldest
    <3>. QED
      BY <1>1, <1>2, <1>5, <2>1, <3>1 DEF Lane
  <2>2. CASE next[head.index] # 0
    <3>1. Queue!Newest' = head.index /\ Queue!Oldest' = 0
      BY <1>1, <2>2 DEF Queue!Newest, Queue!Oldest
    <3>. QED
      BY <1>1, <1>2, <1>5, <3>1 DEF Lane
  <2>. QED
    BY <2>1, <2>2
<1>7. Listed'
  BY <1>1, <1>6 DEF QueueInv, Listed
<1>8. Queue!TypeOK'
  <2>1. oindex' \in Queue!Index /\ oreversed' \in Queue!Index
    BY <1>1, LaneFacts, RouteFacts DEF Queue!Index
  <2>. QED
    BY <1>1, <1>2, <2>1 DEF QueueInv, Queue!TypeOK
<1>9. SlotsFit'
  BY <1>1 DEF QueueInv, SlotsFit
<1>10. OwnerAt'
  BY <1>1, <1>2 DEF QueueInv, OwnerAt
<1>11. Discarding'
  BY <1>1, <1>6 DEF QueueInv, Discarding
<1>12. FifoStep
  <2>1. head.sleeping \in BOOLEAN /\ head'.sleeping \in BOOLEAN
    BY <1>2 DEF QueueInv, Queue!TypeOK, Queue!Heads
  <2>2. head'.sleeping = head.sleeping
    BY <1>1, <1>2, <2>1
  <2>. QED
    BY <1>1, <1>6, <2>2, Stutter DEF Queue!Returning
<1>13. Fresh'
  BY <1>1, FreshStays, NoticeFacts
<1>14. Counted'
  BY <1>1, <1>6, CountedStays DEF Queue!Returning
<1>. QED
  BY <1>7, <1>8, <1>9, <1>10, <1>11, <1>12, <1>13, <1>14 DEF QueueInv

\* One round of reverse.
LEMMA ReverseKeeps ==
  ASSUME QueueInv, Queue!ReverseStep
  PROVE  QueueInv' /\ FifoStep
<1>. USE DEF Queue!ReverseStep, Queue!pushVars, Queue!history
<1>1. /\ opc = "reverse" /\ consumer = 0 /\ consumer' = 0 /\ oindex # 0 /\ oindex \in 0..Capacity
      /\ oreversed \in 0..Capacity /\ next \in [Routes -> 0..Capacity]
      /\ next' = [next EXCEPT ![oindex] = oreversed] /\ oreversed' = oindex
      /\ oindex' = (IF next[oindex] = 0 THEN oindex ELSE next[oindex])
      /\ opc' = (IF next[oindex] = 0 THEN "take" ELSE "reverse")
      /\ UNCHANGED <<head, slot, ppc, issued, phead, ohead, token, left, retained, alarm, got>>
  BY LaneFacts DEF QueueInv, OwnerAt
<1>2. oindex \in Routes /\ next[oindex] \in 0..Capacity
  BY <1>1, RouteFacts
<1>3. Queue!Newest = oindex /\ Queue!Oldest = oreversed
  BY <1>1 DEF Queue!Newest, Queue!Oldest
<1>4. Queue!Newest' = next[oindex] /\ Queue!Oldest' = oindex
  <2>1. CASE next[oindex] = 0
    BY <1>1, <2>1 DEF Queue!Newest, Queue!Oldest
  <2>2. CASE next[oindex] # 0
    BY <1>1, <2>2 DEF Queue!Newest, Queue!Oldest
  <2>. QED
    BY <2>1, <2>2
<1>5. Chained(next, oindex, oreversed, head.index) /\ Lane = List(next, oindex, oreversed, head.index)
  BY <1>3 DEF QueueInv, Listed, Lane
<1>6. /\ Chained(next', next[oindex], oindex, head.index)
      /\ List(next', next[oindex], oindex, head.index) = Lane
  <2>1. PICK mx : mx = next'
    OBVIOUS
  <2>2. mx[oindex] = oreversed /\ \A x \in Routes : x # oindex => mx[x] = next[x]
    BY <1>1, <1>2, <2>1
  <2>3. /\ Chained(mx, next[oindex], oindex, head.index)
        /\ List(mx, next[oindex], oindex, head.index) = Lane
    BY <1>1, <1>5, <2>2, ListTurn
  <2>. QED
    BY <2>1, <2>3
<1>7. Chained(next, Queue!Newest, Queue!Oldest, head.index)' /\ Lane' = Lane
  BY <1>1, <1>4, <1>6 DEF Lane
<1>8. Listed'
  BY <1>1, <1>7 DEF QueueInv, Listed
<1>9. Queue!TypeOK'
  <2>1. oindex' \in Queue!Index /\ oreversed' \in Queue!Index /\ next' \in [Routes -> Queue!Index]
    BY <1>1, <1>2, RouteFacts DEF Queue!Index
  <2>. QED
    BY <1>1, <2>1 DEF QueueInv, Queue!TypeOK, Routes
<1>10. SlotsFit'
  BY <1>1 DEF QueueInv, SlotsFit
<1>11. OwnerAt'
  BY <1>1 DEF QueueInv, OwnerAt
<1>12. Discarding'
  BY <1>1, <1>7 DEF QueueInv, Discarding
<1>13. FifoStep
  BY <1>1, <1>7, Stutter DEF Queue!Returning
<1>14. Fresh'
  BY <1>1, FreshStays, NoticeFacts
<1>15. Counted'
  BY <1>1, <1>7, CountedStays DEF Queue!Returning
<1>. QED
  BY <1>8, <1>9, <1>10, <1>11, <1>12, <1>13, <1>14, <1>15 DEF QueueInv

\* The slot that pop takes is the first of the list.
LEMMA TakeFacts ==
  ASSUME QueueInv, Queue!PopTake
  PROVE  /\ opc = "take" /\ opc' = "free" /\ oindex \in Routes /\ oindex \in ToSet(Lane)
         /\ slot[oindex] \in Queue!Notices /\ slot[oindex] # NoNotice /\ ppc[oindex] = "idle"
         /\ Chained(next, Queue!Newest, Queue!Oldest, head.index)'
         /\ Lane # <<>> /\ Head(Lane) = oindex /\ Lane' = Tail(Lane)
         /\ ToSet(Lane') = ToSet(Lane) \ {oindex} /\ Len(Lane') = Len(Lane) - 1
         /\ \A k \in 1..Len(Lane') : Lane'[k] = Lane[k + 1] /\ k + 1 \in 1..Len(Lane)
<1>. USE DEF Queue!PopTake
<1>1. opc = "take" /\ opc' = "free" /\ oindex # 0 /\ consumer \in {0, oindex} /\ consumer' = next[oindex]
      /\ UNCHANGED <<head, next>>
  BY DEF QueueInv, OwnerAt
<1>2. Queue!Newest = 0 /\ Queue!Oldest = oindex /\ Queue!Newest' = 0 /\ Queue!Oldest' = next[oindex]
  BY <1>1 DEF Queue!Newest, Queue!Oldest
<1>3. Chained(next, 0, oindex, head.index) /\ Lane = List(next, 0, oindex, head.index)
  BY <1>2 DEF QueueInv, Listed, Lane
<1>4. /\ Chained(next, 0, next[oindex], head.index) /\ Lane # <<>> /\ Head(Lane) = oindex
      /\ List(next, 0, next[oindex], head.index) = Tail(Lane)
  BY <1>1, <1>3, ListTake
<1>5. Chained(next, Queue!Newest, Queue!Oldest, head.index)' /\ Lane' = Tail(Lane)
  BY <1>1, <1>2, <1>4 DEF Lane
<1>6. Lane \in LineOf(Routes)
  BY LaneFacts
<1>7. /\ oindex \in Routes /\ oindex \in ToSet(Lane) /\ ToSet(Tail(Lane)) = ToSet(Lane) \ {oindex}
      /\ Len(Lane) \in Nat \ {0} /\ Len(Tail(Lane)) = Len(Lane) - 1
      /\ \A k \in 1..(Len(Lane) - 1) : Tail(Lane)[k] = Lane[k + 1]
  BY <1>4, <1>6, ServeLine
<1>8. slot[oindex] # NoNotice /\ ppc[oindex] = "idle" /\ slot[oindex] \in Queue!Notices
  BY <1>7, LaneFacts, NoticeFacts
<1>. QED
  BY <1>1, <1>4, <1>5, <1>7, <1>8

\* In the FIFO, the oldest notice is delivered or set aside.
LEMMA TakeServes ==
  ASSUME QueueInv, Queue!PopTake
  PROVE  FifoStep
<1>. USE DEF Queue!PopTake
<1>1. /\ opc = "take" /\ slot[oindex] # NoNotice /\ Lane # <<>> /\ Head(Lane) = oindex /\ Lane' = Tail(Lane)
  BY TakeFacts
<1>2. Lane \in LineOf(Routes) /\ slot \in [Routes -> Words]
  BY LaneFacts
<1>3. /\ Queue!Queued # <<>> /\ Head(Queue!Queued) = slot[oindex]
      /\ Queue!Queued' = Tail(Queue!Queued)
  <2>1. /\ Read(Lane, slot) # <<>> /\ Head(Read(Lane, slot)) = slot[Head(Lane)]
        /\ Read(Tail(Lane), slot) = Tail(Read(Lane, slot))
    BY <1>1, <1>2, ReadTail
  <2>. QED
    BY <1>1, <2>1, QueuedIs
<1>6. ~Queue!Returning /\ Queue!Returning' = Queue!Returning
  BY <1>1 DEF Queue!Returning, Queue!PopTake
<1>4. CASE token = NoNotice
  <2>1. got = NoNotice /\ got' = slot[oindex] /\ UNCHANGED <<retained, head, alarm>>
    BY <1>1, <1>4 DEF QueueInv, OwnerAt
  <2>3. UNCHANGED <<sent, token, ahead>>
    BY <1>4 DEF QueueInv, Counted
  <2>2. Queue!Fifo!Deliver
    BY <1>1, <1>3, <1>4, <1>6, <2>1, <2>3 DEF Queue!Fifo!Deliver, Queue!Fifo!discardVars
  <2>. QED
    BY <2>2 DEF FifoStep, Queue!Fifo!FifoNext
<1>5. CASE token # NoNotice
  <2>1. /\ UNCHANGED <<got, head, alarm>>
        /\ retained' = IF slot[oindex] = token THEN retained ELSE Append(retained, slot[oindex])
    BY <1>5
  <2>2. Queue!Fifo!Sift
    BY <1>3, <1>5, <1>6, <2>1 DEF Queue!Fifo!Sift
  <2>. QED
    BY <2>2 DEF FifoStep, Queue!Fifo!FifoNext
<1>. QED
  BY <1>4, <1>5

\* What is in a sequence with one more at its end.
LEMMA SetAside ==
  ASSUME NEW T, NEW s \in Seq(T), NEW x \in T
  PROVE  Append(s, x) \in Seq(T) /\ ToSet(Append(s, x)) \subseteq ToSet(s) \cup {x}
<1>1. /\ Append(s, x) \in Seq(T) /\ Len(Append(s, x)) = Len(s) + 1 /\ Append(s, x)[Len(s) + 1] = x
      /\ Len(s) \in Nat /\ \A k \in 1..Len(s) : Append(s, x)[k] = s[k]
  BY AppendProperties, LenProperties
<1>2. /\ \A y \in ToSet(Append(s, x)) : \E k \in 1..(Len(s) + 1) : Append(s, x)[k] = y
      /\ \A k \in 1..Len(s) : s[k] \in ToSet(s)
  BY <1>1, LenProperties DEF ToSet
<1>3. \A k \in 1..(Len(s) + 1) : k \in 1..Len(s) \/ k = Len(s) + 1
  BY <1>1
<1>. QED
  BY <1>1, <1>2, <1>3

\* pop moves the consumer on and reads the notice.
LEMMA PopTakeKeeps ==
  ASSUME QueueInv, Queue!PopTake
  PROVE  QueueInv' /\ FifoStep
<1>. USE DEF Queue!PopTake
<1>1. /\ opc = "take" /\ opc' = "free" /\ oindex \in Routes /\ oindex \in ToSet(Lane)
      /\ slot[oindex] \in Queue!Notices /\ slot[oindex] # NoNotice /\ ppc[oindex] = "idle"
      /\ Chained(next, Queue!Newest, Queue!Oldest, head.index)'
      /\ ToSet(Lane') = ToSet(Lane) \ {oindex} /\ Len(Lane') = Len(Lane) - 1
      /\ \A k \in 1..Len(Lane') : Lane'[k] = Lane[k + 1] /\ k + 1 \in 1..Len(Lane)
  BY TakeFacts
<1>2. UNCHANGED <<head, next, slot, issued, ppc, phead, oindex, ohead, token, alarm>>
  BY DEF Queue!pushVars
<1>3. Listed'
  BY <1>1, <1>2 DEF QueueInv, Listed
<1>4. token # NoNotice => left > 0
  BY <1>1 DEF QueueInv, OwnerAt
<1>5. /\ got' \in Queue!Notices \cup {NoNotice} /\ retained' \in Seq(Queue!Notices) /\ left' \in 0..Capacity
      /\ ToSet(retained') \subseteq ToSet(retained) \cup {slot[oindex]}
      /\ token # NoNotice => left' = left - 1 /\ got' = got
      /\ token = NoNotice => left' = left /\ got' = slot[oindex] /\ retained' = retained
  <2>1. got \in Queue!Notices \cup {NoNotice} /\ retained \in Seq(Queue!Notices) /\ left \in 0..Capacity
        /\ Capacity \in Nat
    BY RouteFacts DEF QueueInv, Queue!TypeOK
  <2>2. /\ Append(retained, slot[oindex]) \in Seq(Queue!Notices)
        /\ ToSet(Append(retained, slot[oindex])) \subseteq ToSet(retained) \cup {slot[oindex]}
    BY <1>1, <2>1, SetAside
  <2>3. CASE token = NoNotice
    BY <1>1, <2>1, <2>3
  <2>4. CASE token # NoNotice
    <3>1. /\ got' = got /\ left' = left - 1
          /\ retained' \in {retained, Append(retained, slot[oindex])}
      BY <2>4
    <3>2. left' \in 0..Capacity
      BY <1>4, <2>1, <2>4, <3>1
    <3>. QED
      BY <2>1, <2>2, <2>4, <3>1, <3>2
  <2>. QED
    BY <2>3, <2>4
<1>6. Queue!TypeOK'
  <2>1. consumer' \in Queue!Index /\ oreversed' \in Queue!Index
    BY <1>1, LaneFacts, RouteFacts DEF Queue!Index
  <2>2. ahead' \in 0..Capacity /\ sent' = sent
    BY RouteFacts DEF QueueInv, Queue!TypeOK
  <2>. QED
    BY <1>1, <1>2, <1>5, <2>1, <2>2 DEF QueueInv, Queue!TypeOK
<1>7. SlotsFit'
  BY <1>1, <1>2, <1>5 DEF QueueInv, SlotsFit
<1>8. OwnerAt'
  <2>1. oindex # 0
    BY <1>1, RouteFacts
  <2>. QED
    BY <1>1, <1>2, <1>5, <2>1 DEF QueueInv, OwnerAt
<1>9. Discarding'
  <2>1. ASSUME token # NoNotice PROVE token \notin ToSet(retained')
    <3>1. token \notin ToSet(retained)
      BY <2>1 DEF QueueInv, Discarding
    <3>2. CASE slot[oindex] = token
      BY <2>1, <3>1, <3>2
    <3>3. CASE slot[oindex] # token
      BY <1>5, <3>1, <3>3
    <3>. QED
      BY <3>2, <3>3
  <2>2. ASSUME token # NoNotice, NEW k \in 1..Len(Lane'), slot[Lane'[k]] = token
        PROVE  k <= left'
    <3>1. slot[Lane[k + 1]] = token /\ k + 1 \in 1..Len(Lane)
      BY <1>1, <2>2
    <3>2. k + 1 <= left
      BY <1>1, <2>2, <3>1 DEF QueueInv, Discarding
    <3>. QED
      BY <1>5, <2>2, <3>2, NoticeFacts, LaneFacts, <1>1
  <2>. QED
    BY <1>1, <1>2, <2>1, <2>2 DEF QueueInv, Discarding
<1>10. FifoStep
  BY TakeServes
<1>11. Fresh'
  <2>1. \A r \in Routes : ~Queue!Repushing(r)
    BY <1>1 DEF Queue!Repushing
  <2>. QED
    BY <1>2, <2>1 DEF QueueInv, Fresh
<1>12. Counted'
  <2>1. ahead \in Nat /\ Len(Lane) \in Nat /\ left \in Nat
    BY LaneFacts, NoticeFacts, RouteFacts DEF QueueInv, Queue!TypeOK
  <2>2. ahead' = (IF ahead = 0 THEN 0 ELSE ahead - 1) /\ ahead <= Len(Lane)
    BY DEF QueueInv, Counted
  <2>3. ~Queue!Returning /\ ~Queue!Returning'
    BY <1>1 DEF Queue!Returning
  <2>6. Len(Lane) > 0
    <3>1. \E k \in 1..Len(Lane) : Lane[k] = oindex
      BY <1>1, LaneFacts, InLine
    <3>. QED
      BY <2>1, <3>1
  <2>4. token # NoNotice => ahead <= left /\ left' = left - 1 /\ left > 0
    BY <1>4, <1>5, <2>3 DEF QueueInv, Counted
  <2>5. token = NoNotice => ahead' = 0
    BY <2>2 DEF QueueInv, Counted
  <2>. QED
    BY <1>1, <1>2, <2>1, <2>2, <2>3, <2>4, <2>5, <2>6 DEF Counted
<1>. QED
  BY <1>3, <1>6, <1>7, <1>8, <1>9, <1>10, <1>11, <1>12 DEF QueueInv

\* The slot goes back to its route.
LEMMA PopFreeKeeps ==
  ASSUME QueueInv, Queue!PopFree
  PROVE  QueueInv' /\ FifoStep
<1>. USE DEF Queue!PopFree, Queue!pushVars, Queue!history
<1>1. /\ opc = "free" /\ oindex \in Routes /\ ppc[oindex] = "idle" /\ slot[oindex] # NoNotice
      /\ opc' = IF token = NoNotice THEN "run" ELSE "discard"
      /\ oindex' = 0 /\ got' = NoNotice
      /\ UNCHANGED <<head, consumer, next, issued, ppc, phead, oreversed, ohead, token, left, retained, alarm>>
  BY LaneFacts, RouteFacts DEF QueueInv, OwnerAt
<1>2. /\ slot \in [Routes -> Words]
      /\ slot'[oindex] = NoNotice /\ \A x \in Routes : x # oindex => slot'[x] = slot[x]
  BY <1>1, LaneFacts
<1>3. Lane' = Lane /\ Chained(next, Queue!Newest, Queue!Oldest, head.index)'
  <2>1. Queue!Newest' = Queue!Newest /\ Queue!Oldest' = Queue!Oldest
    BY <1>1 DEF Queue!Newest, Queue!Oldest
  <2>. QED
    BY <1>1, <2>1 DEF QueueInv, Listed, Lane
<1>4. oindex \notin ToSet(Lane) /\ \A x \in ToSet(Lane) : x \in Routes => slot'[x] = slot[x]
  BY <1>1, <1>2, LaneFacts
<1>5. Listed'
  <2>1. \A r \in Routes : r \in ToSet(Lane) <=>
          slot'[r] # NoNotice /\ ppc[r] = "idle" /\ ~(opc' = "free" /\ oindex' = r)
    BY <1>1, <1>2, <1>4, LaneFacts
  <2>. QED
    BY <1>1, <1>3, <2>1 DEF Listed
<1>6. Queue!TypeOK'
  <2>1. slot' \in [Routes -> Words] /\ 0 \in Queue!Index
    <3>1. slot' = [slot EXCEPT ![oindex] = NoNotice] /\ NoNotice \in Words
      BY DEF Words
    <3>. QED
      BY <1>1, <1>2, <3>1, RouteFacts DEF Queue!Index
  <2>. QED
    BY <1>1, <2>1, RouteFacts DEF QueueInv, Queue!TypeOK, Words
<1>7. SlotsFit'
  BY <1>1, <1>2 DEF QueueInv, SlotsFit
<1>8. OwnerAt'
  BY <1>1 DEF QueueInv, OwnerAt
<1>9. Discarding'
  <2>1. \A k \in 1..Len(Lane) : slot'[Lane[k]] = slot[Lane[k]]
    BY <1>4, LaneFacts
  <2>2. token # NoNotice => token.route \in Routes
    BY NoticeFacts
  <2>3. ASSUME token # NoNotice, slot'[token.route] = token PROVE ppc[token.route] = "idle"
    BY <1>1, <1>2, <2>2, <2>3 DEF QueueInv, Discarding
  <2>. QED
    BY <1>1, <1>3, <2>1, <2>2, <2>3 DEF QueueInv, Discarding
<1>10. FifoStep
  <2>1. Read(Lane, slot') = Read(Lane, slot)
    <3>1. Lane \in LineOf(Routes) /\ \A x \in ToSet(Lane) : x \in Routes
      BY LaneFacts, InLine
    <3>. QED
      BY <1>4, <3>1, ReadElsewhere
  <2>2. Queue!Queued' = Queue!Queued
    BY <1>3, <2>1, QueuedIs
  <2>. QED
    BY <1>1, <2>2 DEF FifoStep, Queue!Fifo!FifoNext, Queue!Fifo!Delivered, Queue!Fifo!discardVars, Queue!Returning
<1>11. Fresh'
  <2>1. \A r \in Routes : ~Queue!Repushing(r)
    BY <1>1 DEF Queue!Repushing
  <2>2. \A r \in Routes : ppc[r] # "idle" => slot'[r] = slot[r]
    BY <1>1, <1>2
  <2>. QED
    BY <1>1, <2>1, <2>2 DEF QueueInv, Fresh
<1>12. Counted'
  BY <1>1, <1>3, CountedStays DEF Queue!Returning
<1>. QED
  BY <1>5, <1>6, <1>7, <1>8, <1>9, <1>10, <1>11, <1>12 DEF QueueInv

-----------------------------------------------------------------------------
(* discard_notice *)

\* Cardinality means the same inside the instance.
LEMMA QueueSizes == \A S : Queue!Cardinality(S) = Cardinality(S)
BY DEF Queue!Cardinality, Cardinality

\* Every linked slot counts as pending.
LEMMA PendingCovers ==
  ASSUME QueueInv
  PROVE  Queue!pending \in 0..Capacity /\ Len(Lane) <= Queue!pending
<1>. DEFINE P == {r \in Routes : slot[r] # NoNotice}
<1>1. Capacity \in Nat /\ Routes = 1..Capacity /\ Routes = Queue!Routes
  BY RouteFacts
<1>2. IsFiniteSet(Routes) /\ Cardinality(Routes) = Capacity
  <2>1. IsFiniteSet(1..Capacity) /\ Cardinality(1..Capacity) = IF 1 > Capacity THEN 0 ELSE Capacity - 1 + 1
    BY <1>1, FS_Interval
  <2>. QED
    BY <1>1, <2>1
<1>3. IsFiniteSet(P) /\ Cardinality(P) <= Capacity /\ Cardinality(P) \in Nat
  <2>1. P \in SUBSET Routes
    OBVIOUS
  <2>. HIDE DEF P
  <2>. QED
    BY <1>2, <2>1, FS_Subset, FS_CardinalityType
<1>4. Lane \in LineOf(Routes) /\ ToSet(Lane) \subseteq P
  BY LaneFacts, InLine
<1>. HIDE DEF P
<1>5. Cardinality(ToSet(Lane)) = Len(Lane) /\ Cardinality(ToSet(Lane)) <= Cardinality(P)
  BY <1>3, <1>4, LineSize, FS_Subset
<1>6. Queue!pending = Cardinality(P)
  BY <1>1, QueueSizes DEF Queue!pending, P
<1>. QED
  BY <1>1, <1>3, <1>5, <1>6

\* discard_notice counts what is pending.
LEMMA DiscardBeginKeeps ==
  ASSUME QueueInv, NEW n \in Queue!Notices, Queue!DiscardBegin(n)
  PROVE  QueueInv' /\ FifoStep
<1>. USE DEF Queue!DiscardBegin, Queue!queueVars, Queue!pushVars
<1>1. /\ opc = "run" /\ opc' = "discard" /\ token' = n /\ left' = Queue!pending /\ n # NoNotice
      /\ retained = <<>> /\ ahead' = Len(Queue!Queued)
  BY RouteFacts DEF QueueInv, OwnerAt
<1>2. Queue!Newest' = Queue!Newest /\ Queue!Oldest' = Queue!Oldest
  BY <1>1 DEF Queue!Newest, Queue!Oldest
<1>3. Listed' /\ Lane' = Lane
  BY <1>1, <1>2, ListStays
<1>0. Len(Queue!Queued) = Len(Lane) /\ Len(Lane) \in Nat /\ Len(Lane) <= Queue!pending
      /\ Queue!pending \in 0..Capacity
  BY LaneFacts, QueuedIs, ReadFacts, PendingCovers
<1>4. Queue!TypeOK'
  <2>1. ahead' \in 0..Capacity
    BY <1>0, <1>1, RouteFacts
  <2>. QED
    BY <1>0, <1>1, <2>1 DEF QueueInv, Queue!TypeOK
<1>5. SlotsFit'
  BY DEF QueueInv, SlotsFit
<1>6. OwnerAt'
  BY <1>1 DEF QueueInv, OwnerAt
<1>7. Discarding'
  <2>1. n.route \in Routes /\ n.gen \in Nat /\ n.gen <= issued
    <3>1. CASE slot[n.route] = n
      BY <1>1, <3>1, RouteFacts DEF QueueInv, SlotsFit
    <3>2. CASE slot[n.route] # n
      <4>1. n.gen = 1 /\ issued > 0 /\ issued \in Nat
        BY <3>2, NoticeFacts
      <4>. QED
        BY <4>1, RouteFacts
    <3>. QED
      BY <3>1, <3>2
  <2>2. slot[n.route] = n => ppc[n.route] = "idle"
    OBVIOUS
  <2>3. ToSet(retained) = {}
    BY <1>1, NobodyInLine
  <2>4. \A k \in 1..Len(Lane) : k <= left'
    BY <1>1, PendingCovers, LaneFacts
  <2>. QED
    BY <1>1, <1>3, <2>1, <2>2, <2>3, <2>4 DEF Discarding
<1>8. FifoStep
  <2>1. Queue!Queued' = Queue!Queued
    BY <1>3, QueuedIs
  <2>2. token = NoNotice /\ Queue!Returning' = Queue!Returning
    BY <1>1 DEF QueueInv, OwnerAt, Queue!Returning
  <2>3. Queue!Fifo!Begin
    BY <1>1, <2>1, <2>2 DEF Queue!Fifo!Begin
  <2>. QED
    BY <2>3 DEF FifoStep, Queue!Fifo!FifoNext
<1>9. Fresh'
  BY <1>1, FreshStays, NoticeFacts
<1>10. Counted'
  BY <1>0, <1>1, <1>3 DEF Counted, Queue!Returning
<1>. QED
  BY <1>3, <1>4, <1>5, <1>6, <1>7, <1>8, <1>9, <1>10 DEF QueueInv

\* The pops end when all are made or nothing is linked.
LEMMA DiscardStopKeeps ==
  ASSUME QueueInv, Queue!DiscardStop
  PROVE  QueueInv' /\ FifoStep
<1>. USE DEF Queue!DiscardStop, Queue!queueVars, Queue!pushVars, Queue!history
<1>1. opc = "discard" /\ opc' = "repush" /\ token # NoNotice
  BY DEF QueueInv, OwnerAt
<1>2. Queue!Newest' = Queue!Newest /\ Queue!Oldest' = Queue!Oldest
  BY <1>1 DEF Queue!Newest, Queue!Oldest
<1>3. Listed' /\ Lane' = Lane
  BY <1>1, <1>2, ListStays
<1>4. slot[token.route] # token
  <2>1. SUFFICES ASSUME slot[token.route] = token PROVE FALSE
    OBVIOUS
  <2>2. token.route \in Routes /\ token.route \in ToSet(Lane)
    BY <1>1, <2>1, LaneFacts, NoticeFacts DEF QueueInv, Discarding
  <2>3. PICK k \in 1..Len(Lane) : Lane[k] = token.route
    BY <2>2, LaneFacts, InLine
  <2>4. k <= left
    BY <1>1, <2>1, <2>3 DEF QueueInv, Discarding
  <2>5. left # 0
    BY <2>3, <2>4, LaneFacts
  <2>6. consumer = 0 /\ head.index = 0
    BY <2>5
  <2>7. Queue!Newest = 0 /\ Queue!Oldest = 0
    BY <1>1, <2>6 DEF Queue!Newest, Queue!Oldest
  <2>8. Lane = <<>>
    BY <2>6, <2>7, ListNone DEF Lane
  <2>9. ToSet(Lane) = {}
    BY <2>8, NobodyInLine
  <2>. QED
    BY <2>2, <2>9
<1>5. Queue!TypeOK'
  BY <1>1 DEF QueueInv, Queue!TypeOK
<1>6. SlotsFit'
  BY DEF QueueInv, SlotsFit
<1>7. OwnerAt'
  BY <1>1 DEF QueueInv, OwnerAt
<1>8. Discarding'
  BY <1>1, <1>3, <1>4 DEF QueueInv, Discarding
<1>10. ahead = 0
  <2>1. ahead \in Nat /\ ahead <= left /\ ahead <= Len(Lane)
    BY <1>1, RouteFacts DEF QueueInv, Queue!TypeOK, Counted, Queue!Returning
  <2>2. CASE left = 0
    BY <2>1, <2>2
  <2>3. CASE consumer = 0 /\ head.index = 0
    <3>1. Queue!Newest = 0 /\ Queue!Oldest = 0
      BY <1>1, <2>3 DEF Queue!Newest, Queue!Oldest
    <3>2. Lane = <<>>
      BY <2>3, <3>1, ListNone DEF Lane
    <3>3. Len(Lane) = 0
      BY <3>2
    <3>. QED
      BY <2>1, <3>3
  <2>. QED
    BY <2>2, <2>3
<1>9. FifoStep
  <2>1. Queue!Queued' = Queue!Queued
    BY <1>3, QueuedIs
  <2>2. Queue!Returning' = TRUE
    BY <1>1 DEF Queue!Returning
  <2>3. Queue!Fifo!Turn
    BY <1>1, <1>10, <2>1, <2>2 DEF Queue!Fifo!Turn
  <2>. QED
    BY <2>3 DEF FifoStep, Queue!Fifo!FifoNext
<1>11. Fresh'
  BY <1>1, FreshStays, NoticeFacts
<1>12. Counted'
  BY <1>1, <1>3, <1>10, LaneFacts DEF Counted, Queue!Returning
<1>. QED
  BY <1>3, <1>5, <1>6, <1>7, <1>8, <1>9, <1>11, <1>12 DEF QueueInv

\* A retained notice is written to its slot again.
LEMMA RepushKeeps ==
  ASSUME QueueInv, Queue!Repush
  PROVE  QueueInv' /\ FifoStep
<1>. USE DEF Queue!Repush, Queue!write_slot, Queue!history
<1>. DEFINE n == Head(retained)
            r == n.route
<1>0. /\ opc = "repush" /\ opc' = "relink" /\ retained # <<>> /\ n \in ToSet(retained)
      /\ n \in Queue!Notices /\ r \in Routes /\ token # NoNotice
  BY NoticeFacts DEF QueueInv, OwnerAt
<1>1. /\ slot[r] = NoNotice /\ slot' = [slot EXCEPT ![r] = n] /\ ppc' = [ppc EXCEPT ![r] = "load"]
      /\ UNCHANGED <<head, consumer, next, issued, phead, oindex, oreversed, ohead, token, left, retained,
                     sent, ahead, alarm, got>>
  OBVIOUS
<1>2. n # NoNotice /\ n # token /\ n.gen <= issued /\ n = Head(retained)
  BY <1>0, RouteFacts DEF QueueInv, SlotsFit, Discarding
<1>. HIDE DEF n
<1>3. /\ slot'[r] = n /\ ppc'[r] = "load" /\ r = Head(retained).route
      /\ \A q \in Routes : q # r => slot'[q] = slot[q] /\ ppc'[q] = ppc[q]
  BY <1>0, <1>1 DEF QueueInv, Queue!TypeOK, Routes, n
<1>4. Lane' = Lane /\ r \notin ToSet(Lane)
  BY <1>0, <1>1, LaneFacts DEF Queue!Newest, Queue!Oldest, Lane
<1>5. Listed'
  <2>1. Chained(next, Queue!Newest, Queue!Oldest, head.index)'
    BY <1>0, <1>1 DEF QueueInv, Listed, Queue!Newest, Queue!Oldest
  <2>2. \A q \in Routes : q \in ToSet(Lane) <=>
          slot'[q] # NoNotice /\ ppc'[q] = "idle" /\ ~(opc' = "free" /\ oindex' = q)
    BY <1>0, <1>3, <1>4, LaneFacts
  <2>. QED
    BY <1>4, <2>1, <2>2 DEF Listed
<1>6. Queue!TypeOK'
  <2>1. slot' \in [Routes -> Queue!Notices \cup {NoNotice}] /\ ppc' \in [Routes -> {"idle", "load", "link"}]
    <3>1. slot \in [Routes -> Queue!Notices \cup {NoNotice}] /\ ppc \in [Routes -> {"idle", "load", "link"}]
      BY DEF QueueInv, Queue!TypeOK, Routes
    <3>2. n \in Queue!Notices /\ r \in Routes
      BY <1>0
    <3>3. slot' = [slot EXCEPT ![r] = n] /\ ppc' = [ppc EXCEPT ![r] = "load"]
      BY <1>1
    <3>. HIDE DEF r
    <3>4. slot' \in [Routes -> Queue!Notices \cup {NoNotice}]
      BY <3>1, <3>2, <3>3
    <3>5. ppc' \in [Routes -> {"idle", "load", "link"}]
      BY <3>1, <3>2, <3>3
    <3>. QED
      BY <3>4, <3>5
  <2>. QED
    BY <1>0, <1>1, <2>1 DEF QueueInv, Queue!TypeOK, Routes
<1>7. SlotsFit'
  BY <1>1, <1>2, <1>3 DEF QueueInv, SlotsFit
<1>8. OwnerAt'
  BY <1>0, <1>1, <1>2, <1>3 DEF QueueInv, OwnerAt
<1>9. Discarding'
  <2>1. token.route \in Routes
    BY <1>0, NoticeFacts
  <2>2. slot'[token.route] # token
    BY <1>0, <1>2, <1>3, <2>1 DEF QueueInv, Discarding
  <2>. QED
    BY <1>0, <1>1, <2>2 DEF QueueInv, Discarding
<1>10. FifoStep
  <2>1. \A x \in ToSet(Lane) : slot'[x] = slot[x]
    BY <1>3, <1>4, LaneFacts, InLine
  <2>. QED
    BY <1>0, <1>1, <1>4, <2>1, Stutter DEF Queue!Returning
<1>11. Fresh'
  <2>1. \A q \in Routes : ~Queue!Repushing(q)
    BY <1>0 DEF Queue!Repushing
  <2>2. \A q \in Routes : q = r => Queue!Repushing(q)'
    BY <1>0, <1>1, <1>3 DEF Queue!Repushing
  <2>. QED
    BY <1>1, <1>3, <2>1, <2>2 DEF QueueInv, Fresh
<1>12. Counted'
  BY <1>0, <1>1, <1>4, CountedStays DEF Queue!Returning
<1>. QED
  BY <1>5, <1>6, <1>7, <1>8, <1>9, <1>10, <1>11, <1>12 DEF QueueInv

\* Nothing is retained any more.
LEMMA DiscardEndKeeps ==
  ASSUME QueueInv, Queue!DiscardEnd
  PROVE  QueueInv' /\ FifoStep
<1>. USE DEF Queue!DiscardEnd, Queue!queueVars, Queue!pushVars, Queue!history
<1>1. opc = "repush" /\ opc' = "run" /\ token' = NoNotice /\ retained = <<>>
  OBVIOUS
<1>2. Queue!Newest' = Queue!Newest /\ Queue!Oldest' = Queue!Oldest
  BY <1>1 DEF Queue!Newest, Queue!Oldest
<1>3. Listed' /\ Lane' = Lane
  BY <1>1, <1>2, ListStays
<1>4. Queue!TypeOK'
  BY <1>1, RouteFacts DEF QueueInv, Queue!TypeOK
<1>5. SlotsFit'
  BY DEF QueueInv, SlotsFit
<1>6. OwnerAt'
  BY <1>1 DEF QueueInv, OwnerAt
<1>7. Discarding'
  BY <1>1 DEF Discarding
<1>8. FifoStep
  <2>1. Queue!Queued' = Queue!Queued
    BY <1>3, QueuedIs
  <2>2. Queue!Returning /\ Queue!Returning' = FALSE
    BY <1>1 DEF Queue!Returning
  <2>3. Queue!Fifo!End
    BY <1>1, <2>1, <2>2 DEF Queue!Fifo!End
  <2>. QED
    BY <2>3 DEF FifoStep, Queue!Fifo!FifoNext
<1>9. Fresh'
  BY <1>1, FreshStays, NoticeFacts
<1>10. Counted'
  <2>1. ahead = 0
    BY <1>1 DEF QueueInv, Counted, Queue!Returning
  <2>. QED
    BY <1>1, <1>3, <2>1, LaneFacts DEF Counted
<1>. QED
  BY <1>3, <1>4, <1>5, <1>6, <1>7, <1>8, <1>9, <1>10 DEF QueueInv

-----------------------------------------------------------------------------
(* arm_wait and disarm_wait *)

\* The predicate of the wait.
LEMMA ArmLoadKeeps ==
  ASSUME QueueInv, Queue!ArmLoad
  PROVE  QueueInv' /\ FifoStep
<1>. USE DEF Queue!ArmLoad, Queue!queueVars, Queue!pushVars, Queue!history
<1>1. /\ opc \in {"run", "asleep"} /\ opc' \in {"leave", "arm"} /\ opc' = "arm" => consumer = 0
      /\ ohead' \in {ohead, head}
  OBVIOUS
<1>2. Queue!Newest' = Queue!Newest /\ Queue!Oldest' = Queue!Oldest
  BY <1>1 DEF Queue!Newest, Queue!Oldest
<1>3. Listed' /\ Lane' = Lane
  BY <1>1, <1>2, ListStays
<1>4. Queue!TypeOK'
  BY <1>1 DEF QueueInv, Queue!TypeOK
<1>5. SlotsFit'
  BY DEF QueueInv, SlotsFit
<1>6. OwnerAt'
  BY <1>1 DEF QueueInv, OwnerAt
<1>7. Discarding'
  BY <1>1, <1>3 DEF QueueInv, Discarding, OwnerAt
<1>8. FifoStep
  BY <1>1, <1>3, Stutter DEF Queue!Returning
<1>9. Fresh'
  BY <1>1, <1>3, FreshStays, NoticeFacts
<1>10. Counted'
  BY <1>1, <1>3, CountedStays DEF Queue!Returning
<1>. QED
  BY <1>3, <1>4, <1>5, <1>6, <1>7, <1>8, <1>9, <1>10 DEF QueueInv

\* The exchange arms the alarm over an empty list only.
LEMMA ArmExchangeKeeps ==
  ASSUME QueueInv, Queue!ArmExchange
  PROVE  QueueInv' /\ FifoStep
<1>. USE DEF Queue!ArmExchange, Queue!pushVars, Queue!history
<1>. DEFINE Armed == /\ head.index = 0 /\ head' = [index |-> 0, sleeping |-> TRUE] /\ alarm' = FALSE
                     /\ opc' = "asleep" /\ ohead' = Queue!NoHead
            Still == /\ UNCHANGED <<head, alarm>> /\ opc' \in {"leave", "asleep", "arm"}
                     /\ ohead' \in {head, Queue!NoHead}
<1>1. /\ opc = "arm" /\ consumer = 0 /\ token = NoNotice /\ got = NoNotice
      /\ UNCHANGED <<consumer, next, slot, issued, ppc, phead, oindex, oreversed, token, left, retained, sent, ahead, got>>
      /\ Armed \/ Still
  BY DEF QueueInv, OwnerAt
<1>2. /\ opc' \in {"leave", "asleep", "arm"} /\ head'.index = head.index
      /\ head' \in Queue!Heads /\ ohead' \in Queue!Heads /\ alarm' \in BOOLEAN
      /\ head'.sleeping => head'.index = 0
  <2>1. head \in Queue!Heads /\ Queue!NoHead \in Queue!Heads /\ [index |-> 0, sleeping |-> TRUE] \in Queue!Heads
    BY RouteFacts DEF QueueInv, Queue!TypeOK, Queue!Heads, Queue!NoHead, Queue!Index
  <2>2. CASE Armed
    BY <2>1, <2>2
  <2>3. CASE Still
    BY <2>1, <2>3 DEF QueueInv, OwnerAt, Queue!TypeOK
  <2>. QED
    BY <1>1, <2>2, <2>3
<1>3. Queue!Newest' = Queue!Newest /\ Queue!Oldest' = Queue!Oldest /\ Queue!Newest = 0 /\ Queue!Oldest = 0
  BY <1>1, <1>2 DEF Queue!Newest, Queue!Oldest
<1>4. Listed' /\ Lane' = Lane
  BY <1>1, <1>2, <1>3, ListStays
<1>5. Queue!TypeOK'
  BY <1>1, <1>2 DEF QueueInv, Queue!TypeOK
<1>6. SlotsFit'
  BY <1>1 DEF QueueInv, SlotsFit
<1>7. OwnerAt'
  BY <1>1, <1>2 DEF QueueInv, OwnerAt
<1>8. Discarding'
  BY <1>1 DEF Discarding
<1>9. FifoStep
  <2>1. CASE Armed
    <3>1. Lane = <<>>
      BY <1>3, <2>1, ListNone DEF Lane
    <3>2. Queue!Queued = <<>> /\ Queue!Queued' = <<>>
      BY <1>4, <3>1, QueuedIs, ReadNone
    <3>3. Queue!Fifo!Arm
      BY <1>1, <1>2, <2>1, <3>2 DEF Queue!Fifo!Arm, Queue!Fifo!discardVars, Queue!Returning
    <3>. QED
      BY <3>3 DEF FifoStep, Queue!Fifo!FifoNext
  <2>2. CASE Still
    BY <1>1, <1>2, <1>4, <2>2, Stutter DEF Queue!Returning
  <2>. QED
    BY <1>1, <2>1, <2>2
<1>10. Fresh'
  BY <1>1, <1>2, <1>4, FreshStays, NoticeFacts
<1>11. Counted'
  BY <1>1, <1>2, <1>4, CountedStays DEF Queue!Returning
<1>. QED
  BY <1>4, <1>5, <1>6, <1>7, <1>8, <1>9, <1>10, <1>11 DEF QueueInv

\* The owner clears the SLEEPING flag.
LEMMA DisarmWaitKeeps ==
  ASSUME QueueInv, Queue!DisarmWait
  PROVE  QueueInv' /\ FifoStep
<1>. USE DEF Queue!DisarmWait, Queue!pushVars, Queue!history
<1>1. /\ opc \in {"leave", "asleep"} /\ opc' = "run" /\ token = NoNotice /\ got = NoNotice
      /\ UNCHANGED <<consumer, next, slot, issued, ppc, phead, oindex, oreversed, ohead, token, left, retained,
                     sent, ahead, alarm, got>>
  BY DEF QueueInv, OwnerAt
<1>2. head' \in Queue!Heads /\ head'.index = head.index /\ head'.sleeping = FALSE
  BY DEF QueueInv, Queue!TypeOK, Queue!Heads
<1>3. Queue!Newest' = Queue!Newest /\ Queue!Oldest' = Queue!Oldest
  BY <1>1 DEF Queue!Newest, Queue!Oldest
<1>4. Listed' /\ Lane' = Lane
  BY <1>1, <1>2, <1>3, ListStays
<1>5. Queue!TypeOK'
  BY <1>1, <1>2 DEF QueueInv, Queue!TypeOK
<1>6. SlotsFit'
  BY <1>1 DEF QueueInv, SlotsFit
<1>7. OwnerAt'
  BY <1>1, <1>2 DEF QueueInv, OwnerAt
<1>8. Discarding'
  BY <1>1 DEF Discarding
<1>9. FifoStep
  <2>1. Queue!Queued' = Queue!Queued
    BY <1>1, <1>4, QueuedIs
  <2>. QED
    BY <1>1, <1>2, <2>1 DEF FifoStep, Queue!Fifo!FifoNext, Queue!Fifo!Disarm,
                              Queue!Fifo!discardVars, Queue!Returning
<1>10. Fresh'
  BY <1>1, <1>4, FreshStays, NoticeFacts
<1>11. Counted'
  BY <1>1, <1>4, CountedStays DEF Queue!Returning
<1>. QED
  BY <1>4, <1>5, <1>6, <1>7, <1>8, <1>9, <1>10, <1>11 DEF QueueInv

-----------------------------------------------------------------------------
(* The theorems *)

\* Every step keeps the invariant and is a step of the FIFO.
LEMMA QueueStep ==
  ASSUME QueueInv, [Queue!Next]_(Queue!vars)
  PROVE  QueueInv' /\ FifoStep
<1>1. CASE Queue!Owner
  BY <1>1, PopProbeKeeps, PopSwapKeeps, ReverseKeeps, PopTakeKeeps, PopFreeKeeps, DiscardBeginKeeps,
     DiscardStopKeeps, RepushKeeps, RelinkKeeps, DiscardEndKeeps, ArmLoadKeeps, ArmExchangeKeeps,
     DisarmWaitKeeps
     DEF Queue!Owner
<1>2. CASE \E r \in Queue!Routes : Queue!Publisher(r)
  BY <1>2, RouteFacts, PushRejectedKeeps, PushWriteKeeps, PushLoadKeeps, PushLinkKeeps DEF Queue!Publisher
<1>3. CASE UNCHANGED Queue!vars
  <2>. USE DEF Queue!vars, Queue!queueVars, Queue!pushVars, Queue!ownerVars, Queue!history
  <2>1. Queue!Newest' = Queue!Newest /\ Queue!Oldest' = Queue!Oldest
    BY <1>3 DEF Queue!Newest, Queue!Oldest
  <2>2. Listed' /\ Lane' = Lane
    BY <1>3, <2>1, ListStays
  <2>3. Queue!TypeOK' /\ SlotsFit' /\ OwnerAt'
    BY <1>3 DEF QueueInv, Queue!TypeOK, SlotsFit, OwnerAt
  <2>4. Discarding'
    BY <1>3, <2>2 DEF QueueInv, Discarding
  <2>5. FifoStep
    BY <1>3, <2>2, Stutter DEF Queue!Returning
  <2>6. Fresh' /\ Counted'
    BY <1>3, <2>2, FreshStays, CountedStays, NoticeFacts DEF Queue!Returning
  <2>. QED
    BY <2>2, <2>3, <2>4, <2>5, <2>6 DEF QueueInv
<1>. QED
  BY <1>1, <1>2, <1>3 DEF Queue!Next

\* Where discard_notice puts notices back, none it finds is its own.
LEMMA NothingLeft == ASSUME QueueInv PROVE Queue!DiscardComplete
<1>1. SUFFICES ASSUME opc \in {"repush", "relink"}, Queue!Contains(Queue!Queued, token) PROVE FALSE
  BY DEF Queue!DiscardComplete, Queue!Returning
<1>2. Lane \in LineOf(Routes) /\ slot \in [Routes -> Words]
  BY LaneFacts
<1>3. /\ Queue!Queued \in Seq(Words) /\ Len(Queue!Queued) = Len(Lane)
      /\ \A k \in 1..Len(Lane) : Queue!Queued[k] = slot[Lane[k]]
  BY <1>2, QueuedIs, ReadFacts
<1>4. PICK k \in 1..Len(Queue!Queued) : Queue!Queued[k] = token
  BY <1>1 DEF Queue!Contains
<1>5. Lane[k] \in Routes /\ slot[Lane[k]] = token
  BY <1>3, <1>4, LaneFacts
<1>6. token # NoNotice /\ slot[token.route] # token
  BY <1>1 DEF QueueInv, OwnerAt, Discarding
<1>7. token.route = Lane[k]
  BY <1>5, <1>6, NoticeFacts
<1>. QED
  BY <1>5, <1>6, <1>7

\* The inductive invariant of the wake queue holds of every reachable state:
\* the three chains share no slot and hold exactly the notices handed over.
THEOREM QueueInvariance == Queue!Spec => []QueueInv
<1>1. Queue!Init => QueueInv
  BY QueueInit
<1>2. QueueInv /\ [Queue!Next]_(Queue!vars) => QueueInv'
  BY QueueStep
<1>. QED
  BY <1>1, <1>2, PTL DEF Queue!Spec

\* wait_hub.rs:77: when discard_notice puts the retained notices back, the notice
\* it was called for is not in the queue, however many slots there are and
\* whatever publishers link meanwhile.
THEOREM DiscardsAreComplete == Queue!Spec => []DiscardComplete
<1>1. QueueInv => DiscardComplete
  BY NothingLeft DEF DiscardComplete
<1>. QED
  BY <1>1, QueueInvariance, PTL

\* wake_queue_core.rs:94: the stack at the head, the batch in reversal and the
\* batch in order are one FIFO of notices, of any number of slots.
THEOREM WakeQueueImplementsFifo == Queue!Spec => ImplementsFifo
<1>1. Queue!Init => Queue!Fifo!FifoInit
  BY QueueInit
<1>2. QueueInv /\ [Queue!Next]_(Queue!vars) => [Queue!Fifo!FifoNext]_(Queue!Fifo!fifoVars)
  BY QueueStep DEF FifoStep
<1>. QED
  BY <1>1, <1>2, QueueInvariance, PTL DEF Queue!Spec, ImplementsFifo, Queue!ImplementsFifo, Queue!Fifo!Spec

-----------------------------------------------------------------------------
(* The graph of tokens.  Tokens that were dropped live on as relays, and   *)
(* signatures are only trusted where no relay is pending below.            *)

Ids == Graph!Ids
GraphRec == [nodes : SUBSET Ids, relays : SUBSET Ids, cancelled : SUBSET Ids,
             parents : [Ids -> SUBSET Ids], children : [Ids -> SUBSET Ids],
             signature : [Ids -> SUBSET Ids]]

\* The entries that are tokens.
Named(g) == g.nodes \ g.relays

\* Edges lead from smaller entries to larger ones, and both ends know them.
Edges(g) ==
  /\ g.relays \subseteq g.nodes /\ g.cancelled \subseteq g.nodes
  /\ \A p, c \in Ids : p \in g.parents[c] <=> c \in g.children[p]
  /\ \A p, c \in Ids : p \in g.parents[c] => p < c /\ p \in g.nodes /\ c \in g.nodes

\* A cancelled entry has cancelled children.
Passed(g) == \A p, c \in Ids : p \in g.parents[c] /\ p \in g.cancelled => c \in g.cancelled

\* above[i] is the set of tokens from which edges lead to i.
Above(g, above) ==
  /\ above \in [Ids -> SUBSET Ids]
  /\ \A a, c \in Ids : a \in above[c] => a < c /\ a \in Named(g)
  /\ \A a, c \in Ids : a \in above[c] <=>
       \E p \in g.parents[c] : (a = p /\ p \in Named(g)) \/ a \in above[p]

\* A token's signature is itself.
OwnSigned(g) == \A i \in Ids : i \notin g.relays => g.signature[i] = {i}

\* A signature of tokens stands for what is above the entry.
Signed(g, above) ==
  \A i \in g.nodes : g.signature[i] \subseteq Named(g) =>
    \A a \in Ids : ((a = i /\ i \in Named(g)) \/ a \in above[i]) <=>
                   \E s \in g.signature[i] : a = s \/ a \in above[s]

\* A relay that is not dirty has the signature its parents give it.
Derived(g, stale) ==
  \A r \in g.relays : r \notin stale =>
    \A s \in Ids : s \in g.signature[r] <=> \E p \in g.parents[r] : s \in g.signature[p]

Sound(g, above, stale) ==
  /\ g \in GraphRec /\ Edges(g) /\ Passed(g) /\ Above(g, above)
  /\ OwnSigned(g) /\ Signed(g, above) /\ Derived(g, stale)

\* Identities are numbers.
LEMMA IdFacts == MaxIds \in Nat /\ Ids = Graph!Ids /\ Ids = 0..(MaxIds - 1) /\ Ids \in SUBSET Nat
BY GraphAssumption DEF Graph!CancelGraphAssumption, Ids, Graph!Ids

\* The types of a graph's parts.
LEMMA GraphParts ==
  ASSUME NEW g \in GraphRec
  PROVE  /\ g.nodes \subseteq Ids /\ g.relays \subseteq Ids /\ g.cancelled \subseteq Ids
         /\ Named(g) \subseteq Ids
         /\ \A i \in Ids : /\ g.parents[i] \subseteq Ids /\ g.children[i] \subseteq Ids
                           /\ g.signature[i] \subseteq Ids
BY DEF GraphRec, Named

\* erase, field by field.
Erased(g, id, h) ==
  /\ h.nodes = g.nodes \ {id} /\ h.relays = g.relays \ {id}
  /\ h.cancelled = g.cancelled \ {id}
  /\ \A i \in Ids : h.parents[i] = IF i \in g.children[id] THEN (g.parents[i] \ {id}) \cup g.parents[id]
                                   ELSE IF i = id THEN {} ELSE g.parents[i]
  /\ \A i \in Ids : h.children[i] = IF i \in g.parents[id] THEN (g.children[i] \ {id}) \cup g.children[id]
                                    ELSE IF i = id THEN {} ELSE g.children[i]
  /\ \A i \in Ids : h.signature[i] = IF i = id THEN {id} ELSE g.signature[i]

LEMMA EraseFacts ==
  ASSUME NEW g \in GraphRec, NEW id \in Ids
  PROVE  Graph!erase(g, id) \in GraphRec /\ Erased(g, id, Graph!erase(g, id))
<1>. DEFINE h == Graph!erase(g, id)
            up == [i \in Ids |-> IF i \in g.children[id] THEN (g.parents[i] \ {id}) \cup g.parents[id]
                                 ELSE IF i = id THEN {} ELSE g.parents[i]]
            down == [i \in Ids |-> IF i \in g.parents[id] THEN (g.children[i] \ {id}) \cup g.children[id]
                                   ELSE IF i = id THEN {} ELSE g.children[i]]
            sig == [g.signature EXCEPT ![id] = {id}]
<1>1. up \in [Ids -> SUBSET Ids] /\ down \in [Ids -> SUBSET Ids] /\ sig \in [Ids -> SUBSET Ids]
  BY DEF GraphRec
<1>2. h = [g EXCEPT !.nodes = g.nodes \ {id}, !.relays = g.relays \ {id}, !.cancelled = g.cancelled \ {id},
                    !.parents = up, !.children = down, !.signature = sig]
  BY IdFacts DEF Graph!erase
<1>3. \A i \in Ids : sig[i] = IF i = id THEN {id} ELSE g.signature[i]
  BY DEF GraphRec
<1>4. /\ \A i \in Ids : up[i] = IF i \in g.children[id] THEN (g.parents[i] \ {id}) \cup g.parents[id]
                                ELSE IF i = id THEN {} ELSE g.parents[i]
      /\ \A i \in Ids : down[i] = IF i \in g.parents[id] THEN (g.children[i] \ {id}) \cup g.children[id]
                                  ELSE IF i = id THEN {} ELSE g.children[i]
  OBVIOUS
<1>. HIDE DEF h, up, down, sig
<1>5. /\ h.nodes = g.nodes \ {id} /\ h.relays = g.relays \ {id} /\ h.cancelled = g.cancelled \ {id}
      /\ h.parents = up /\ h.children = down /\ h.signature = sig
  BY <1>2 DEF GraphRec
<1>6. h \in GraphRec
  BY <1>1, <1>2 DEF GraphRec
<1>. QED
  BY <1>3, <1>4, <1>5, <1>6 DEF h, Erased

\* to_relay, field by field.
Relayed(g, id, h) ==
  /\ h.nodes = g.nodes /\ h.relays = g.relays \cup {id}
  /\ h.cancelled = (IF g.parents[id] \cap g.cancelled = {} THEN g.cancelled \ {id}
                    ELSE g.cancelled \cup {id})
  /\ h.parents = g.parents /\ h.children = g.children
  /\ \A i \in Ids : i # id => h.signature[i] = g.signature[i]
  /\ \A s \in Ids : s \in h.signature[id] <=> \E p \in g.parents[id] : s \in g.signature[p]

LEMMA RelayFacts ==
  ASSUME NEW g \in GraphRec, NEW id \in Ids
  PROVE  Graph!to_relay(g, id) \in GraphRec /\ Relayed(g, id, Graph!to_relay(g, id))
<1>. DEFINE h == Graph!to_relay(g, id)
            new == UNION {g.signature[p] : p \in g.parents[id]}
            sig == [g.signature EXCEPT ![id] = new]
            can == IF g.parents[id] \cap g.cancelled = {} THEN g.cancelled \ {id} ELSE g.cancelled \cup {id}
<1>1. new \in SUBSET Ids /\ \A s : s \in new <=> \E p \in g.parents[id] : s \in g.signature[p]
  <2>1. \A s : s \in new <=> \E p \in g.parents[id] : s \in g.signature[p]
    OBVIOUS
  <2>. HIDE DEF new
  <2>. QED
    BY <2>1, GraphParts
<1>2. h = [g EXCEPT !.relays = g.relays \cup {id}, !.signature = sig, !.cancelled = can]
  BY DEF Graph!to_relay, Graph!signature_for
<1>. HIDE DEF new
<1>3. sig \in [Ids -> SUBSET Ids] /\ \A i \in Ids : sig[i] = IF i = id THEN new ELSE g.signature[i]
  BY <1>1 DEF GraphRec
<1>4. can \in SUBSET Ids
  BY DEF GraphRec
<1>5. can = IF g.parents[id] \cap g.cancelled = {} THEN g.cancelled \ {id} ELSE g.cancelled \cup {id}
  OBVIOUS
<1>. HIDE DEF h, sig, can
<1>6. /\ h.nodes = g.nodes /\ h.relays = g.relays \cup {id} /\ h.cancelled = can
      /\ h.parents = g.parents /\ h.children = g.children /\ h.signature = sig
  BY <1>2 DEF GraphRec
<1>7. h = [nodes |-> g.nodes, relays |-> g.relays \cup {id}, cancelled |-> can,
           parents |-> g.parents, children |-> g.children, signature |-> sig]
  BY <1>2 DEF GraphRec
<1>8. h \in GraphRec
  BY <1>3, <1>4, <1>7, GraphParts DEF GraphRec
<1>. QED
  BY <1>1, <1>3, <1>5, <1>6, <1>8 DEF h, Relayed

\* refresh_signature, field by field.
Refreshed(g, id, h) ==
  /\ h.nodes = g.nodes /\ h.relays = g.relays /\ h.cancelled = g.cancelled
  /\ h.parents = g.parents /\ h.children = g.children
  /\ \A i \in Ids : i # id => h.signature[i] = g.signature[i]
  /\ \A s \in Ids : s \in h.signature[id] <=> \E p \in g.parents[id] : s \in g.signature[p]

LEMMA RefreshFacts ==
  ASSUME NEW g \in GraphRec, NEW id \in Ids
  PROVE  Graph!refresh_signature(g, id) \in GraphRec /\ Refreshed(g, id, Graph!refresh_signature(g, id))
<1>. DEFINE h == Graph!refresh_signature(g, id)
            new == UNION {g.signature[p] : p \in g.parents[id]}
            sig == [g.signature EXCEPT ![id] = new]
<1>1. new \in SUBSET Ids /\ \A s : s \in new <=> \E p \in g.parents[id] : s \in g.signature[p]
  <2>1. \A s : s \in new <=> \E p \in g.parents[id] : s \in g.signature[p]
    OBVIOUS
  <2>. HIDE DEF new
  <2>. QED
    BY <2>1, GraphParts
<1>2. h = [g EXCEPT !.signature = sig]
  BY DEF Graph!refresh_signature, Graph!signature_for
<1>. HIDE DEF new
<1>3. sig \in [Ids -> SUBSET Ids] /\ \A i \in Ids : sig[i] = IF i = id THEN new ELSE g.signature[i]
  BY <1>1 DEF GraphRec
<1>. HIDE DEF h, sig
<1>4. /\ h \in GraphRec /\ h.nodes = g.nodes /\ h.relays = g.relays /\ h.cancelled = g.cancelled
      /\ h.parents = g.parents /\ h.children = g.children /\ h.signature = sig
  BY <1>2, <1>3 DEF GraphRec
<1>. QED
  BY <1>1, <1>3, <1>4 DEF h, Refreshed

\* merge_relays, field by field.
Merged(g, keep, gone, h) ==
  /\ h.nodes = g.nodes \ {gone} /\ h.relays = g.relays \ {gone}
  /\ h.cancelled = g.cancelled \ {gone}
  /\ \A i \in Ids : h.parents[i] = IF i \in g.children[gone] THEN (g.parents[i] \ {gone}) \cup {keep}
                                   ELSE IF i = gone THEN {} ELSE g.parents[i]
  /\ \A i \in Ids : h.children[i] = IF i = keep THEN (g.children[i] \cup g.children[gone]) \ {gone}
                                    ELSE IF i = gone THEN {} ELSE g.children[i] \ {gone}
  /\ \A i \in Ids : h.signature[i] = IF i = gone THEN {gone} ELSE g.signature[i]

LEMMA MergeFacts ==
  ASSUME NEW g \in GraphRec, NEW keep \in Ids, NEW gone \in Ids
  PROVE  Graph!merge_relays(g, keep, gone) \in GraphRec /\ Merged(g, keep, gone, Graph!merge_relays(g, keep, gone))
<1>. DEFINE h == Graph!merge_relays(g, keep, gone)
            up == [i \in Ids |-> IF i \in g.children[gone] THEN (g.parents[i] \ {gone}) \cup {keep}
                                 ELSE IF i = gone THEN {} ELSE g.parents[i]]
            down == [i \in Ids |-> IF i = keep THEN (g.children[i] \cup g.children[gone]) \ {gone}
                                   ELSE IF i = gone THEN {} ELSE g.children[i] \ {gone}]
            sig == [g.signature EXCEPT ![gone] = {gone}]
<1>1. up \in [Ids -> SUBSET Ids] /\ down \in [Ids -> SUBSET Ids] /\ sig \in [Ids -> SUBSET Ids]
  BY DEF GraphRec
<1>2. h = [g EXCEPT !.nodes = g.nodes \ {gone}, !.relays = g.relays \ {gone},
                    !.cancelled = g.cancelled \ {gone}, !.parents = up, !.children = down, !.signature = sig]
  BY IdFacts DEF Graph!merge_relays
<1>3. \A i \in Ids : sig[i] = IF i = gone THEN {gone} ELSE g.signature[i]
  BY DEF GraphRec
<1>4. /\ \A i \in Ids : up[i] = IF i \in g.children[gone] THEN (g.parents[i] \ {gone}) \cup {keep}
                                ELSE IF i = gone THEN {} ELSE g.parents[i]
      /\ \A i \in Ids : down[i] = IF i = keep THEN (g.children[i] \cup g.children[gone]) \ {gone}
                                  ELSE IF i = gone THEN {} ELSE g.children[i] \ {gone}
  OBVIOUS
<1>. HIDE DEF h, up, down, sig
<1>5. /\ h \in GraphRec /\ h.nodes = g.nodes \ {gone} /\ h.relays = g.relays \ {gone}
      /\ h.cancelled = g.cancelled \ {gone} /\ h.parents = up /\ h.children = down /\ h.signature = sig
  BY <1>1, <1>2 DEF GraphRec
<1>. QED
  BY <1>3, <1>4, <1>5 DEF h, Merged

\* The entries of a sound graph are identities.
LEMMA SoundFacts ==
  ASSUME NEW g, NEW above, NEW stale, Sound(g, above, stale)
  PROVE  /\ g \in GraphRec /\ Edges(g) /\ Passed(g) /\ Above(g, above)
         /\ OwnSigned(g) /\ Signed(g, above) /\ Derived(g, stale)
         /\ g.nodes \subseteq Ids /\ g.relays \subseteq Ids /\ g.cancelled \subseteq Ids
         /\ Named(g) \subseteq Ids
         /\ \A i \in Ids : /\ g.parents[i] \subseteq Ids /\ g.children[i] \subseteq Ids
                           /\ g.signature[i] \subseteq Ids
BY GraphParts DEF Sound

\* Splicing an entry out keeps a graph sound: a relay whose parents change
\* takes the same signature from those of the entry, or is looked at again.
LEMMA EraseKeeps ==
  ASSUME NEW g, NEW above, NEW stale, Sound(g, above, stale), NEW id \in g.nodes, NEW later,
         \A r \in g.relays \ {id} : r \notin later =>
           r \notin stale /\ (id \in g.parents[r] => id \in g.relays /\ id \notin stale)
  PROVE  Sound(Graph!erase(g, id), [c \in Ids |-> IF c = id THEN {} ELSE above[c] \ {id}], later)
<1>. DEFINE h == Graph!erase(g, id)
            fewer == [c \in Ids |-> IF c = id THEN {} ELSE above[c] \ {id}]
<1>0. g \in GraphRec /\ id \in Ids
  BY SoundFacts
<1>. HIDE DEF h
<1>1. h \in GraphRec /\ Erased(g, id, h)
  BY <1>0, EraseFacts DEF h
<1>2. above \in [Ids -> SUBSET Ids] /\ fewer \in [Ids -> SUBSET Ids]
  BY SoundFacts DEF Above
<1>3. \A a, c \in Ids : a \in fewer[c] <=> a # id /\ c # id /\ a \in above[c]
  BY <1>2
<1>. HIDE DEF fewer
<1>3a. /\ h.nodes = g.nodes \ {id} /\ h.relays = g.relays \ {id} /\ h.cancelled = g.cancelled \ {id}
       /\ \A i \in Ids : h.parents[i] = IF i \in g.children[id] THEN (g.parents[i] \ {id}) \cup g.parents[id]
                                        ELSE IF i = id THEN {} ELSE g.parents[i]
       /\ \A i \in Ids : h.children[i] = IF i \in g.parents[id] THEN (g.children[i] \ {id}) \cup g.children[id]
                                         ELSE IF i = id THEN {} ELSE g.children[i]
       /\ \A i \in Ids : h.signature[i] = IF i = id THEN {id} ELSE g.signature[i]
  BY <1>1 DEF Erased
<1>4. \A p, c \in Ids : p \in g.parents[c] <=> c \in g.children[p]
  BY SoundFacts DEF Edges
<1>5. \A p, c \in Ids : p \in g.parents[c] => p < c /\ p # c /\ p \in g.nodes /\ c \in g.nodes
  BY SoundFacts, IdFacts DEF Edges
<1>6. \A p, c \in Ids : p \in h.parents[c] <=>
        c # id /\ p # id /\ (p \in g.parents[c] \/ (id \in g.parents[c] /\ p \in g.parents[id]))
  <2>1. ASSUME NEW p \in Ids, NEW c \in Ids
        PROVE  p \in h.parents[c] <=>
                 c # id /\ p # id /\ (p \in g.parents[c] \/ (id \in g.parents[c] /\ p \in g.parents[id]))
    <3>1. /\ c \in g.children[id] <=> id \in g.parents[c]
          /\ id \in g.parents[c] => c # id
          /\ p \in g.parents[id] => p # id
      BY <1>0, <1>4, <1>5
    <3>2. h.parents[c] = IF c \in g.children[id] THEN (g.parents[c] \ {id}) \cup g.parents[id]
                         ELSE IF c = id THEN {} ELSE g.parents[c]
      BY <1>3a
    <3>. QED
      BY <3>1, <3>2
  <2>. QED
    BY <2>1
<1>7. \A p, c \in Ids : c \in h.children[p] <=>
        c # id /\ p # id /\ (p \in g.parents[c] \/ (id \in g.parents[c] /\ p \in g.parents[id]))
  <2>1. ASSUME NEW p \in Ids, NEW c \in Ids
        PROVE  c \in h.children[p] <=>
                 c # id /\ p # id /\ (p \in g.parents[c] \/ (id \in g.parents[c] /\ p \in g.parents[id]))
    <3>1. /\ c \in g.children[id] <=> id \in g.parents[c]
          /\ c \in g.children[p] <=> p \in g.parents[c]
          /\ id \in g.parents[c] => c # id
          /\ p \in g.parents[id] => p # id
      BY <1>0, <1>4, <1>5
    <3>2. h.children[p] = IF p \in g.parents[id] THEN (g.children[p] \ {id}) \cup g.children[id]
                          ELSE IF p = id THEN {} ELSE g.children[p]
      BY <1>3a
    <3>. QED
      BY <3>1, <3>2
  <2>. QED
    BY <2>1
<1>8. Edges(h)
  <2>1. h.relays \subseteq h.nodes /\ h.cancelled \subseteq h.nodes
    BY <1>3a, SoundFacts DEF Edges
  <2>2. ASSUME NEW p \in Ids, NEW c \in Ids, p \in h.parents[c]
        PROVE  p < c /\ p \in h.nodes /\ c \in h.nodes
    <3>1. c # id /\ p # id /\ (p \in g.parents[c] \/ (id \in g.parents[c] /\ p \in g.parents[id]))
      BY <1>6, <2>2
    <3>2. p < c
      <4>1. CASE p \in g.parents[c]
        BY <1>5, <4>1
      <4>2. CASE id \in g.parents[c] /\ p \in g.parents[id]
        <5>1. p < id /\ id < c
          BY <1>0, <1>5, <4>2
        <5>. QED
          BY <1>0, <5>1, IdFacts
      <4>. QED
        BY <3>1, <4>1, <4>2
    <3>3. p \in g.nodes /\ c \in g.nodes
      BY <1>0, <1>5, <3>1
    <3>. QED
      BY <1>3a, <3>1, <3>2, <3>3
  <2>. QED
    BY <1>6, <1>7, <2>1, <2>2 DEF Edges
<1>9. Passed(h)
  <2>1. \A p, c \in Ids : p \in g.parents[c] /\ p \in g.cancelled => c \in g.cancelled
    BY SoundFacts DEF Passed
  <2>. QED
    BY <1>0, <1>3a, <1>6, <2>1 DEF Passed
<1>10. Named(h) = Named(g) \ {id}
  BY <1>3a DEF Named
<1>11. /\ \A a, c \in Ids : a \in above[c] => a < c /\ a \in Named(g)
       /\ \A a, c \in Ids : a \in above[c] <=>
            \E p \in g.parents[c] : (a = p /\ p \in Named(g)) \/ a \in above[p]
  BY SoundFacts DEF Above
<1>12. Above(h, fewer)
  <2>1. ASSUME NEW a \in Ids, NEW c \in Ids, a \in fewer[c]
        PROVE  \E p \in h.parents[c] : (a = p /\ p \in Named(h)) \/ a \in fewer[p]
    <3>1. a # id /\ c # id /\ a \in above[c]
      BY <1>3, <2>1
    <3>2. PICK p \in g.parents[c] : (a = p /\ p \in Named(g)) \/ a \in above[p]
      BY <1>11, <3>1
    <3>3. p \in Ids
      BY SoundFacts
    <3>4. CASE p # id
      BY <1>3, <1>6, <1>10, <3>1, <3>2, <3>3, <3>4
    <3>5. CASE p = id
      <4>1. PICK q \in g.parents[id] : (a = q /\ q \in Named(g)) \/ a \in above[q]
        BY <1>11, <3>1, <3>2, <3>3, <3>5
      <4>2. q \in Ids /\ q # id
        BY <1>0, <1>5, SoundFacts
      <4>. QED
        BY <1>3, <1>6, <1>10, <3>1, <3>2, <3>3, <3>5, <4>1, <4>2
    <3>. QED
      BY <3>4, <3>5
  <2>2. ASSUME NEW a \in Ids, NEW c \in Ids, NEW p \in h.parents[c],
               (a = p /\ p \in Named(h)) \/ a \in fewer[p]
        PROVE  a \in fewer[c]
    <3>1. p \in Ids
      BY <1>1, GraphParts
    <3>2. c # id /\ p # id /\ (p \in g.parents[c] \/ (id \in g.parents[c] /\ p \in g.parents[id]))
      BY <1>6, <3>1
    <3>3. a # id /\ ((a = p /\ p \in Named(g)) \/ a \in above[p])
      BY <1>3, <1>10, <2>2, <3>1, <3>2
    <3>4. CASE p \in g.parents[c]
      BY <1>3, <1>11, <3>2, <3>3, <3>4
    <3>5. CASE id \in g.parents[c] /\ p \in g.parents[id]
      <4>1. a \in above[id]
        BY <1>0, <1>11, <3>3, <3>5
      <4>. QED
        BY <1>3, <1>11, <3>2, <3>3, <3>5, <4>1
    <3>. QED
      BY <3>2, <3>4, <3>5
  <2>3. \A a, c \in Ids : a \in fewer[c] => a < c /\ a \in Named(h)
    BY <1>3, <1>10, <1>11
  <2>. QED
    BY <1>2, <2>1, <2>2, <2>3 DEF Above
<1>13. OwnSigned(h)
  BY <1>3a, SoundFacts DEF OwnSigned
<1>14. Signed(h, fewer)
  <2>1. ASSUME NEW i \in h.nodes, h.signature[i] \subseteq Named(h), NEW a \in Ids
        PROVE  ((a = i /\ i \in Named(h)) \/ a \in fewer[i]) <=>
               \E s \in h.signature[i] : a = s \/ a \in fewer[s]
    <3>1. i \in Ids /\ i \in g.nodes /\ i # id /\ h.signature[i] = g.signature[i]
      BY <1>3a, SoundFacts
    <3>2. ((a = i /\ i \in Named(g)) \/ a \in above[i]) <=> \E s \in g.signature[i] : a = s \/ a \in above[s]
      BY <1>10, <2>1, <3>1, SoundFacts DEF Signed
    <3>3. \A s \in g.signature[i] : s \in Ids /\ s # id
      BY <1>10, <2>1, <3>1, SoundFacts
    <3>. QED
      BY <1>3, <1>10, <3>1, <3>2, <3>3
  <2>. QED
    BY <2>1 DEF Signed
<1>15. Derived(h, later)
  <2>1. ASSUME NEW r \in h.relays, r \notin later, NEW s \in Ids
        PROVE  s \in h.signature[r] <=> \E p \in h.parents[r] : s \in h.signature[p]
    <3>1. r \in Ids /\ r \in g.relays /\ r # id /\ r \notin stale /\ h.signature[r] = g.signature[r]
      BY <1>3a, <2>1, SoundFacts
    <3>2. s \in g.signature[r] <=> \E p \in g.parents[r] : s \in g.signature[p]
      BY <3>1, SoundFacts DEF Derived
    <3>3. CASE id \notin g.parents[r]
      <4>1. \A p : p \in h.parents[r] <=> p \in g.parents[r]
        BY <1>0, <1>3a, <1>4, <3>1, <3>3
      <4>2. \A p \in g.parents[r] : h.signature[p] = g.signature[p]
        BY <1>3a, <3>1, <3>3, SoundFacts
      <4>. QED
        BY <3>1, <3>2, <4>1, <4>2
    <3>4. CASE id \in g.parents[r]
      <4>1. id \in g.relays /\ id \notin stale
        BY <2>1, <3>1, <3>4
      <4>2. s \in g.signature[id] <=> \E p \in g.parents[id] : s \in g.signature[p]
        BY <4>1, SoundFacts DEF Derived
      <4>3. \A p : p \in h.parents[r] <=> (p \in g.parents[r] /\ p # id) \/ p \in g.parents[id]
        <5>1. r \in g.children[id]
          BY <1>0, <1>4, <3>1, <3>4
        <5>2. h.parents[r] = (g.parents[r] \ {id}) \cup g.parents[id]
          BY <1>3a, <3>1, <5>1
        <5>. QED
          BY <5>2
      <4>4. \A p : (p \in g.parents[r] /\ p # id) \/ p \in g.parents[id] => h.signature[p] = g.signature[p]
        BY <1>0, <1>3a, <1>5, <3>1, SoundFacts
      <4>. QED
        BY <3>1, <3>2, <3>4, <4>2, <4>3, <4>4
    <3>. QED
      BY <3>3, <3>4
  <2>. QED
    BY <2>1 DEF Derived
<1>. QED
  BY <1>1, <1>8, <1>9, <1>12, <1>13, <1>14, <1>15 DEF Sound, h, fewer

\* A token that becomes a relay keeps a graph sound, once its children are
\* looked at again.
LEMMA RelayKeeps ==
  ASSUME NEW g, NEW above, NEW stale, Sound(g, above, stale), NEW id \in Named(g), NEW later,
         \A r \in g.relays : r \notin later => r \notin stale /\ id \notin g.parents[r]
  PROVE  Sound(Graph!to_relay(g, id), [c \in Ids |-> above[c] \ {id}], later)
<1>. DEFINE h == Graph!to_relay(g, id)
            fewer == [c \in Ids |-> above[c] \ {id}]
<1>1. g \in GraphRec /\ id \in Ids /\ id \in g.nodes /\ id \notin g.relays
  BY SoundFacts DEF Named
<1>. HIDE DEF h
<1>2. h \in GraphRec /\ Relayed(g, id, h)
  BY <1>1, RelayFacts DEF h
<1>3. /\ h.nodes = g.nodes /\ h.relays = g.relays \cup {id}
      /\ h.cancelled = (IF g.parents[id] \cap g.cancelled = {} THEN g.cancelled \ {id}
                        ELSE g.cancelled \cup {id})
      /\ h.parents = g.parents /\ h.children = g.children
      /\ \A i \in Ids : i # id => h.signature[i] = g.signature[i]
      /\ \A s \in Ids : s \in h.signature[id] <=> \E p \in g.parents[id] : s \in g.signature[p]
  BY <1>2 DEF Relayed
<1>4. above \in [Ids -> SUBSET Ids] /\ fewer \in [Ids -> SUBSET Ids]
  BY SoundFacts DEF Above
<1>5. \A a, c \in Ids : a \in fewer[c] <=> a # id /\ a \in above[c]
  BY <1>4
<1>. HIDE DEF fewer
<1>6. Named(h) = Named(g) \ {id}
  BY <1>3 DEF Named
<1>7. \A p, c \in Ids : p \in g.parents[c] => p # c
  BY SoundFacts, IdFacts DEF Edges
<1>8. Edges(h)
  BY <1>1, <1>3, SoundFacts DEF Edges
<1>9. Passed(h)
  <2>1. \A p, c \in Ids : p \in g.parents[c] /\ p \in g.cancelled => c \in g.cancelled
    BY SoundFacts DEF Passed
  <2>2. ASSUME NEW p \in Ids, NEW c \in Ids, p \in g.parents[c], p \in h.cancelled
        PROVE  c \in h.cancelled
    <3>1. CASE p = id
      <4>1. \E q \in g.parents[id] : q \in g.cancelled
        BY <1>3, <2>2, <3>1
      <4>2. id \in g.cancelled
        BY <1>1, <2>1, <4>1, SoundFacts
      <4>. QED
        BY <1>3, <1>7, <2>1, <2>2, <3>1, <4>2
    <3>2. CASE p # id
      <4>1. p \in g.cancelled /\ c \in g.cancelled
        BY <1>3, <2>1, <2>2, <3>2
      <4>. QED
        BY <1>3, <2>2, <4>1
    <3>. QED
      BY <3>1, <3>2
  <2>. QED
    BY <1>3, <2>2 DEF Passed
<1>10. Above(h, fewer)
  <2>1. /\ \A a, c \in Ids : a \in above[c] => a < c /\ a \in Named(g)
        /\ \A a, c \in Ids : a \in above[c] <=>
             \E p \in g.parents[c] : (a = p /\ p \in Named(g)) \/ a \in above[p]
    BY SoundFacts DEF Above
  <2>2. \A c \in Ids : g.parents[c] \subseteq Ids
    BY SoundFacts
  <2>3. \A a, c \in Ids : a \in fewer[c] <=>
          \E p \in g.parents[c] : (a = p /\ p \in Named(h)) \/ a \in fewer[p]
    BY <1>5, <1>6, <2>1, <2>2
  <2>. QED
    BY <1>3, <1>4, <1>5, <1>6, <2>1, <2>3 DEF Above
<1>11. OwnSigned(h)
  BY <1>3, SoundFacts DEF OwnSigned
<1>12. Signed(h, fewer)
  <2>1. ASSUME NEW i \in g.nodes, g.signature[i] \subseteq Named(h), NEW a \in Ids
        PROVE  ((a = i /\ i \in Named(h)) \/ a \in fewer[i]) <=>
               a # id /\ \E s \in g.signature[i] : a = s \/ a \in fewer[s]
    <3>1. i \in Ids /\ g.signature[i] \subseteq Named(g)
      BY <1>6, <2>1, SoundFacts
    <3>2. ((a = i /\ i \in Named(g)) \/ a \in above[i]) <=> \E s \in g.signature[i] : a = s \/ a \in above[s]
      BY <3>1, SoundFacts DEF Signed
    <3>3. \A s \in g.signature[i] : s \in Ids /\ s # id
      BY <1>6, <2>1, <3>1, SoundFacts
    <3>. QED
      BY <1>5, <1>6, <3>1, <3>2, <3>3
  <2>2. ASSUME NEW i \in h.nodes, h.signature[i] \subseteq Named(h), NEW a \in Ids
        PROVE  ((a = i /\ i \in Named(h)) \/ a \in fewer[i]) <=>
               \E s \in h.signature[i] : a = s \/ a \in fewer[s]
    <3>1. i \in Ids /\ i \in g.nodes
      BY <1>3, <2>2, SoundFacts
    <3>2. CASE i # id
      <4>1. h.signature[i] = g.signature[i] /\ \A s \in g.signature[i] : s \in Ids /\ s # id
        BY <1>3, <1>6, <2>2, <3>1, <3>2, SoundFacts
      <4>. QED
        BY <1>5, <2>1, <2>2, <3>1, <4>1
    <3>3. CASE i = id
      <4>1. \A p \in g.parents[id] : p \in Ids /\ p \in g.nodes /\ g.signature[p] \subseteq Ids
        BY <1>1, SoundFacts DEF Edges
      <4>2. \A p \in g.parents[id] : g.signature[p] \subseteq h.signature[id]
        BY <1>3, <4>1
      <4>3. \A p \in g.parents[id] : g.signature[p] \subseteq Named(h)
        BY <2>2, <3>3, <4>2
      <4>4. a \in fewer[id] <=> \E p \in g.parents[id] : (a = p /\ p \in Named(h)) \/ a \in fewer[p]
        BY <1>1, <1>3, <1>10 DEF Above
      <4>5. a \in fewer[id] <=>
              \E p \in g.parents[id] : a # id /\ \E s \in g.signature[p] : a = s \/ a \in fewer[s]
        BY <2>1, <4>1, <4>3, <4>4
      <4>6. \A s \in h.signature[id] : s \in Ids /\ s # id
        BY <1>6, <2>2, <3>3, SoundFacts DEF Named
      <4>7. a = id => a \notin fewer[id] /\ \A s \in h.signature[id] : ~(a = s \/ a \in fewer[s])
        BY <1>1, <1>5, <4>6
      <4>8. \A s : s \in h.signature[id] <=> \E p \in g.parents[id] : s \in g.signature[p]
        BY <1>3, <4>1, <4>6
      <4>9. id \notin Named(h)
        BY <1>6
      <4>. QED
        BY <3>3, <4>5, <4>7, <4>8, <4>9
    <3>. QED
      BY <3>2, <3>3
  <2>. QED
    BY <2>2 DEF Signed
<1>13. Derived(h, later)
  <2>1. ASSUME NEW r \in h.relays, r \notin later, NEW s \in Ids
        PROVE  s \in h.signature[r] <=> \E p \in h.parents[r] : s \in h.signature[p]
    <3>1. r \in Ids /\ g.parents[r] \subseteq Ids /\ id \notin g.parents[r]
      BY <1>1, <1>3, <1>7, <2>1, SoundFacts
    <3>2. \A p \in g.parents[r] : h.signature[p] = g.signature[p]
      BY <1>3, <3>1
    <3>3. s \in h.signature[r] <=> \E p \in g.parents[r] : s \in g.signature[p]
      <4>1. CASE r = id
        BY <1>3, <4>1
      <4>2. CASE r # id
        <5>1. r \in g.relays /\ r \notin stale /\ h.signature[r] = g.signature[r]
          BY <1>3, <2>1, <3>1, <4>2
        <5>. QED
          BY <5>1, SoundFacts DEF Derived
      <4>. QED
        BY <4>1, <4>2
    <3>. QED
      BY <1>3, <3>2, <3>3
  <2>. QED
    BY <2>1 DEF Derived
<1>. QED
  BY <1>2, <1>8, <1>9, <1>10, <1>11, <1>12, <1>13 DEF Sound, h, fewer

\* A relay that takes the signature of its parents keeps a graph sound, once
\* its children are looked at again when that changed.
LEMMA RefreshKeeps ==
  ASSUME NEW g, NEW above, NEW stale, Sound(g, above, stale), NEW id \in g.relays, NEW later,
         \A r \in g.relays : r \notin later =>
           r = id \/ (r \notin stale /\ (id \in g.parents[r] =>
                        Graph!refresh_signature(g, id).signature[id] = g.signature[id]))
  PROVE  Sound(Graph!refresh_signature(g, id), above, later)
<1>. DEFINE h == Graph!refresh_signature(g, id)
<1>1. g \in GraphRec /\ id \in Ids /\ id \in g.nodes
  BY SoundFacts DEF Edges
<1>. HIDE DEF h
<1>2. h \in GraphRec /\ Refreshed(g, id, h)
  BY <1>1, RefreshFacts DEF h
<1>3. /\ h.nodes = g.nodes /\ h.relays = g.relays /\ h.cancelled = g.cancelled
      /\ h.parents = g.parents /\ h.children = g.children
      /\ \A i \in Ids : i # id => h.signature[i] = g.signature[i]
      /\ \A s \in Ids : s \in h.signature[id] <=> \E p \in g.parents[id] : s \in g.signature[p]
  BY <1>2 DEF Refreshed
<1>4. Named(h) = Named(g)
  BY <1>3 DEF Named
<1>5. \A p, c \in Ids : p \in g.parents[c] => p # c
  BY SoundFacts, IdFacts DEF Edges
<1>6. Edges(h) /\ Passed(h) /\ Above(h, above)
  BY <1>3, <1>4, SoundFacts DEF Edges, Passed, Above
<1>7. OwnSigned(h)
  BY <1>3, SoundFacts DEF OwnSigned
<1>8. Signed(h, above)
  <2>1. ASSUME NEW i \in g.nodes, g.signature[i] \subseteq Named(g), NEW a \in Ids
        PROVE  ((a = i /\ i \in Named(g)) \/ a \in above[i]) <=>
               \E s \in g.signature[i] : a = s \/ a \in above[s]
    BY <2>1, SoundFacts DEF Signed
  <2>2. ASSUME NEW i \in h.nodes, h.signature[i] \subseteq Named(h), NEW a \in Ids
        PROVE  ((a = i /\ i \in Named(h)) \/ a \in above[i]) <=>
               \E s \in h.signature[i] : a = s \/ a \in above[s]
    <3>1. i \in Ids /\ i \in g.nodes
      BY <1>3, <2>2, SoundFacts
    <3>2. CASE i # id
      <4>1. h.signature[i] = g.signature[i]
        BY <1>3, <3>1, <3>2
      <4>. QED
        BY <1>4, <2>1, <2>2, <3>1, <4>1
    <3>3. CASE i = id
      <4>1. \A p \in g.parents[id] : p \in Ids /\ p \in g.nodes /\ g.signature[p] \subseteq Ids
        BY <1>1, SoundFacts DEF Edges
      <4>2. \A p \in g.parents[id] : g.signature[p] \subseteq h.signature[id]
        BY <1>3, <4>1
      <4>3. \A p \in g.parents[id] : g.signature[p] \subseteq Named(g)
        BY <1>4, <2>2, <3>3, <4>2
      <4>4. a \in above[id] <=> \E p \in g.parents[id] : (a = p /\ p \in Named(g)) \/ a \in above[p]
        BY <1>1, SoundFacts DEF Above
      <4>5. a \in above[id] <=>
              \E p \in g.parents[id] : \E s \in g.signature[p] : a = s \/ a \in above[s]
        BY <2>1, <4>1, <4>3, <4>4
      <4>6. \A s : s \in h.signature[id] <=> \E p \in g.parents[id] : s \in g.signature[p]
        <5>1. \A s \in h.signature[id] : s \in Ids
          BY <1>1, <1>2, GraphParts
        <5>. QED
          BY <1>3, <4>1, <5>1
      <4>7. id \notin Named(h)
        BY <1>4 DEF Named
      <4>. QED
        BY <3>3, <4>5, <4>6, <4>7
    <3>. QED
      BY <3>2, <3>3
  <2>. QED
    BY <2>2 DEF Signed
<1>9. Derived(h, later)
  <2>1. ASSUME NEW r \in h.relays, r \notin later, NEW s \in Ids
        PROVE  s \in h.signature[r] <=> \E p \in h.parents[r] : s \in h.signature[p]
    <3>1. r \in Ids /\ r \in g.relays /\ g.parents[r] \subseteq Ids
      BY <1>3, <2>1, SoundFacts
    <3>2. \A p \in g.parents[r] : h.signature[p] = g.signature[p]
      BY <1>1, <1>3, <1>5, <2>1, <3>1 DEF h
    <3>3. s \in h.signature[r] <=> \E p \in g.parents[r] : s \in g.signature[p]
      <4>1. CASE r = id
        BY <1>3, <4>1
      <4>2. CASE r # id
        <5>1. r \notin stale /\ h.signature[r] = g.signature[r]
          BY <1>3, <2>1, <3>1, <4>2
        <5>. QED
          BY <3>1, <5>1, SoundFacts DEF Derived
      <4>. QED
        BY <4>1, <4>2
    <3>. QED
      BY <1>3, <3>2, <3>3
  <2>. QED
    BY <2>1 DEF Derived
<1>. QED
  BY <1>2, <1>6, <1>7, <1>8, <1>9 DEF Sound, h

\* Below the entries still to look at, signatures are made of tokens.
LEMMA SmallSigned ==
  ASSUME NEW g, NEW above, NEW stale, Sound(g, above, stale), NEW n \in g.nodes,
         \A r \in g.relays : r \in stale => n < r
  PROVE  g.signature[n] \subseteq Named(g)
<1>. DEFINE Bad == {i \in g.nodes : i <= n /\ ~(g.signature[i] \subseteq Named(g))}
<1>1. n \in Ids /\ Bad \in SUBSET Nat /\ g.nodes \subseteq Ids
  BY SoundFacts, IdFacts
<1>2. SUFFICES ASSUME Bad # {} PROVE FALSE
  BY <1>1, IdFacts
<1>3. PICK i \in Bad : \A j \in Bad : i <= j
  BY <1>1, <1>2, LeastNat
<1>4. i \in g.nodes /\ i \in Ids /\ i \in Nat /\ n \in Nat /\ i <= n /\ ~(g.signature[i] \subseteq Named(g))
  BY <1>1, <1>3, IdFacts
<1>5. CASE i \notin g.relays
  <2>1. g.signature[i] = {i}
    BY <1>4, <1>5, SoundFacts DEF OwnSigned
  <2>. QED
    BY <1>4, <1>5, <2>1 DEF Named
<1>6. CASE i \in g.relays
  <2>1. i \notin stale
    BY <1>4, <1>6
  <2>2. PICK s \in g.signature[i] : s \notin Named(g)
    BY <1>4
  <2>3. s \in Ids
    BY <1>4, SoundFacts
  <2>4. PICK p \in g.parents[i] : s \in g.signature[p]
    BY <1>6, <2>1, <2>3, SoundFacts DEF Derived
  <2>5. p \in Ids /\ p \in Nat /\ p < i /\ p \in g.nodes
    BY <1>4, SoundFacts, IdFacts DEF Edges
  <2>6. p \in Bad
    BY <1>4, <2>2, <2>4, <2>5
  <2>. QED
    BY <1>3, <1>4, <2>5, <2>6
<1>. QED
  BY <1>5, <1>6

\* Relays of one signature have the same tokens above, and the smaller one
\* takes over the children of the other.
LEMMA MergeKeeps ==
  ASSUME NEW g, NEW above, NEW stale, Sound(g, above, stale), NEW keep \in g.relays, NEW gone \in g.relays,
         keep < gone, g.signature[keep] = g.signature[gone], g.signature[keep] \subseteq Named(g),
         keep \in g.cancelled <=> gone \in g.cancelled,
         NEW later, \A r \in g.relays \ {gone} : r \notin later => r \notin stale
  PROVE  Sound(Graph!merge_relays(g, keep, gone), [c \in Ids |-> IF c = gone THEN {} ELSE above[c]], later)
<1>. DEFINE h == Graph!merge_relays(g, keep, gone)
            fewer == [c \in Ids |-> IF c = gone THEN {} ELSE above[c]]
<1>1. /\ g \in GraphRec /\ keep \in Ids /\ gone \in Ids /\ keep # gone
      /\ keep \in g.nodes /\ gone \in g.nodes /\ keep \notin Named(g) /\ gone \notin Named(g)
  BY SoundFacts, IdFacts DEF Edges, Named
<1>. HIDE DEF h
<1>2. h \in GraphRec /\ Merged(g, keep, gone, h)
  BY <1>1, MergeFacts DEF h
<1>3. /\ h.nodes = g.nodes \ {gone} /\ h.relays = g.relays \ {gone} /\ h.cancelled = g.cancelled \ {gone}
      /\ \A i \in Ids : h.parents[i] = IF i \in g.children[gone] THEN (g.parents[i] \ {gone}) \cup {keep}
                                       ELSE IF i = gone THEN {} ELSE g.parents[i]
      /\ \A i \in Ids : h.children[i] = IF i = keep THEN (g.children[i] \cup g.children[gone]) \ {gone}
                                        ELSE IF i = gone THEN {} ELSE g.children[i] \ {gone}
      /\ \A i \in Ids : h.signature[i] = IF i = gone THEN {gone} ELSE g.signature[i]
  BY <1>2 DEF Merged
<1>4. above \in [Ids -> SUBSET Ids] /\ fewer \in [Ids -> SUBSET Ids]
  BY SoundFacts DEF Above
<1>5. \A a, c \in Ids : a \in fewer[c] <=> c # gone /\ a \in above[c]
  BY <1>4
<1>. HIDE DEF fewer
<1>6. Named(h) = Named(g)
  BY <1>1, <1>3 DEF Named
<1>7. \A p, c \in Ids : p \in g.parents[c] <=> c \in g.children[p]
  BY SoundFacts DEF Edges
<1>8. \A p, c \in Ids : p \in g.parents[c] => p < c /\ p # c /\ p \in g.nodes /\ c \in g.nodes
  BY SoundFacts, IdFacts DEF Edges
<1>9. \A p, c \in Ids : p \in h.parents[c] <=>
        c # gone /\ p # gone /\ (p \in g.parents[c] \/ (gone \in g.parents[c] /\ p = keep))
  <2>1. ASSUME NEW p \in Ids, NEW c \in Ids
        PROVE  p \in h.parents[c] <=>
                 c # gone /\ p # gone /\ (p \in g.parents[c] \/ (gone \in g.parents[c] /\ p = keep))
    <3>1. /\ c \in g.children[gone] <=> gone \in g.parents[c]
          /\ gone \in g.parents[c] => c # gone
      BY <1>1, <1>7, <1>8
    <3>2. h.parents[c] = IF c \in g.children[gone] THEN (g.parents[c] \ {gone}) \cup {keep}
                         ELSE IF c = gone THEN {} ELSE g.parents[c]
      BY <1>3
    <3>. QED
      BY <1>1, <3>1, <3>2
  <2>. QED
    BY <2>1
<1>10. \A p, c \in Ids : c \in h.children[p] <=>
         c # gone /\ p # gone /\ (p \in g.parents[c] \/ (gone \in g.parents[c] /\ p = keep))
  <2>1. ASSUME NEW p \in Ids, NEW c \in Ids
        PROVE  c \in h.children[p] <=>
                 c # gone /\ p # gone /\ (p \in g.parents[c] \/ (gone \in g.parents[c] /\ p = keep))
    <3>1. /\ c \in g.children[gone] <=> gone \in g.parents[c]
          /\ c \in g.children[p] <=> p \in g.parents[c]
      BY <1>1, <1>7
    <3>2. h.children[p] = IF p = keep THEN (g.children[p] \cup g.children[gone]) \ {gone}
                          ELSE IF p = gone THEN {} ELSE g.children[p] \ {gone}
      BY <1>3
    <3>. QED
      BY <1>1, <3>1, <3>2
  <2>. QED
    BY <2>1
<1>11. Edges(h)
  <2>1. h.relays \subseteq h.nodes /\ h.cancelled \subseteq h.nodes
    BY <1>3, SoundFacts DEF Edges
  <2>2. ASSUME NEW p \in Ids, NEW c \in Ids, p \in h.parents[c]
        PROVE  p < c /\ p \in h.nodes /\ c \in h.nodes
    <3>1. c # gone /\ p # gone /\ (p \in g.parents[c] \/ (gone \in g.parents[c] /\ p = keep))
      BY <1>9, <2>2
    <3>2. p < c
      BY <1>1, <1>8, <3>1, IdFacts
    <3>. QED
      BY <1>1, <1>3, <1>8, <3>1, <3>2
  <2>. QED
    BY <1>9, <1>10, <2>1, <2>2 DEF Edges
<1>12. Passed(h)
  <2>1. \A p, c \in Ids : p \in g.parents[c] /\ p \in g.cancelled => c \in g.cancelled
    BY SoundFacts DEF Passed
  <2>. QED
    BY <1>1, <1>3, <1>9, <2>1 DEF Passed
<1>13. \A a \in Ids : a \in above[keep] <=> a \in above[gone]
  BY <1>1, SoundFacts DEF Signed
<1>14. Above(h, fewer)
  <2>1. /\ \A a, c \in Ids : a \in above[c] => a < c /\ a \in Named(g)
        /\ \A a, c \in Ids : a \in above[c] <=>
             \E p \in g.parents[c] : (a = p /\ p \in Named(g)) \/ a \in above[p]
    BY SoundFacts DEF Above
  <2>2. ASSUME NEW a \in Ids, NEW c \in Ids, a \in fewer[c]
        PROVE  \E p \in h.parents[c] : (a = p /\ p \in Named(h)) \/ a \in fewer[p]
    <3>1. c # gone /\ a \in above[c]
      BY <1>5, <2>2
    <3>2. PICK p \in g.parents[c] : (a = p /\ p \in Named(g)) \/ a \in above[p]
      BY <2>1, <3>1
    <3>3. p \in Ids
      BY SoundFacts
    <3>4. CASE p # gone
      <4>1. p \in h.parents[c]
        BY <1>9, <3>1, <3>2, <3>3, <3>4
      <4>. QED
        BY <1>5, <1>6, <3>2, <3>3, <3>4, <4>1
    <3>5. CASE p = gone
      <4>1. a \in above[keep] /\ keep \in h.parents[c]
        BY <1>1, <1>9, <1>13, <3>1, <3>2, <3>5
      <4>. QED
        BY <1>1, <1>5, <4>1
    <3>. QED
      BY <3>4, <3>5
  <2>3. ASSUME NEW a \in Ids, NEW c \in Ids, NEW p \in h.parents[c],
               (a = p /\ p \in Named(h)) \/ a \in fewer[p]
        PROVE  a \in fewer[c]
    <3>1. p \in Ids
      BY <1>2, GraphParts
    <3>2. c # gone /\ p # gone /\ (p \in g.parents[c] \/ (gone \in g.parents[c] /\ p = keep))
      BY <1>9, <3>1
    <3>3. (a = p /\ p \in Named(g)) \/ a \in above[p]
      BY <1>5, <1>6, <2>3, <3>1
    <3>4. CASE p \in g.parents[c]
      BY <1>5, <2>1, <3>2, <3>3, <3>4
    <3>5. CASE gone \in g.parents[c] /\ p = keep
      <4>1. a \in above[gone]
        BY <1>1, <1>13, <3>3, <3>5
      <4>. QED
        BY <1>5, <2>1, <3>2, <3>5, <4>1
    <3>. QED
      BY <3>2, <3>4, <3>5
  <2>4. \A a, c \in Ids : a \in fewer[c] => a < c /\ a \in Named(h)
    BY <1>5, <1>6, <2>1
  <2>. QED
    BY <1>4, <2>2, <2>3, <2>4 DEF Above
<1>15. OwnSigned(h)
  BY <1>3, SoundFacts DEF OwnSigned
<1>16. Signed(h, fewer)
  <2>1. ASSUME NEW i \in h.nodes, h.signature[i] \subseteq Named(h), NEW a \in Ids
        PROVE  ((a = i /\ i \in Named(h)) \/ a \in fewer[i]) <=>
               \E s \in h.signature[i] : a = s \/ a \in fewer[s]
    <3>1. i \in Ids /\ i \in g.nodes /\ i # gone /\ h.signature[i] = g.signature[i]
      BY <1>3, SoundFacts
    <3>2. ((a = i /\ i \in Named(g)) \/ a \in above[i]) <=> \E s \in g.signature[i] : a = s \/ a \in above[s]
      BY <1>6, <2>1, <3>1, SoundFacts DEF Signed
    <3>3. \A s \in g.signature[i] : s \in Ids /\ s # gone
      BY <1>1, <1>6, <2>1, <3>1, SoundFacts
    <3>. QED
      BY <1>5, <1>6, <3>1, <3>2, <3>3
  <2>. QED
    BY <2>1 DEF Signed
<1>17. Derived(h, later)
  <2>1. ASSUME NEW r \in h.relays, r \notin later, NEW s \in Ids
        PROVE  s \in h.signature[r] <=> \E p \in h.parents[r] : s \in h.signature[p]
    <3>1. r \in Ids /\ r \in g.relays /\ r # gone /\ r \notin stale /\ h.signature[r] = g.signature[r]
      BY <1>3, <2>1, SoundFacts
    <3>2. s \in g.signature[r] <=> \E p \in g.parents[r] : s \in g.signature[p]
      BY <3>1, SoundFacts DEF Derived
    <3>3. g.parents[r] \subseteq Ids /\ h.parents[r] \subseteq Ids
      BY <1>2, <3>1, GraphParts, SoundFacts
    <3>4. \A p \in Ids : p # gone => h.signature[p] = g.signature[p]
      BY <1>3
    <3>5. h.signature[keep] = g.signature[gone]
      BY <1>1, <3>4
    <3>. QED
      BY <1>1, <1>9, <3>1, <3>2, <3>3, <3>4, <3>5
  <2>. QED
    BY <2>1 DEF Derived
<1>. QED
  BY <1>2, <1>11, <1>12, <1>14, <1>15, <1>16, <1>17 DEF Sound, h, fewer

\* insert, field by field.
Inserted(g, id, up, h) ==
  /\ h.nodes = g.nodes \cup {id} /\ h.relays = g.relays
  /\ h.cancelled = (IF up \cap g.cancelled = {} THEN g.cancelled ELSE g.cancelled \cup {id})
  /\ \A i \in Ids : h.parents[i] = IF i = id THEN up ELSE g.parents[i]
  /\ \A i \in Ids : h.children[i] = IF i \in up THEN g.children[i] \cup {id} ELSE g.children[i]
  /\ h.signature = g.signature

\* A new token keeps a graph sound when no relay is left to look at.
LEMMA InsertKeeps ==
  ASSUME NEW g, NEW above, Sound(g, above, {}), NEW id \in Ids, NEW up \in SUBSET Named(g),
         \A i \in g.nodes : i < id, NEW h \in GraphRec, Inserted(g, id, up, h)
  PROVE  Sound(h, [c \in Ids |-> IF c = id THEN up \cup UNION {above[p] : p \in up} ELSE above[c]], {})
<1>. DEFINE more == [c \in Ids |-> IF c = id THEN up \cup UNION {above[p] : p \in up} ELSE above[c]]
<1>1. /\ g \in GraphRec /\ up \subseteq Ids /\ \A p \in up : p \in g.nodes /\ p \notin g.relays /\ p < id
      /\ id \notin g.nodes /\ id \notin g.relays /\ id \notin up
  BY SoundFacts, IdFacts DEF Named, Edges
<1>2. above \in [Ids -> SUBSET Ids]
  BY SoundFacts DEF Above
<1>3. more \in [Ids -> SUBSET Ids]
  BY <1>1, <1>2
<1>4. /\ \A a \in Ids : a \in more[id] <=> a \in up \/ \E p \in up : a \in above[p]
      /\ \A c \in Ids : c # id => more[c] = above[c]
  OBVIOUS
<1>. HIDE DEF more
<1>5. /\ h.nodes = g.nodes \cup {id} /\ h.relays = g.relays
      /\ h.cancelled = (IF up \cap g.cancelled = {} THEN g.cancelled ELSE g.cancelled \cup {id})
      /\ \A i \in Ids : h.parents[i] = IF i = id THEN up ELSE g.parents[i]
      /\ \A i \in Ids : h.children[i] = IF i \in up THEN g.children[i] \cup {id} ELSE g.children[i]
      /\ h.signature = g.signature
  BY DEF Inserted
<1>6. Named(h) = Named(g) \cup {id}
  BY <1>1, <1>5 DEF Named
<1>7. /\ \A p, c \in Ids : p \in g.parents[c] <=> c \in g.children[p]
      /\ \A p, c \in Ids : p \in g.parents[c] => p < c /\ p \in g.nodes /\ c \in g.nodes
  BY SoundFacts DEF Edges
<1>8. \A p, c \in Ids : p \in g.parents[c] => p # id /\ c # id
  BY <1>1, <1>7
<1>9. Edges(h)
  <2>1. ASSUME NEW p \in Ids, NEW c \in Ids
        PROVE  p \in h.parents[c] <=> c \in h.children[p]
    <3>1. h.parents[c] = (IF c = id THEN up ELSE g.parents[c]) /\ id \notin g.children[p]
      BY <1>5, <1>7, <1>8
    <3>2. h.children[p] = IF p \in up THEN g.children[p] \cup {id} ELSE g.children[p]
      BY <1>5
    <3>3. p \in g.parents[c] <=> c \in g.children[p]
      BY <1>7
    <3>. QED
      BY <3>1, <3>2, <3>3
  <2>2. \A p, c \in Ids : p \in h.parents[c] => p < c /\ p \in h.nodes /\ c \in h.nodes
    BY <1>1, <1>5, <1>7
  <2>. QED
    BY <1>1, <1>5, <2>1, <2>2, SoundFacts DEF Edges
<1>10. Passed(h)
  <2>1. \A p, c \in Ids : p \in g.parents[c] /\ p \in g.cancelled => c \in g.cancelled
    BY SoundFacts DEF Passed
  <2>. QED
    BY <1>1, <1>5, <1>8, <2>1 DEF Passed
<1>11. /\ \A a, c \in Ids : a \in above[c] => a < c /\ a \in Named(g)
       /\ \A a, c \in Ids : a \in above[c] <=>
            \E p \in g.parents[c] : (a = p /\ p \in Named(g)) \/ a \in above[p]
  BY SoundFacts DEF Above
<1>12. Above(h, more)
  <2>1. \A a, c \in Ids : a \in more[c] => a < c /\ a \in Named(h)
    <3>1. ASSUME NEW a \in Ids, a \in more[id]
          PROVE  a < id /\ a \in Named(h)
      BY <1>1, <1>4, <1>6, <1>11, <3>1, IdFacts
    <3>. QED
      BY <1>4, <1>6, <1>11, <3>1
  <2>2. ASSUME NEW a \in Ids, NEW c \in Ids
        PROVE  a \in more[c] <=> \E p \in h.parents[c] : (a = p /\ p \in Named(h)) \/ a \in more[p]
    <3>1. CASE c = id
      <4>1. h.parents[c] = up /\ \A p \in up : p \in Named(h) /\ more[p] = above[p]
        BY <1>1, <1>4, <1>5, <1>6, <3>1
      <4>. QED
        BY <1>4, <3>1, <4>1
    <3>2. CASE c # id
      <4>1. /\ h.parents[c] = g.parents[c] /\ more[c] = above[c] /\ g.parents[c] \subseteq Ids
            /\ \A p \in g.parents[c] : p # id /\ more[p] = above[p] /\ (p \in Named(h) <=> p \in Named(g))
        BY <1>4, <1>5, <1>6, <1>8, <3>2, SoundFacts
      <4>. QED
        BY <1>11, <4>1
    <3>. QED
      BY <3>1, <3>2
  <2>. QED
    BY <1>3, <2>1, <2>2 DEF Above
<1>13. OwnSigned(h)
  BY <1>5, SoundFacts DEF OwnSigned
<1>14. Signed(h, more)
  <2>1. ASSUME NEW i \in h.nodes, NEW a \in Ids
        PROVE  ((a = i /\ i \in Named(h)) \/ a \in more[i]) <=>
               \E s \in h.signature[i] : a = s \/ a \in more[s]
    <3>1. CASE i = id
      <4>1. h.signature[i] = {i} /\ i \in Named(h)
        BY <1>1, <1>5, <1>6, <3>1, SoundFacts DEF OwnSigned
      <4>. QED
        BY <4>1
    <3>2. CASE i # id
      <4>1. i \in g.nodes /\ i \in Ids
        BY <1>5, <3>2, SoundFacts
      <4>2. g.signature[i] \subseteq Named(g)
        BY <4>1, SmallSigned
      <4>3. ((a = i /\ i \in Named(g)) \/ a \in above[i]) <=> \E s \in g.signature[i] : a = s \/ a \in above[s]
        BY <4>1, <4>2, SoundFacts DEF Signed
      <4>4. \A s \in g.signature[i] : s # id /\ more[s] = above[s]
        BY <1>1, <1>4, <4>2, SoundFacts DEF Named
      <4>. QED
        BY <1>4, <1>5, <1>6, <3>2, <4>1, <4>3, <4>4
    <3>. QED
      BY <3>1, <3>2
  <2>. QED
    BY <2>1 DEF Signed
<1>15. Derived(h, {})
  <2>1. ASSUME NEW r \in h.relays, NEW s \in Ids
        PROVE  s \in h.signature[r] <=> \E p \in h.parents[r] : s \in h.signature[p]
    <3>1. r \in g.relays /\ r \in Ids /\ r # id
      BY <1>1, <1>5, SoundFacts
    <3>2. h.parents[r] = g.parents[r]
      BY <1>5, <3>1
    <3>. QED
      BY <1>5, <3>1, <3>2, SoundFacts DEF Derived
  <2>. QED
    BY <2>1 DEF Derived
<1>. QED
  BY <1>9, <1>10, <1>12, <1>13, <1>14, <1>15 DEF Sound, more

\* What Reached is defined by.
ReachedStep(g, id, R) ==
  R = [i \in Ids |-> i \notin g.cancelled /\ (i = id \/ \E p \in g.parents[i] : R[p])]

\* A request reaches the entries below the token that are not cancelled yet:
\* what is above them is not cancelled either.
LEMMA ReachedIs ==
  ASSUME NEW g, NEW above, NEW stale, Sound(g, above, stale), NEW id \in Named(g)
  PROVE  Graph!Reached(g, id) = {i \in Ids : i \notin g.cancelled /\ (i = id \/ id \in above[i])}
<1>. DEFINE f0 == [i \in Ids |-> i \notin g.cancelled /\ (i = id \/ id \in above[i])]
            f == CHOOSE R : ReachedStep(g, id, R)
            S == {i \in Ids : f[i]}
<1>1. /\ id \in Ids
      /\ \A i \in Ids : g.parents[i] \subseteq Ids
      /\ \A p, c \in Ids : p \in g.parents[c] /\ p \in g.cancelled => c \in g.cancelled
      /\ \A c \in Ids : id \in above[c] <=> \E p \in g.parents[c] : id = p \/ id \in above[p]
  BY SoundFacts DEF Passed, Above
<1>2. \A i \in Ids : (i \notin g.cancelled /\ (i = id \/ id \in above[i])) <=>
        i \notin g.cancelled /\ (i = id \/ \E p \in g.parents[i] : p \notin g.cancelled /\ (p = id \/ id \in above[p]))
  BY <1>1
<1>3. ReachedStep(g, id, f0)
  <2>1. \A i \in Ids : f0[i] <=> i \notin g.cancelled /\ (i = id \/ id \in above[i])
    BY Zenon
  <2>2. \A i \in Ids : (\E p \in g.parents[i] : f0[p]) <=>
          \E p \in g.parents[i] : p \notin g.cancelled /\ (p = id \/ id \in above[p])
    <3>. HIDE DEF f0
    <3>. QED
      BY Zenon, <1>1, <2>1
  <2>3. \A i \in Ids : (i \notin g.cancelled /\ (i = id \/ id \in above[i])) <=>
          i \notin g.cancelled /\ (i = id \/ \E p \in g.parents[i] : f0[p])
    <3>. HIDE DEF f0
    <3>. QED
      BY Zenon, <1>2, <2>2
  <2>4. f0 = [i \in Ids |-> i \notin g.cancelled /\ (i = id \/ \E p \in g.parents[i] : f0[p])]
    BY Zenon, <2>3
  <2>. QED
    BY Zenon, <2>4 DEF ReachedStep
<1>4. ReachedStep(g, id, f)
  BY Zenon, <1>3
<1>5. Graph!Reached(g, id) = S
  BY Zenon DEF Graph!Reached, ReachedStep, Ids
<1>. HIDE DEF f
<1>6. \A i \in Ids : i \in S <=> i \notin g.cancelled /\ (i = id \/ \E p \in g.parents[i] : p \in S)
  <2>1. \A i \in Ids : f[i] <=> i \notin g.cancelled /\ (i = id \/ \E p \in g.parents[i] : f[p])
    BY Zenon, <1>4 DEF ReachedStep
  <2>. QED
    BY Zenon, <1>1, <2>1
<1>7. S \subseteq Ids
  BY Zenon
<1>. HIDE DEF S
<1>. DEFINE Bad == {i \in Ids : ~(i \in S <=> i \notin g.cancelled /\ (i = id \/ id \in above[i]))}
<1>8. Bad = {}
  <2>1. SUFFICES ASSUME Bad # {} PROVE FALSE
    OBVIOUS
  <2>2. Bad \in SUBSET Nat
    BY IdFacts
  <2>3. PICK i \in Bad : \A j \in Bad : i <= j
    BY <2>1, <2>2, LeastNat
  <2>4. i \in Ids /\ i \in Nat /\ \A p \in g.parents[i] : p \in Ids /\ p \in Nat /\ p < i
    BY <2>2, SoundFacts, IdFacts DEF Edges
  <2>5. \A p \in g.parents[i] : p \notin Bad
    BY <2>3, <2>4
  <2>6. \A p \in g.parents[i] : p \in S <=> p \notin g.cancelled /\ (p = id \/ id \in above[p])
    BY <2>4, <2>5
  <2>7. (i \in S <=> i \notin g.cancelled /\ (i = id \/ id \in above[i]))
    BY <1>2, <1>6, <2>4, <2>6
  <2>. QED
    BY <2>3, <2>7
<1>. QED
  BY <1>5, <1>7, <1>8

\* What Ancestry is defined by.
AncestryStep(s, A) == A = [i \in 0..(Len(s) - 1) |-> s[i + 1] \cup UNION {A[p] : p \in s[i + 1]}]

\* A seed's tokens have as ancestors their parents and the ancestors of those.
LEMMA AncestryIs ==
  ASSUME NEW s \in Ancestries
  PROVE  /\ Graph!Ancestry(s) \in [Ids -> SUBSET Ids]
         /\ \A a, c \in Ids : a \in Graph!Ancestry(s)[c] => a < c /\ a < Len(s) /\ c < Len(s)
         /\ \A a, c \in Ids : c < Len(s) =>
              (a \in Graph!Ancestry(s)[c] <=> \E p \in s[c + 1] : a = p \/ a \in Graph!Ancestry(s)[p])
<1>. DEFINE U == 0..(Len(s) - 1)
            Closed(F) == \A c \in U : \A p \in s[c + 1] : p \in F[c] /\ F[p] \subseteq F[c]
            M == [c \in U |-> {a \in Ids : \A F \in [U -> SUBSET Ids] : Closed(F) => a \in F[c]}]
            A == CHOOSE A : AncestryStep(s, A)
            B == [i \in Ids |-> IF i < Len(s) THEN A[i] ELSE {}]
<1>1. /\ Len(s) \in Nat /\ U \subseteq Ids /\ U \subseteq Nat /\ Ids \subseteq Nat
      /\ \A c \in U : s[c + 1] \subseteq Ids
      /\ \A c \in U : \A p \in s[c + 1] : p < c /\ p \in U
  <2>1. s \in Seq(SUBSET Ids) /\ Len(s) <= MaxIds /\ \A i \in 1..Len(s) : \A p \in s[i] : p + 1 < i
    BY GraphAssumption DEF Graph!CancelGraphAssumption, Ids
  <2>2. ASSUME NEW c \in U
        PROVE  s[c + 1] \subseteq Ids /\ \A p \in s[c + 1] : p < c /\ p \in U
    <3>1. c + 1 \in 1..Len(s) /\ c \in Nat
      BY <2>1
    <3>2. s[c + 1] \subseteq Ids
      BY <2>1, <3>1
    <3>3. ASSUME NEW p \in s[c + 1]
          PROVE  p < c /\ p \in U
      <4>1. p \in Nat /\ p + 1 < c + 1
        BY <2>1, <3>1, <3>2, IdFacts
      <4>2. c \in Nat /\ c <= Len(s) - 1 /\ Len(s) \in Nat
        BY <2>1, <3>1
      <4>3. p < c /\ p <= Len(s) - 1
        BY <4>1, <4>2
      <4>. QED
        BY <4>1, <4>2, <4>3
    <3>. QED
      BY <3>2, <3>3
  <2>. QED
    BY <2>1, <2>2, IdFacts
<1>2. M \in [U -> SUBSET Ids]
  OBVIOUS
<1>3. \A c \in U : \A a \in Ids : a \in M[c] <=> \A F \in [U -> SUBSET Ids] : Closed(F) => a \in F[c]
  OBVIOUS
<1>. DEFINE D == [c \in U |-> s[c + 1] \cup UNION {M[p] : p \in s[c + 1]}]
<1>4. \A c \in U : \A a : a \in D[c] <=> a \in s[c + 1] \/ \E p \in s[c + 1] : a \in M[p]
  <2>. HIDE DEF M
  <2>. QED
    OBVIOUS
<1>5. D \in [U -> SUBSET Ids]
  <2>. HIDE DEF M
  <2>. QED
    BY <1>1, <1>2
<1>. HIDE DEF M, U
<1>6. Closed(M)
  BY <1>1, <1>2, <1>3
<1>. HIDE DEF D
<1>7. \A c \in U : D[c] \subseteq M[c]
  BY <1>1, <1>4, <1>6
<1>8. Closed(D)
  BY <1>1, <1>4, <1>7
<1>9. \A c \in U : M[c] \subseteq D[c]
  <2>1. ASSUME NEW c \in U, NEW a \in M[c]
        PROVE  a \in D[c]
    <3>1. a \in Ids
      BY <1>2
    <3>. HIDE DEF Closed
    <3>2. \A F \in [U -> SUBSET Ids] : Closed(F) => a \in F[c]
      BY <1>3, <3>1
    <3>. QED
      BY Zenon, <1>5, <1>8, <3>2
  <2>. QED
    BY <2>1
<1>10. M = D
  BY <1>2, <1>5, <1>7, <1>9
<1>11. AncestryStep(s, M)
  <2>. HIDE DEF Closed
  <2>. QED
    BY Zenon, <1>10 DEF AncestryStep, D, U
<1>12. AncestryStep(s, A)
  BY Zenon, <1>11
<1>13. Graph!Ancestry(s) = B
  BY Zenon DEF Graph!Ancestry, AncestryStep, Ids
<1>. HIDE DEF A
<1>14. \A c \in U : A[c] = s[c + 1] \cup UNION {A[p] : p \in s[c + 1]}
  BY <1>12 DEF AncestryStep, U
<1>15. \A c \in U : \A a : a \in A[c] <=> \E p \in s[c + 1] : a = p \/ a \in A[p]
  BY <1>14
<1>16. \A c \in U : A[c] \subseteq Ids /\ \A a \in A[c] : a < c
  <2>. DEFINE Bad == {c \in U : ~(A[c] \subseteq Ids /\ \A a \in A[c] : a < c)}
  <2>1. SUFFICES ASSUME Bad # {} PROVE FALSE
    OBVIOUS
  <2>2. PICK c \in Bad : \A j \in Bad : c <= j
    <3>1. Bad \in SUBSET Nat
      BY <1>1
    <3>. HIDE DEF Bad
    <3>. QED
      BY <2>1, <3>1, LeastNat
  <2>3. c \in U /\ c \in Nat /\ \A p \in s[c + 1] : p \in U /\ p \in Nat /\ p \in Ids /\ p < c
    BY <1>1, <2>2
  <2>4. \A p \in s[c + 1] : A[p] \subseteq Ids /\ \A a \in A[p] : a < p
    BY <2>2, <2>3
  <2>5. ASSUME NEW a \in A[c]
        PROVE  a \in Ids /\ a < c
    <3>1. PICK p \in s[c + 1] : a = p \/ a \in A[p]
      BY <1>15, <2>3
    <3>2. p \in Nat /\ p < c /\ c \in Nat /\ p \in Ids
      BY <2>3
    <3>3. CASE a = p
      BY <3>2, <3>3
    <3>4. CASE a \in A[p]
      <4>1. a \in Ids /\ a < p
        BY <2>4, <3>1, <3>4
      <4>2. a \in Nat
        BY <1>1, <4>1
      <4>. QED
        BY <3>2, <4>1, <4>2
    <3>. QED
      BY <3>1, <3>3, <3>4
  <2>. QED
    BY <2>2, <2>5
<1>17. \A i \in Ids : i \in U <=> i < Len(s)
  BY <1>1 DEF U
<1>18. B \in [Ids -> SUBSET Ids] /\ \A i \in Ids : B[i] = IF i < Len(s) THEN A[i] ELSE {}
  BY <1>16, <1>17
<1>. HIDE DEF B, Closed
<1>19. ASSUME NEW a \in Ids, NEW c \in Ids, a \in B[c]
       PROVE  a < c /\ a < Len(s) /\ c < Len(s)
  BY <1>1, <1>16, <1>17, <1>18, <1>19
<1>20. ASSUME NEW a \in Ids, NEW c \in Ids, c < Len(s)
       PROVE  a \in B[c] <=> \E p \in s[c + 1] : a = p \/ a \in B[p]
  BY <1>1, <1>15, <1>17, <1>18, <1>20
<1>. QED
  BY <1>13, <1>18, <1>19, <1>20

-----------------------------------------------------------------------------
(* The inductive invariant *)

\* Every identity in use was handed out.
Handed ==
  /\ node \in Nat /\ known \subseteq Ids /\ dirty \subseteq Ids /\ requested \subseteq Ids
  /\ ancestors \in [Ids -> SUBSET Ids]
  /\ \A i \in graph.nodes : i < node
  /\ \A i \in requested : i < node
  /\ \A i \in Ids : \A a \in ancestors[i] : a < node

\* A token has a handle, waits to be retired, or is about to be removed.
Kept ==
  /\ retired \in LineOf(Ids) /\ due \in LineOf(Ids)
  /\ live \subseteq Named(graph) /\ ToSet(retired) \subseteq Named(graph) /\ ToSet(due) \subseteq Named(graph)
  /\ live \cap ToSet(retired) = {} /\ live \cap ToSet(due) = {} /\ ToSet(retired) \cap ToSet(due) = {}

\* Above a token are those of its ancestors that are still tokens.
Inherits(g, above, anc) == \A t \in Named(g) : above[t] = anc[t] \cap Named(g)

\* A token is cancelled exactly when it or one of its ancestors was.
Told(g, anc, req) == \A t \in Named(g) : t \in g.cancelled <=> t \in req \/ \E a \in anc[t] : a \in req

GraphInv ==
  /\ Handed /\ Kept /\ Told(graph, ancestors, requested)
  /\ \E above : Sound(graph, above, dirty) /\ Inherits(graph, above, ancestors)

\* The invariant gives the property.
LEMMA ToldIsExact == GraphInv => CancelExact
BY DEF GraphInv, Kept, Told, CancelExact, Graph!CancelExact

\* The least and the greatest of a few identities.
LEMMA MinFacts ==
  ASSUME NEW S \in SUBSET Ids, S # {}
  PROVE  Graph!Min(S) \in S /\ \A y \in S : Graph!Min(S) <= y
<1>1. \E x \in S : \A y \in S : x <= y
  BY IdFacts, LeastNat
<1>. QED
  BY <1>1 DEF Graph!Min

LEMMA MaxFacts ==
  ASSUME NEW i \in Ids, NEW j \in Ids
  PROVE  Graph!Max({i, j}) \in {i, j} /\ Graph!Max({i, j}) >= i /\ Graph!Max({i, j}) >= j
<1>1. \E x \in {i, j} : \A y \in {i, j} : x >= y
  BY IdFacts
<1>. QED
  BY <1>1 DEF Graph!Max

-----------------------------------------------------------------------------
(* Tokens *)

\* insert, field by field.
LEMMA InsertFacts ==
  ASSUME NEW up \in SUBSET Ids, graph \in GraphRec, Graph!insert(up)
  PROVE  graph' \in GraphRec /\ Inserted(graph, node, up, graph')
<1>. DEFINE par == [graph.parents EXCEPT ![node] = up]
            chi == [i \in Ids |-> IF i \in up THEN graph.children[i] \cup {node} ELSE graph.children[i]]
            can == IF up \cap graph.cancelled = {} THEN graph.cancelled ELSE graph.cancelled \cup {node}
<1>1. node \in Ids
  BY DEF Graph!insert, Ids
<1>2. graph' = [graph EXCEPT !.nodes = graph.nodes \cup {node}, !.parents = par, !.children = chi,
                             !.cancelled = can]
  BY DEF Graph!insert, Ids
<1>3. par \in [Ids -> SUBSET Ids] /\ chi \in [Ids -> SUBSET Ids] /\ can \in SUBSET Ids
  BY <1>1 DEF GraphRec
<1>4. /\ \A i \in Ids : par[i] = IF i = node THEN up ELSE graph.parents[i]
      /\ \A i \in Ids : chi[i] = IF i \in up THEN graph.children[i] \cup {node} ELSE graph.children[i]
      /\ can = IF up \cap graph.cancelled = {} THEN graph.cancelled ELSE graph.cancelled \cup {node}
  BY <1>1 DEF GraphRec
<1>. HIDE DEF par, chi, can
<1>5. /\ graph'.nodes = graph.nodes \cup {node} /\ graph'.parents = par /\ graph'.children = chi
      /\ graph'.cancelled = can /\ graph'.relays = graph.relays /\ graph'.signature = graph.signature
  BY <1>2 DEF GraphRec
<1>6. graph' = [nodes |-> graph.nodes \cup {node}, relays |-> graph.relays, cancelled |-> can,
                parents |-> par, children |-> chi, signature |-> graph.signature]
  BY <1>2 DEF GraphRec
<1>7. graph' \in GraphRec
  BY <1>1, <1>3, <1>6, GraphParts DEF GraphRec
<1>. QED
  BY <1>4, <1>5, <1>7 DEF Inserted

\* A new token is cancelled when a parent is.
LEMMA InsertSafe ==
  ASSUME GraphInv, NEW up \in SUBSET live, Graph!insert(up)
  PROVE  GraphInv'
<1>1. PICK above : Sound(graph, above, dirty) /\ Inherits(graph, above, ancestors)
  BY DEF GraphInv
<1>. DEFINE more == [c \in Ids |-> IF c = node THEN up \cup UNION {above[p] : p \in up} ELSE above[c]]
<1>2. /\ due = <<>> /\ known = {} /\ dirty = {} /\ node \in Ids /\ node' = node + 1
      /\ live' = live \cup {node}
      /\ retired' = retired /\ due' = due /\ known' = known /\ dirty' = dirty /\ requested' = requested
      /\ ancestors' = [ancestors EXCEPT ![node] = up \cup UNION {ancestors[p] : p \in up}]
  BY DEF Graph!insert, Graph!Unlocked, Graph!Inherited, Ids
<1>3. /\ graph \in GraphRec /\ up \in SUBSET Named(graph) /\ up \subseteq Ids
      /\ Named(graph) \subseteq graph.nodes /\ Named(graph) \subseteq Ids /\ graph.nodes \subseteq Ids
  BY <1>1, SoundFacts DEF GraphInv, Kept, Named
<1>4. graph' \in GraphRec /\ Inserted(graph, node, up, graph')
  BY <1>3, InsertFacts
<1>5. /\ node \in Nat /\ \A i \in graph.nodes : i < node /\ i # node
      /\ \A i \in requested : i < node /\ i # node
      /\ \A i \in Ids : \A a \in ancestors[i] : a \in Ids /\ a < node /\ a # node
      /\ requested \subseteq Ids /\ ancestors \in [Ids -> SUBSET Ids]
  BY IdFacts DEF GraphInv, Handed
<1>6. Sound(graph', more, dirty')
  <2>1. Sound(graph, above, {}) /\ node \in Ids
    BY <1>1, <1>2
  <2>2. \A i \in graph.nodes : i < node
    BY <1>5
  <2>3. Sound(graph', more, {})
    <3>. HIDE DEF Sound
    <3>. QED
      BY <1>3, <1>4, <2>1, <2>2, InsertKeeps
  <2>. QED
    BY <1>2, <2>3
<1>7. Named(graph') = Named(graph) \cup {node} /\ graph'.nodes = graph.nodes \cup {node}
      /\ node \notin Named(graph) /\ graph.relays \subseteq graph.nodes
      /\ graph'.cancelled = (IF up \cap graph.cancelled = {} THEN graph.cancelled
                             ELSE graph.cancelled \cup {node})
      /\ graph.cancelled \subseteq graph.nodes
  BY <1>1, <1>3, <1>4, <1>5, SoundFacts DEF Inserted, Named, Edges
<1>8. /\ ancestors' \in [Ids -> SUBSET Ids]
      /\ \A a : a \in ancestors'[node] <=> a \in up \/ \E p \in up : a \in ancestors[p]
      /\ \A t \in Ids : t # node => ancestors'[t] = ancestors[t]
  <2>. DEFINE new == up \cup UNION {ancestors[p] : p \in up}
  <2>1. new \subseteq Ids /\ \A a : a \in new <=> a \in up \/ \E p \in up : a \in ancestors[p]
    BY <1>3, <1>5
  <2>2. ancestors' = [ancestors EXCEPT ![node] = new]
    BY <1>2
  <2>3. node \in Ids /\ ancestors \in [Ids -> SUBSET Ids]
    BY <1>2, <1>5
  <2>. HIDE DEF new
  <2>4. ancestors' \in [Ids -> SUBSET Ids] /\ ancestors'[node] = new
    BY <2>1, <2>2, <2>3
  <2>5. \A t \in Ids : t # node => ancestors'[t] = ancestors[t]
    BY <2>2, <2>3
  <2>. QED
    BY <2>1, <2>4, <2>5
<1>9. /\ \A a \in Ids : a \in more[node] <=> a \in up \/ \E p \in up : a \in above[p]
      /\ \A c \in Ids : c # node => more[c] = above[c]
      /\ above \in [Ids -> SUBSET Ids] /\ more \in [Ids -> SUBSET Ids]
  <2>1. above \in [Ids -> SUBSET Ids] /\ more \in [Ids -> SUBSET Ids]
    BY <1>1, <1>6, SoundFacts DEF Above
  <2>. QED
    BY <1>2, <2>1
<1>. HIDE DEF more
<1>10. Inherits(graph', more, ancestors')
  <2>1. ASSUME NEW t \in Named(graph), NEW a \in Ids
        PROVE  a \in above[t] <=> a \in ancestors[t] /\ a \in Named(graph)
    BY <1>1, <2>1 DEF Inherits
  <2>2. ASSUME NEW t \in Named(graph')
        PROVE  more[t] = ancestors'[t] \cap Named(graph')
    <3>1. CASE t = node
      <4>1. \A a \in Ids : a \in more[t] <=> a \in ancestors'[t] /\ a \in Named(graph')
        <5>1. \A a \in Ids, p \in up : a \in above[p] <=> a \in ancestors[p] /\ a \in Named(graph)
          BY <1>3, <2>1
        <5>2. \A p \in up : node \notin ancestors[p]
          BY <1>3, <1>5
        <5>. QED
          BY <1>3, <1>7, <1>8, <1>9, <3>1, <5>1, <5>2
      <4>2. more[t] \subseteq Ids /\ ancestors'[t] \subseteq Ids
        BY <1>2, <1>8, <1>9, <3>1
      <4>. QED
        BY <4>1, <4>2
    <3>2. CASE t # node
      <4>1. t \in Named(graph) /\ t \in Ids /\ more[t] = above[t] /\ ancestors'[t] = ancestors[t]
        BY <1>3, <1>7, <1>8, <1>9, <3>2
      <4>2. above[t] = ancestors[t] \cap Named(graph) /\ node \notin ancestors[t]
        BY <1>1, <1>5, <4>1 DEF Inherits
      <4>. QED
        BY <1>7, <4>1, <4>2
    <3>. QED
      BY <3>1, <3>2
  <2>. QED
    BY <2>2 DEF Inherits
<1>11. Told(graph', ancestors', requested')
  <2>1. \A t \in Named(graph) : t \in graph.cancelled <=> t \in requested \/ \E a \in ancestors[t] : a \in requested
    BY DEF GraphInv, Told
  <2>2. ASSUME NEW t \in Named(graph')
        PROVE  t \in graph'.cancelled <=> t \in requested \/ \E a \in ancestors'[t] : a \in requested
    <3>1. CASE t = node
      <4>1. t \in graph'.cancelled <=> \E p \in up : p \in graph.cancelled
        BY <1>3, <1>5, <1>7, <3>1
      <4>2. t \notin requested
        BY <1>5, <3>1
      <4>3. \A p \in up : p \in graph.cancelled <=> p \in requested \/ \E a \in ancestors[p] : a \in requested
        BY <1>3, <2>1
      <4>. QED
        BY <1>8, <3>1, <4>1, <4>2, <4>3
    <3>2. CASE t # node
      BY <1>3, <1>7, <1>8, <2>1, <3>2
    <3>. QED
      BY <3>1, <3>2
  <2>. QED
    BY <1>2, <2>2 DEF Told
<1>12. Handed'
  <2>1. node' \in Nat /\ node < node' /\ \A i \in Ids : i < node => i < node'
    BY <1>2, <1>5, IdFacts
  <2>2. \A i \in graph'.nodes : i < node'
    BY <1>3, <1>5, <1>7, <2>1
  <2>3. ASSUME NEW i \in Ids, NEW a \in ancestors'[i]
        PROVE  a < node'
    <3>1. CASE i = node
      BY <1>3, <1>5, <1>8, <2>1, <3>1
    <3>2. CASE i # node
      BY <1>5, <1>8, <2>1, <3>2
    <3>. QED
      BY <3>1, <3>2
  <2>4. known' \subseteq Ids /\ dirty' \subseteq Ids
    BY <1>2
  <2>. QED
    BY <1>2, <1>5, <1>8, <2>1, <2>2, <2>3, <2>4 DEF Handed
<1>13. Kept'
  <2>1. node \notin ToSet(retired) /\ node \notin ToSet(due)
    BY <1>7 DEF GraphInv, Kept
  <2>. QED
    BY <1>2, <1>7, <2>1 DEF GraphInv, Kept
<1>. QED
  BY <1>6, <1>10, <1>11, <1>12, <1>13 DEF GraphInv

\* A request reaches the token and the tokens below it.
LEMMA CancelSafe ==
  ASSUME GraphInv, NEW id \in live, Graph!cancel(id)
  PROVE  GraphInv'
<1>1. PICK above : Sound(graph, above, dirty) /\ Inherits(graph, above, ancestors)
  BY DEF GraphInv
<1>. DEFINE hit == Graph!Reached(graph, id)
<1>2. /\ graph' = [graph EXCEPT !.cancelled = @ \cup hit]
      /\ known' = hit \cap graph.relays /\ requested' = requested \cup {id}
      /\ node' = node /\ live' = live /\ retired' = retired /\ due' = due /\ dirty' = dirty
      /\ ancestors' = ancestors
  BY DEF Graph!cancel
<1>3. id \in Named(graph) /\ id \in Ids /\ id \in graph.nodes
  BY <1>1, SoundFacts DEF GraphInv, Kept, Named
<1>4. \A i : i \in hit <=> i \in Ids /\ i \notin graph.cancelled /\ (i = id \/ id \in above[i])
  BY <1>1, <1>3, ReachedIs
<1>. HIDE DEF hit
<1>5. /\ graph \in GraphRec /\ graph.nodes \subseteq Ids /\ graph.relays \subseteq graph.nodes
      /\ Named(graph) \subseteq Ids
      /\ \A i \in Ids : graph.parents[i] \subseteq Ids
      /\ \A p, c \in Ids : p \in graph.parents[c] => c \in graph.nodes
      /\ \A p, c \in Ids : p \in graph.parents[c] /\ p \in graph.cancelled => c \in graph.cancelled
      /\ \A c \in Ids : id \in above[c] <=> \E p \in graph.parents[c] : id = p \/ id \in above[p]
  BY <1>1, <1>3, SoundFacts DEF Edges, Passed, Above
<1>6. hit \subseteq Ids /\ hit \subseteq graph.nodes
  BY <1>3, <1>4, <1>5
<1>7. /\ graph'.nodes = graph.nodes /\ graph'.relays = graph.relays /\ graph'.cancelled = graph.cancelled \cup hit
      /\ graph'.parents = graph.parents /\ graph'.children = graph.children
      /\ graph'.signature = graph.signature
  BY <1>2, <1>5 DEF GraphRec
<1>8. graph' \in GraphRec
  BY <1>2, <1>5, <1>6 DEF GraphRec
<1>9. Named(graph') = Named(graph)
  BY <1>7 DEF Named
<1>10. Sound(graph', above, dirty')
  <2>1. Edges(graph')
    BY <1>1, <1>6, <1>7, SoundFacts DEF Edges
  <2>2. Passed(graph')
    <3>1. ASSUME NEW p \in Ids, NEW c \in Ids, p \in graph.parents[c], p \in graph.cancelled \cup hit
          PROVE  c \in graph.cancelled \cup hit
      BY <1>4, <1>5, <3>1
    <3>. QED
      BY <1>7, <3>1 DEF Passed
  <2>3. Above(graph', above) /\ OwnSigned(graph') /\ Signed(graph', above) /\ Derived(graph', dirty)
    BY <1>1, <1>7, <1>9, SoundFacts DEF Above, OwnSigned, Signed, Derived
  <2>. QED
    BY <1>2, <1>8, <2>1, <2>2, <2>3 DEF Sound
<1>11. Inherits(graph', above, ancestors')
  BY <1>1, <1>2, <1>9 DEF Inherits
<1>12. Told(graph', ancestors', requested')
  <2>1. ASSUME NEW t \in Named(graph)
        PROVE  t \in graph'.cancelled <=> t \in requested' \/ \E a \in ancestors[t] : a \in requested'
    <3>1. t \in graph.cancelled <=> t \in requested \/ \E a \in ancestors[t] : a \in requested
      BY DEF GraphInv, Told
    <3>2. id \in above[t] <=> id \in ancestors[t]
      BY <1>1, <1>3 DEF Inherits
    <3>3. t \in graph'.cancelled <=> t \in graph.cancelled \/ t = id \/ id \in above[t]
      BY <1>4, <1>5, <1>7
    <3>. QED
      BY <1>2, <3>1, <3>2, <3>3
  <2>. QED
    BY <1>2, <1>9, <2>1 DEF Told
<1>13. Handed'
  <2>1. \A i \in requested' : i \in Ids /\ i < node
    BY <1>2, <1>3 DEF GraphInv, Handed
  <2>2. known' \subseteq Ids
    BY <1>2, <1>6
  <2>. QED
    BY <1>2, <1>7, <2>1, <2>2 DEF GraphInv, Handed
<1>14. Kept'
  BY <1>2, <1>9 DEF GraphInv, Kept
<1>. QED
  BY <1>10, <1>11, <1>12, <1>13, <1>14 DEF GraphInv

\* A token that loses its handle is still a token.
LEMMA DropSafe ==
  ASSUME GraphInv, NEW id \in live, Graph!drop_token(id)
  PROVE  GraphInv'
<1>1. /\ live' = live \ {id} /\ due = <<>>
      /\ \/ retired' = Append(retired, id) /\ due' = due
         \/ retired' = <<>> /\ due' = Append(retired, id)
      /\ node' = node /\ graph' = graph /\ known' = known /\ dirty' = dirty
      /\ ancestors' = ancestors /\ requested' = requested
  BY DEF Graph!drop_token, Graph!Unlocked
<1>2. /\ retired \in LineOf(Ids) /\ due \in LineOf(Ids) /\ id \in Ids /\ id \notin ToSet(retired)
      /\ live \subseteq Named(graph) /\ ToSet(retired) \subseteq Named(graph) /\ id \in Named(graph)
      /\ live \cap ToSet(retired) = {}
  <2>1. Named(graph) \subseteq Ids
    BY SoundFacts DEF GraphInv
  <2>. QED
    BY <2>1 DEF GraphInv, Kept
<1>3. Append(retired, id) \in LineOf(Ids) /\ ToSet(Append(retired, id)) = ToSet(retired) \cup {id}
  BY <1>2, JoinLine
<1>4. <<>> \in LineOf(Ids) /\ ToSet(<<>>) = {}
  BY NobodyInLine
<1>5. Kept'
  <2>1. Named(graph') = Named(graph)
    BY <1>1
  <2>2. CASE retired' = Append(retired, id) /\ due' = due
    BY <1>1, <1>2, <1>3, <1>4, <2>1, <2>2 DEF Kept
  <2>3. CASE retired' = <<>> /\ due' = Append(retired, id)
    BY <1>1, <1>2, <1>3, <1>4, <2>1, <2>3 DEF Kept
  <2>. QED
    BY <1>1, <2>2, <2>3
<1>. QED
  BY <1>1, <1>5 DEF GraphInv, Handed

-----------------------------------------------------------------------------
(* Removal and normalization *)

\* Splicing out keeps what the tokens know.
LEMMA EraseTold ==
  ASSUME NEW g \in GraphRec, NEW above, NEW anc, NEW req, Inherits(g, above, anc), Told(g, anc, req),
         NEW id \in Ids
  PROVE  LET h == Graph!erase(g, id)
             fewer == [c \in Ids |-> IF c = id THEN {} ELSE above[c] \ {id}]
         IN /\ Inherits(h, fewer, anc) /\ Told(h, anc, req)
            /\ Named(h) = Named(g) \ {id} /\ h.nodes \subseteq g.nodes
<1>. DEFINE h == Graph!erase(g, id)
            fewer == [c \in Ids |-> IF c = id THEN {} ELSE above[c] \ {id}]
<1>. HIDE DEF h
<1>1. h.nodes = g.nodes \ {id} /\ h.relays = g.relays \ {id} /\ h.cancelled = g.cancelled \ {id}
  <2>1. Erased(g, id, h)
    BY EraseFacts DEF h
  <2>. QED
    BY <2>1 DEF Erased
<1>2. Named(h) = Named(g) \ {id} /\ Named(h) \subseteq Ids
  BY <1>1, GraphParts DEF Named
<1>3. \A t \in Named(h) : (t \in h.cancelled <=> t \in g.cancelled) /\ fewer[t] = above[t] \ {id}
  BY <1>1, <1>2
<1>. HIDE DEF fewer
<1>4. Inherits(h, fewer, anc) /\ Told(h, anc, req)
  BY <1>2, <1>3 DEF Inherits, Told
<1>. QED
  BY <1>1, <1>2, <1>4 DEF h, fewer

\* So does turning a token into a relay.
LEMMA RelayTold ==
  ASSUME NEW g \in GraphRec, NEW above, NEW anc, NEW req, Inherits(g, above, anc), Told(g, anc, req),
         NEW id \in Ids
  PROVE  LET h == Graph!to_relay(g, id)
             fewer == [c \in Ids |-> above[c] \ {id}]
         IN /\ Inherits(h, fewer, anc) /\ Told(h, anc, req)
            /\ Named(h) = Named(g) \ {id} /\ h.nodes \subseteq g.nodes
<1>. DEFINE h == Graph!to_relay(g, id)
            fewer == [c \in Ids |-> above[c] \ {id}]
<1>. HIDE DEF h
<1>1. /\ h.nodes = g.nodes /\ h.relays = g.relays \cup {id}
      /\ \A i : i # id => (i \in h.cancelled <=> i \in g.cancelled)
  <2>1. Relayed(g, id, h)
    BY RelayFacts DEF h
  <2>. QED
    BY <2>1 DEF Relayed
<1>2. Named(h) = Named(g) \ {id} /\ Named(h) \subseteq Ids
  BY <1>1, GraphParts DEF Named
<1>3. \A t \in Named(h) : (t \in h.cancelled <=> t \in g.cancelled) /\ fewer[t] = above[t] \ {id}
  BY <1>1, <1>2
<1>. HIDE DEF fewer
<1>4. Inherits(h, fewer, anc) /\ Told(h, anc, req)
  BY <1>2, <1>3 DEF Inherits, Told
<1>. QED
  BY <1>1, <1>2, <1>4 DEF h, fewer

\* What is left of the invariant once the graph is sound.
LEMMA LossSafe ==
  ASSUME Handed, Kept, NEW up, Sound(graph', up, dirty'), Inherits(graph', up, ancestors),
         Told(graph', ancestors, requested), NEW id, Named(graph') = Named(graph) \ {id},
         graph'.nodes \subseteq graph.nodes, id \notin live, id \notin ToSet(retired),
         id \notin ToSet(due'), due' \in LineOf(Ids), ToSet(due') \subseteq ToSet(due),
         UNCHANGED <<node, live, retired, ancestors, requested>>,
         known' \subseteq Ids, dirty' \subseteq Ids
  PROVE  GraphInv'
<1>1. Handed'
  BY DEF Handed
<1>2. Kept'
  BY DEF Kept
<1>. QED
  BY <1>1, <1>2 DEF GraphInv

\* The next retired token is spliced out, or becomes a relay.
LEMMA RemoveSafe ==
  ASSUME GraphInv, Graph!remove
  PROVE  GraphInv'
<1>. DEFINE id == Head(due)
<1>1. PICK above : Sound(graph, above, dirty) /\ Inherits(graph, above, ancestors)
  BY DEF GraphInv
<1>2. Handed /\ Kept /\ Told(graph, ancestors, requested)
  BY DEF GraphInv
<1>3. /\ due # <<>> /\ known = {} /\ dirty = {} /\ due' = Tail(due)
      /\ node' = node /\ live' = live /\ retired' = retired /\ ancestors' = ancestors
      /\ requested' = requested
  BY DEF Graph!remove
<1>4. \/ /\ graph.children[id] = {} /\ graph' = Graph!erase(graph, id) /\ known' = known /\ dirty' = dirty
      \/ graph' = Graph!to_relay(graph, id) /\ known' = {id} /\ dirty' = graph.children[id]
      \/ /\ graph' = Graph!erase(graph, id) /\ known' = graph.parents[id]
         /\ dirty' = graph.children[id]
  BY DEF Graph!remove
<1>5. /\ id \in ToSet(due) /\ due' \in LineOf(Ids) /\ ToSet(due') = ToSet(due) \ {id}
      /\ id \in Named(graph) /\ id \notin live /\ id \notin ToSet(retired)
  <2>1. due \in LineOf(Ids)
    BY <1>2 DEF Kept
  <2>2. id \in ToSet(due) /\ due' \in LineOf(Ids) /\ ToSet(due') = ToSet(due) \ {id}
    BY <1>3, <2>1, ServeLine
  <2>. QED
    BY <1>2, <2>2 DEF Kept
<1>. HIDE DEF id
<1>6. /\ id \in Ids /\ id \in graph.nodes /\ graph \in GraphRec
      /\ graph.children[id] \subseteq Ids /\ graph.parents[id] \subseteq Ids /\ graph.relays \subseteq Ids
      /\ \A r \in Ids : id \in graph.parents[r] <=> r \in graph.children[id]
  BY <1>1, <1>5, SoundFacts DEF Named, Edges
<1>7. CASE graph' = Graph!erase(graph, id)
  <2>. DEFINE fewer == [c \in Ids |-> IF c = id THEN {} ELSE above[c] \ {id}]
  <2>1. known' \subseteq Ids /\ dirty' \subseteq Ids
    BY <1>3, <1>4, <1>6
  <2>2. \A r \in graph.relays \ {id} : r \notin dirty' => r \notin dirty /\ id \notin graph.parents[r]
    <3>1. dirty' = graph.children[id] \/ graph.children[id] = {}
      BY <1>4
    <3>. QED
      BY <1>3, <1>6, <3>1
  <2>3. Sound(graph', fewer, dirty')
    <3>1. Sound(Graph!erase(graph, id), fewer, dirty')
      BY <1>1, <1>6, <2>2, EraseKeeps
    <3>. QED
      BY <1>7, <3>1
  <2>4. /\ Inherits(graph', fewer, ancestors) /\ Told(graph', ancestors, requested)
        /\ Named(graph') = Named(graph) \ {id} /\ graph'.nodes \subseteq graph.nodes
    BY <1>1, <1>2, <1>6, <1>7, EraseTold
  <2>. HIDE DEF fewer
  <2>. QED
    BY <1>2, <1>3, <1>5, <2>1, <2>3, <2>4, LossSafe
<1>8. CASE graph' = Graph!to_relay(graph, id) /\ known' = {id} /\ dirty' = graph.children[id]
  <2>. DEFINE fewer == [c \in Ids |-> above[c] \ {id}]
  <2>1. known' \subseteq Ids /\ dirty' \subseteq Ids
    BY <1>6, <1>8
  <2>2. \A r \in graph.relays : r \notin dirty' => r \notin dirty /\ id \notin graph.parents[r]
    BY <1>3, <1>6, <1>8
  <2>3. Sound(graph', fewer, dirty')
    <3>1. Sound(Graph!to_relay(graph, id), fewer, dirty')
      BY <1>1, <1>5, <2>2, RelayKeeps
    <3>. QED
      BY <1>8, <3>1
  <2>4. /\ Inherits(graph', fewer, ancestors) /\ Told(graph', ancestors, requested)
        /\ Named(graph') = Named(graph) \ {id} /\ graph'.nodes \subseteq graph.nodes
    BY <1>1, <1>2, <1>6, <1>8, RelayTold
  <2>. HIDE DEF fewer
  <2>. QED
    BY <1>2, <1>3, <1>5, <2>1, <2>3, <2>4, LossSafe
<1>. QED
  BY <1>4, <1>7, <1>8

\* Looking at more relays again, or at fewer entries that are none, does no harm.
LEMMA StaleKeeps ==
  ASSUME NEW g, NEW above, NEW stale, Sound(g, above, stale), NEW later,
         \A r \in g.relays : r \notin later => r \notin stale
  PROVE  Sound(g, above, later)
BY DEF Sound, Derived

\* A signature is nothing the tokens know of.
LEMMA RefreshTold ==
  ASSUME NEW g \in GraphRec, NEW above, NEW anc, NEW req, Inherits(g, above, anc), Told(g, anc, req),
         NEW id \in Ids
  PROVE  LET h == Graph!refresh_signature(g, id)
         IN /\ Inherits(h, above, anc) /\ Told(h, anc, req) /\ Named(h) = Named(g) /\ h.nodes = g.nodes
            /\ h.relays = g.relays /\ h.cancelled = g.cancelled /\ h.parents = g.parents
            /\ h.children = g.children
<1>. DEFINE h == Graph!refresh_signature(g, id)
<1>. HIDE DEF h
<1>1. /\ h.nodes = g.nodes /\ h.relays = g.relays /\ h.cancelled = g.cancelled
      /\ h.parents = g.parents /\ h.children = g.children
  <2>1. Refreshed(g, id, h)
    BY RefreshFacts DEF h
  <2>. QED
    BY <2>1 DEF Refreshed
<1>2. Named(h) = Named(g)
  BY <1>1 DEF Named
<1>3. Inherits(h, above, anc) /\ Told(h, anc, req)
  BY <1>1, <1>2 DEF Inherits, Told
<1>. QED
  BY <1>1, <1>2, <1>3 DEF h

\* Neither is a relay that merges with another.
LEMMA MergeTold ==
  ASSUME NEW g \in GraphRec, NEW above, NEW anc, NEW req, Inherits(g, above, anc), Told(g, anc, req),
         NEW keep \in Ids, NEW gone \in g.relays
  PROVE  LET h == Graph!merge_relays(g, keep, gone)
             fewer == [c \in Ids |-> IF c = gone THEN {} ELSE above[c]]
         IN /\ Inherits(h, fewer, anc) /\ Told(h, anc, req) /\ Named(h) = Named(g)
            /\ h.nodes \subseteq g.nodes
<1>. DEFINE h == Graph!merge_relays(g, keep, gone)
            fewer == [c \in Ids |-> IF c = gone THEN {} ELSE above[c]]
<1>. HIDE DEF h
<1>1. h.nodes = g.nodes \ {gone} /\ h.relays = g.relays \ {gone} /\ h.cancelled = g.cancelled \ {gone}
  <2>1. gone \in Ids
    BY GraphParts
  <2>2. Merged(g, keep, gone, h)
    BY <2>1, MergeFacts DEF h
  <2>. QED
    BY <2>2 DEF Merged
<1>2. Named(h) = Named(g) /\ Named(h) \subseteq Ids
  BY <1>1, GraphParts DEF Named
<1>3. \A t \in Named(h) : (t \in h.cancelled <=> t \in g.cancelled) /\ fewer[t] = above[t]
  BY <1>1, <1>2 DEF Named
<1>. HIDE DEF fewer
<1>4. Inherits(h, fewer, anc) /\ Told(h, anc, req)
  BY <1>2, <1>3 DEF Inherits, Told
<1>. QED
  BY <1>1, <1>2, <1>4 DEF h, fewer

\* The least pending entry is looked at, and those it touches become pending.
LEMMA NormalizeSafe ==
  ASSUME GraphInv, Graph!normalize
  PROVE  GraphInv'
<1>. DEFINE id == Graph!Min(known \cup dirty)
            fresh == IF id \in dirty THEN Graph!refresh_signature(graph, id) ELSE graph
            below == IF fresh.signature[id] = graph.signature[id] THEN {} ELSE graph.children[id]
            same == Graph!equivalent_relays(fresh, id)
            other == Graph!Min(same)
            keep == Graph!Min({id, other})
            gone == Graph!Max({id, other})
            mid == (dirty \ {id}) \cup below
<1>1. PICK above : Sound(graph, above, dirty) /\ Inherits(graph, above, ancestors)
  BY DEF GraphInv
<1>2. Handed /\ Kept /\ Told(graph, ancestors, requested)
  BY DEF GraphInv
<1>3. /\ known \cup dirty # {}
      /\ node' = node /\ live' = live /\ retired' = retired /\ due' = due /\ ancestors' = ancestors
      /\ requested' = requested
  BY DEF Graph!normalize
<1>4. \/ id \notin graph.relays /\ graph' = graph /\ Graph!Enqueue(id, {}, {})
      \/ /\ id \in graph.relays /\ graph' = Graph!erase(graph, id)
         /\ IF id \in dirty THEN Graph!Enqueue(id, graph.parents[id], graph.children[id])
                            ELSE Graph!Enqueue(id, graph.parents[id] \cup graph.children[id], {})
      \/ id \in graph.relays /\ graph' = fresh /\ Graph!Enqueue(id, {}, below)
      \/ /\ id \in graph.relays /\ same # {} /\ graph' = Graph!merge_relays(fresh, keep, gone)
         /\ Graph!Enqueue(id, graph.parents[gone] \cup graph.children[gone] \cup {keep}, below)
  BY DEF Graph!normalize
<1>5. /\ id \in known \cup dirty /\ id \in Ids /\ known \subseteq Ids /\ dirty \subseteq Ids
      /\ \A j \in dirty : id <= j
  <2>1. known \cup dirty \in SUBSET Ids
    BY <1>2 DEF Handed
  <2>. QED
    BY <1>3, <2>1, MinFacts
<1>6. /\ graph \in GraphRec /\ graph.relays \subseteq Ids /\ graph.nodes \subseteq Ids
      /\ \A i \in Ids : graph.children[i] \subseteq Ids /\ graph.parents[i] \subseteq Ids
      /\ \A p, c \in Ids : p \in graph.parents[c] <=> c \in graph.children[p]
      /\ \A p, c \in Ids : p \in graph.parents[c] => p < c
      /\ graph.relays \subseteq graph.nodes
  BY <1>1, SoundFacts DEF Edges
<1>7. /\ \A i \in graph.relays : i \notin Named(graph) /\ i \notin live /\ i \notin ToSet(retired) /\ i \notin ToSet(due)
      /\ due \in LineOf(Ids)
  BY <1>2 DEF Kept, Named
<1>8. \A more, again \in SUBSET Ids : Graph!Enqueue(id, more, again) =>
        dirty' = (dirty \ {id}) \cup again /\ dirty' \subseteq Ids /\ known' \subseteq Ids
  BY <1>5 DEF Graph!Enqueue
<1>9. CASE id \notin graph.relays /\ graph' = graph /\ Graph!Enqueue(id, {}, {})
  <2>1. dirty' = dirty \ {id} /\ dirty' \subseteq Ids /\ known' \subseteq Ids
    <3>. HIDE DEF id
    <3>. QED
      BY <1>8, <1>9
  <2>. HIDE DEF id
  <2>2. \A r \in graph.relays : r \notin dirty' => r \notin dirty
    BY <1>9, <2>1
  <2>3. Sound(graph', above, dirty')
    <3>1. Sound(graph, above, dirty')
      BY <1>1, <2>2, StaleKeeps
    <3>. QED
      BY <1>9, <3>1
  <2>4. Inherits(graph', above, ancestors') /\ Told(graph', ancestors', requested')
    BY <1>1, <1>2, <1>3, <1>9
  <2>5. Handed'
    BY <1>2, <1>3, <1>9, <2>1 DEF Handed
  <2>6. Kept'
    BY <1>2, <1>3, <1>9 DEF Kept
  <2>. QED
    BY <2>3, <2>4, <2>5, <2>6 DEF GraphInv
<1>10. CASE /\ id \in graph.relays /\ graph' = Graph!erase(graph, id)
            /\ IF id \in dirty THEN Graph!Enqueue(id, graph.parents[id], graph.children[id])
                               ELSE Graph!Enqueue(id, graph.parents[id] \cup graph.children[id], {})
  <2>. DEFINE fewer == [c \in Ids |-> IF c = id THEN {} ELSE above[c] \ {id}]
  <2>. HIDE DEF id
  <2>1. /\ dirty' \subseteq Ids /\ known' \subseteq Ids
        /\ dirty' = (dirty \ {id}) \cup graph.children[id] \/ (id \notin dirty /\ dirty' = dirty \ {id})
    <3>1. graph.parents[id] \in SUBSET Ids /\ graph.children[id] \in SUBSET Ids
          /\ graph.parents[id] \cup graph.children[id] \in SUBSET Ids /\ {} \in SUBSET Ids
      BY <1>5, <1>6
    <3>. QED
      BY <1>8, <1>10, <3>1
  <2>2. \A r \in graph.relays \ {id} : r \notin dirty' =>
          r \notin dirty /\ (id \in graph.parents[r] => id \in graph.relays /\ id \notin dirty)
    BY <1>5, <1>6, <1>10, <2>1
  <2>3. Sound(graph', fewer, dirty')
    <3>1. Sound(Graph!erase(graph, id), fewer, dirty')
      <4>1. id \in graph.nodes
        BY <1>6, <1>10
      <4>. QED
        BY <1>1, <2>2, <4>1, EraseKeeps
    <3>. QED
      BY <1>10, <3>1
  <2>4. /\ Inherits(graph', fewer, ancestors) /\ Told(graph', ancestors, requested)
        /\ Named(graph') = Named(graph) \ {id} /\ graph'.nodes \subseteq graph.nodes
    BY <1>1, <1>2, <1>5, <1>6, <1>10, EraseTold
  <2>. HIDE DEF fewer
  <2>5. due' \in LineOf(Ids) /\ ToSet(due') \subseteq ToSet(due) /\ id \notin ToSet(due')
        /\ id \notin live /\ id \notin ToSet(retired)
    BY <1>3, <1>7, <1>10
  <2>. QED
    BY <1>2, <1>3, <2>1, <2>3, <2>4, <2>5, LossSafe
<1>11. ASSUME id \in graph.relays
       PROVE  /\ fresh \in GraphRec /\ Sound(fresh, above, mid) /\ Inherits(fresh, above, ancestors)
              /\ Told(fresh, ancestors, requested) /\ Named(fresh) = Named(graph) /\ fresh.nodes = graph.nodes
              /\ fresh.relays = graph.relays
              /\ \A r \in mid : r \in Ids /\ id < r
  <2>. HIDE DEF id
  <2>1. below = {} \/ below = graph.children[id]
    OBVIOUS
  <2>2. \A r \in mid : r \in Ids /\ id < r
    <3>1. ASSUME NEW r \in mid
          PROVE  r \in Ids /\ id < r
      <4>1. CASE r \in dirty /\ r # id
        BY <1>5, <4>1, IdFacts
      <4>2. CASE r \in graph.children[id]
        BY <1>5, <1>6, <4>2
      <4>. QED
        BY <2>1, <4>1, <4>2
    <3>. QED
      BY <3>1
  <2>3. CASE id \in dirty
    <3>1. fresh = Graph!refresh_signature(graph, id)
      BY <2>3
    <3>. HIDE DEF fresh
    <3>2. /\ Inherits(fresh, above, ancestors) /\ Told(fresh, ancestors, requested)
          /\ Named(fresh) = Named(graph) /\ fresh.nodes = graph.nodes /\ fresh.relays = graph.relays
      <4>1. LET h == Graph!refresh_signature(graph, id)
            IN /\ Inherits(h, above, ancestors) /\ Told(h, ancestors, requested) /\ Named(h) = Named(graph)
               /\ h.nodes = graph.nodes /\ h.relays = graph.relays
        BY <1>1, <1>2, <1>5, <1>6, RefreshTold
      <4>. QED
        BY <3>1, <4>1
    <3>3. \A r \in graph.relays : r \notin mid =>
            r = id \/ (r \notin dirty /\ (id \in graph.parents[r] => fresh.signature[id] = graph.signature[id]))
      BY <1>5, <1>6
    <3>4. Sound(fresh, above, mid)
      <4>. HIDE DEF mid
      <4>1. Sound(Graph!refresh_signature(graph, id), above, mid)
        BY <1>1, <1>11, <3>1, <3>3, RefreshKeeps
      <4>. QED
        BY <3>1, <4>1
    <3>5. fresh \in GraphRec
      BY <3>4 DEF Sound
    <3>. QED
      BY <2>2, <3>2, <3>4, <3>5
  <2>4. CASE id \notin dirty
    <3>1. fresh = graph /\ mid = dirty
      BY <2>4
    <3>. HIDE DEF fresh, mid
    <3>. QED
      BY <1>1, <1>2, <1>6, <2>2, <3>1
  <2>. QED
    BY <2>3, <2>4
<1>12. below \in SUBSET Ids
  <2>. HIDE DEF id, fresh
  <2>. QED
    BY <1>5, <1>6
<1>13. CASE id \in graph.relays /\ graph' = fresh /\ Graph!Enqueue(id, {}, below)
  <2>1. dirty' = mid /\ dirty' \subseteq Ids /\ known' \subseteq Ids
    <3>1. {} \in SUBSET Ids
      OBVIOUS
    <3>. HIDE DEF id, below
    <3>. QED
      BY <1>8, <1>12, <1>13, <3>1
  <2>. HIDE DEF id, fresh, mid
  <2>2. /\ Sound(graph', above, dirty') /\ Inherits(graph', above, ancestors)
        /\ Told(graph', ancestors, requested)
        /\ Named(graph') = Named(graph) \ {id} /\ graph'.nodes \subseteq graph.nodes
    BY <1>7, <1>11, <1>13, <2>1
  <2>3. due' \in LineOf(Ids) /\ ToSet(due') \subseteq ToSet(due) /\ id \notin ToSet(due')
        /\ id \notin live /\ id \notin ToSet(retired)
    BY <1>3, <1>7, <1>13
  <2>. QED
    BY <1>2, <1>3, <2>1, <2>2, <2>3, LossSafe
<1>14. CASE /\ id \in graph.relays /\ same # {} /\ graph' = Graph!merge_relays(fresh, keep, gone)
            /\ Graph!Enqueue(id, graph.parents[gone] \cup graph.children[gone] \cup {keep}, below)
  <2>. HIDE DEF id, fresh, mid
  <2>1. /\ fresh \in GraphRec /\ Sound(fresh, above, mid) /\ Inherits(fresh, above, ancestors)
        /\ Told(fresh, ancestors, requested) /\ Named(fresh) = Named(graph) /\ fresh.nodes = graph.nodes
        /\ fresh.relays = graph.relays
        /\ \A r \in mid : r \in Ids /\ id < r
    BY <1>11, <1>14
  <2>2. /\ other \in fresh.relays /\ other # id /\ other \in Ids
        /\ fresh.signature[other] = fresh.signature[id]
        /\ other \in fresh.cancelled <=> id \in fresh.cancelled
    <3>1. \A r : r \in same <=> /\ r \in fresh.relays /\ r # id /\ fresh.signature[r] = fresh.signature[id]
                                 /\ (r \in fresh.cancelled <=> id \in fresh.cancelled)
      BY DEF Graph!equivalent_relays
    <3>. HIDE DEF same
    <3>2. same \in SUBSET Ids
      BY <1>6, <2>1, <3>1
    <3>3. other \in same
      BY <1>14, <3>2, MinFacts
    <3>. HIDE DEF other
    <3>. QED
      BY <3>1, <3>2, <3>3
  <2>. HIDE DEF other, same
  <2>3. {keep, gone} = {id, other} /\ keep < gone /\ keep \in Ids /\ gone \in Ids
    <3>1. {id, other} \in SUBSET Ids /\ {id, other} # {}
      BY <1>5, <2>2
    <3>2. keep \in {id, other} /\ keep <= id /\ keep <= other
      BY <3>1, MinFacts
    <3>3. gone \in {id, other} /\ gone >= id /\ gone >= other
      BY <1>5, <2>2, MaxFacts
    <3>. HIDE DEF keep, gone
    <3>. QED
      BY <1>5, <2>2, <3>2, <3>3, IdFacts
  <2>. HIDE DEF keep, gone
  <2>4. /\ keep \in fresh.relays /\ gone \in fresh.relays /\ fresh.signature[keep] = fresh.signature[gone]
        /\ fresh.signature[keep] = fresh.signature[id]
        /\ keep \in fresh.cancelled <=> gone \in fresh.cancelled
    BY <1>14, <2>1, <2>2, <2>3
  <2>5. fresh.signature[keep] \subseteq Named(fresh)
    <3>1. id \in fresh.nodes /\ \A r \in fresh.relays : r \in mid => id < r
      BY <1>6, <1>14, <2>1
    <3>2. fresh.signature[id] \subseteq Named(fresh)
      BY <2>1, <3>1, SmallSigned
    <3>. QED
      BY <2>4, <3>2
  <2>6. dirty' = mid /\ dirty' \subseteq Ids /\ known' \subseteq Ids
    <3>1. graph.parents[gone] \cup graph.children[gone] \cup {keep} \in SUBSET Ids
      BY <1>6, <2>3
    <3>. HIDE DEF below
    <3>. QED
      BY <1>8, <1>12, <1>14, <3>1 DEF mid
  <2>. DEFINE fewer == [c \in Ids |-> IF c = gone THEN {} ELSE above[c]]
  <2>7. Sound(graph', fewer, dirty')
    <3>1. \A r \in fresh.relays \ {gone} : r \notin mid => r \notin mid
      OBVIOUS
    <3>2. /\ Sound(fresh, above, mid) /\ keep \in fresh.relays /\ gone \in fresh.relays /\ keep < gone
          /\ fresh.signature[keep] = fresh.signature[gone]
          /\ fresh.signature[keep] \subseteq Named(fresh)
          /\ keep \in fresh.cancelled <=> gone \in fresh.cancelled
      BY <2>1, <2>3, <2>4, <2>5
    <3>3. Sound(Graph!merge_relays(fresh, keep, gone), fewer, mid)
      BY Zenon, <3>1, <3>2, MergeKeeps
    <3>. QED
      BY <1>14, <2>6, <3>3
  <2>8. /\ Inherits(graph', fewer, ancestors) /\ Told(graph', ancestors, requested)
        /\ Named(graph') = Named(fresh) /\ graph'.nodes \subseteq fresh.nodes
    BY <1>14, <2>1, <2>3, <2>4, MergeTold
  <2>. HIDE DEF fewer
  <2>9. Named(graph') = Named(graph) \ {id} /\ graph'.nodes \subseteq graph.nodes
    BY <1>7, <1>14, <2>1, <2>8
  <2>10. due' \in LineOf(Ids) /\ ToSet(due') \subseteq ToSet(due) /\ id \notin ToSet(due')
         /\ id \notin live /\ id \notin ToSet(retired)
    BY <1>3, <1>7, <1>14
  <2>. QED
    BY <1>2, <1>3, <2>6, <2>7, <2>8, <2>9, <2>10, LossSafe
<1>. QED
  BY <1>4, <1>9, <1>10, <1>13, <1>14

\* A seed is a sound graph of tokens that nobody cancelled.
LEMMA SeedSafe ==
  ASSUME Graph!Init
  PROVE  GraphInv
<1>1. PICK s \in Ancestries :
        LET used == 0..(Len(s) - 1) IN
        /\ node = Len(s) /\ live = used /\ ancestors = Graph!Ancestry(s)
        /\ graph = [nodes |-> used, relays |-> {}, cancelled |-> {},
                    parents |-> [i \in Ids |-> IF i \in used THEN Graph!Seeded(s, i).parents ELSE {}],
                    children |-> [i \in Ids |-> IF i \in used THEN Graph!Seeded(s, i).children ELSE {}],
                    signature |-> [i \in Ids |-> {i}]]
        /\ retired = <<>> /\ due = <<>> /\ known = {} /\ dirty = {} /\ requested = {}
  BY DEF Graph!Init, Ids
<1>. DEFINE U == 0..(Len(s) - 1)
            par == [i \in Ids |-> IF i \in U THEN s[i + 1] ELSE {}]
            chi == [i \in Ids |-> IF i \in U THEN {j \in U : i \in s[j + 1]} ELSE {}]
            sig == [i \in Ids |-> {i}]
<1>2. /\ Len(s) \in Nat /\ U \subseteq Ids /\ Ids \subseteq Nat
      /\ \A i \in Ids : i \in U <=> i < Len(s)
      /\ \A c \in U : s[c + 1] \subseteq Ids
      /\ \A c \in U : \A p \in s[c + 1] : p < c /\ p \in U
  <2>1. s \in Seq(SUBSET Ids) /\ Len(s) <= MaxIds /\ \A i \in 1..Len(s) : \A p \in s[i] : p + 1 < i
    BY GraphAssumption DEF Graph!CancelGraphAssumption, Ids
  <2>2. ASSUME NEW c \in U
        PROVE  s[c + 1] \subseteq Ids /\ \A p \in s[c + 1] : p < c /\ p \in U
    <3>1. c + 1 \in 1..Len(s) /\ c \in Nat
      BY <2>1
    <3>2. s[c + 1] \subseteq Ids
      BY <2>1, <3>1
    <3>3. ASSUME NEW p \in s[c + 1]
          PROVE  p < c /\ p \in U
      <4>1. p \in Nat /\ p + 1 < c + 1
        BY <2>1, <3>1, <3>2, IdFacts
      <4>2. c \in Nat /\ c <= Len(s) - 1 /\ Len(s) \in Nat
        BY <2>1, <3>1
      <4>3. p < c /\ p <= Len(s) - 1
        BY <4>1, <4>2
      <4>. QED
        BY <4>1, <4>2, <4>3
    <3>. QED
      BY <3>2, <3>3
  <2>3. Ids \subseteq Nat /\ Len(s) \in Nat /\ \A i \in Ids : i \in U <=> i < Len(s)
    BY <2>1, IdFacts
  <2>4. U \subseteq Ids
    BY <2>1, IdFacts
  <2>. HIDE DEF U
  <2>. QED
    BY <2>2, <2>3, <2>4
<1>3. /\ node = Len(s) /\ live = U /\ ancestors = Graph!Ancestry(s)
      /\ graph = [nodes |-> U, relays |-> {}, cancelled |-> {}, parents |-> par, children |-> chi,
                  signature |-> sig]
      /\ retired = <<>> /\ due = <<>> /\ known = {} /\ dirty = {} /\ requested = {}
  BY <1>1 DEF Graph!Seeded
<1>. HIDE DEF U
<1>4. par \in [Ids -> SUBSET Ids] /\ chi \in [Ids -> SUBSET Ids] /\ sig \in [Ids -> SUBSET Ids]
  BY <1>2
<1>5. /\ \A p, c \in Ids : p \in par[c] <=> c \in U /\ p \in s[c + 1]
      /\ \A p, c \in Ids : c \in chi[p] <=> p \in U /\ c \in U /\ p \in s[c + 1]
      /\ \A i \in Ids : sig[i] = {i}
  OBVIOUS
<1>. HIDE DEF par, chi, sig
<1>6. /\ graph.nodes = U /\ graph.relays = {} /\ graph.cancelled = {} /\ graph.parents = par
      /\ graph.children = chi /\ graph.signature = sig
  BY <1>3
<1>7. graph \in GraphRec
  BY <1>2, <1>3, <1>4 DEF GraphRec
<1>8. Named(graph) = U
  BY <1>6 DEF Named
<1>9. /\ ancestors \in [Ids -> SUBSET Ids]
      /\ \A a, c \in Ids : a \in ancestors[c] => a < c /\ a \in U /\ c \in U
      /\ \A a, c \in Ids : c \in U =>
           (a \in ancestors[c] <=> \E p \in s[c + 1] : a = p \/ a \in ancestors[p])
  <2>. DEFINE anc == Graph!Ancestry(s)
  <2>1. /\ anc \in [Ids -> SUBSET Ids]
        /\ \A a, c \in Ids : a \in anc[c] => a < c /\ a < Len(s) /\ c < Len(s)
        /\ \A a, c \in Ids : c < Len(s) =>
             (a \in anc[c] <=> \E p \in s[c + 1] : a = p \/ a \in anc[p])
    BY AncestryIs
  <2>. HIDE DEF anc
  <2>2. ancestors = anc
    BY <1>3 DEF anc
  <2>. QED
    BY <1>2, <2>1, <2>2
<1>10. Edges(graph)
  <2>1. \A p, c \in Ids : p \in par[c] <=> c \in chi[p]
    BY <1>2, <1>5
  <2>2. \A p, c \in Ids : p \in par[c] => p < c /\ p \in U /\ c \in U
    BY <1>2, <1>5
  <2>. QED
    BY <1>6, <2>1, <2>2 DEF Edges
<1>11. Above(graph, ancestors)
  <2>1. ASSUME NEW a \in Ids, NEW c \in Ids
        PROVE  a \in ancestors[c] <=> \E p \in par[c] : (a = p /\ p \in U) \/ a \in ancestors[p]
    <3>1. \A p \in Ids : p \in par[c] <=> c \in U /\ p \in s[c + 1]
      BY <1>5
    <3>2. par[c] \subseteq Ids
      BY <1>4
    <3>. QED
      BY <1>2, <1>9, <3>1, <3>2
  <2>. QED
    BY <1>6, <1>8, <1>9, <2>1 DEF Above
<1>12. Passed(graph) /\ OwnSigned(graph) /\ Derived(graph, {}) /\ Signed(graph, ancestors)
  <2>1. Passed(graph) /\ OwnSigned(graph) /\ Derived(graph, {})
    BY <1>5, <1>6 DEF Passed, OwnSigned, Derived
  <2>2. Signed(graph, ancestors)
    <3>1. ASSUME NEW i \in graph.nodes, NEW a \in Ids
          PROVE  ((a = i /\ i \in Named(graph)) \/ a \in ancestors[i]) <=>
                 \E t \in graph.signature[i] : a = t \/ a \in ancestors[t]
      <4>1. i \in U /\ i \in Named(graph) /\ graph.signature[i] = {i}
        BY <1>2, <1>5, <1>6, <1>8
      <4>. QED
        BY <4>1
    <3>. QED
      BY <3>1 DEF Signed
  <2>. QED
    BY <2>1, <2>2
<1>13. Sound(graph, ancestors, dirty) /\ Inherits(graph, ancestors, ancestors)
  <2>1. Inherits(graph, ancestors, ancestors)
    <3>1. \A t \in U : ancestors[t] \subseteq U
      BY <1>2, <1>9
    <3>. QED
      BY <1>8, <3>1 DEF Inherits
  <2>. QED
    BY <1>3, <1>7, <1>10, <1>11, <1>12, <2>1 DEF Sound
<1>14. Told(graph, ancestors, requested)
  BY <1>3, <1>6 DEF Told
<1>15. Handed
  <2>1. \A i \in U : i < node
    BY <1>2, <1>3
  <2>. QED
    BY <1>2, <1>3, <1>6, <1>9, <2>1 DEF Handed
<1>16. Kept
  BY <1>3, <1>8, NobodyInLine DEF Kept
<1>. QED
  BY <1>13, <1>14, <1>15, <1>16 DEF GraphInv

\* Every step keeps the invariant.
LEMMA GraphInvariance == Graph!Spec => []GraphInv
<1>1. Graph!Init => GraphInv
  BY SeedSafe
<1>2. GraphInv /\ [Graph!Next]_(Graph!vars) => GraphInv'
  <2>. SUFFICES ASSUME GraphInv, [Graph!Next]_(Graph!vars)
                PROVE  GraphInv'
    OBVIOUS
  <2>1. ASSUME NEW p \in live, Graph!insert({p})
        PROVE  GraphInv'
    BY <2>1, InsertSafe
  <2>2. ASSUME NEW p \in live, NEW q \in live, Graph!insert({p, q})
        PROVE  GraphInv'
    BY <2>2, InsertSafe
  <2>3. ASSUME NEW id \in live, Graph!cancel(id)
        PROVE  GraphInv'
    BY <2>3, CancelSafe
  <2>4. ASSUME NEW id \in live, Graph!drop_token(id)
        PROVE  GraphInv'
    BY <2>4, DropSafe
  <2>5. CASE Graph!remove
    BY <2>5, RemoveSafe
  <2>6. CASE Graph!normalize
    BY <2>6, NormalizeSafe
  <2>7. CASE UNCHANGED Graph!vars
    BY <2>7 DEF Graph!vars, GraphInv, Handed, Kept
  <2>. QED
    BY <2>1, <2>2, <2>3, <2>4, <2>5, <2>6, <2>7 DEF Graph!Next
<1>. QED
  BY <1>1, <1>2, PTL DEF Graph!Spec

\* cancellation_graph.rs:190.  While the domain is unlocked, a token is
\* cancelled exactly when it or one of its ancestors was, whatever relays
\* stand in for the ancestors that were dropped.
THEOREM CancellationIsExact == Graph!Spec => []CancelExact
BY GraphInvariance, ToldIsExact, PTL

=============================================================================
