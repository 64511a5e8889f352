----------------------------- MODULE SyncProofs -----------------------------
(***************************************************************************)
(* The two primitives whose tasks take their turn in a line by ticket, for *)
(* every set of tasks, every capacity and every number of calls.  The      *)
(* mutex is a fair lock: every step of Mutex is a step of FairLock, or     *)
(* none.  No front of a channel's line sleeps through its turn.            *)
(***************************************************************************)
EXTENDS Mutex, Channels, LineLemmas, FiniteSetTheorems

-----------------------------------------------------------------------------
(* The mutex. *)

(* The inductive invariant, in parts. *)

Phases == {"Idle", "Active", "ClaimReady", "SelectedReady", "SelectedOther"}

Types ==
  /\ state \in {"free", "locked", "waiters"}
  /\ slot \in BOOLEAN
  /\ entries \in LineOf(Tasks)
  /\ outstanding \in Nat
  /\ pc \in [Tasks -> Places]
  /\ phase \in [Tasks -> Phases]
  /\ permit \in [Tasks -> BOOLEAN]
  /\ resource \in [Tasks -> BOOLEAN]
  /\ selected \in [Tasks -> BOOLEAN]
  /\ target \in [Tasks -> Tasks \cup {Nobody}]
  /\ calls \in [Tasks -> 0..MaxCalls]

\* A ticket is outstanding from its reservation to its retirement.
Ticketed == {t \in Tasks : pc[t] \in {"reserved", "acquired", "ticket", "parked", "check", "take",
                                      "complete", "drop", "queued", "dequeued"}}
Counted == outstanding = Cardinality(Ticketed) /\ outstanding <= Capacity

\* Who stands in line has a ticket and has not been granted anything.
InLineUngranted ==
  \A t \in ToSet(entries) :
    pc[t] \in {"ticket", "parked", "drop"} /\ ~permit[t] /\ ~resource[t] /\ ~selected[t]

\* The wait cell and the grant at each place.
CellAt(t) ==
  /\ phase[t] # "Idle" <=> pc[t] = "parked"
  /\ pc[t] \in {"enter", "reserved"} => ~permit[t] /\ ~resource[t]
  /\ pc[t] = "check" => selected[t]
  /\ pc[t] = "ticket" => /\ ~selected[t] /\ (permit[t] <=> resource[t])
                         /\ (permit[t] <=> t \notin ToSet(entries))
  /\ pc[t] = "parked" => /\ ~selected[t] /\ ~permit[t]
                         /\ (resource[t] <=> phase[t] \in {"ClaimReady", "SelectedReady"})
                         /\ (phase[t] = "Active" => t \in ToSet(entries))
CellsFit == \A t \in Tasks : CellAt(t)

\* A wake still to be published is that of one claimed wait.
Publishing ==
  \A t \in Tasks : pc[t] = "publish" =>
    /\ target[t] \in Tasks /\ phase[target[t]] = "ClaimReady"
    /\ \A u \in Tasks : pc[u] = "publish" /\ target[u] = target[t] => u = t

\* The lock word, its owner and the line agree.
OneOwner == \A t, u \in Tasks : Owns(t) /\ Owns(u) => t = u
WordFits ==
  /\ state = "free" <=> \A t \in Tasks : ~Owns(t)
  /\ state # "waiters" => entries = <<>>

\* The slot holds the capability exactly while it is being handed over.
SlotFits == slot <=> \E t \in Tasks : Grantee(t) \/ pc[t] = "rejected"

Inv ==
  /\ Types /\ Counted /\ InLineUngranted /\ CellsFit /\ Publishing
  /\ OneOwner /\ WordFits /\ SlotFits

-----------------------------------------------------------------------------
(* Frames: what a step of one task cannot disturb. *)

\* Task t goes from place a to place b, and no other task's state changes.
Mine(t, a, b) ==
  /\ pc[t] = a /\ pc'[t] = b
  /\ \A u \in Tasks : u # t =>
       /\ pc'[u] = pc[u] /\ phase'[u] = phase[u] /\ permit'[u] = permit[u]
       /\ resource'[u] = resource[u] /\ selected'[u] = selected[u]
  /\ Types'

\* A task whose own state does not change owns what it owned.
LEMMA OwnsFrame ==
  ASSUME NEW u \in Tasks, pc'[u] = pc[u], resource'[u] = resource[u], selected'[u] = selected[u]
  PROVE  (Owns(u)' <=> Owns(u)) /\ (Grantee(u)' <=> Grantee(u))
BY DEF Owns, Grantee, granted

\* A wake to be published stays one while its wait stays claimed.
LEMMA PublishingFrame ==
  ASSUME Types, Publishing, target' = target,
         \A u \in Tasks : pc'[u] = "publish" => pc[u] = "publish",
         \A u \in Tasks : phase[u] = "ClaimReady" => phase'[u] = "ClaimReady"
  PROVE  Publishing'
BY DEF Publishing

\* Tickets are counted.
LEMMA TicketedFinite ==
  IsFiniteSet(Ticketed) /\ Cardinality(Ticketed) \in Nat
BY MutexAssumption, FS_Subset, FS_CardinalityType DEF MutexAssumption, Ticketed

TicketPlaces == {"reserved", "acquired", "ticket", "parked", "check", "take",
                 "complete", "drop", "queued", "dequeued"}

\* A task that takes or retires a ticket changes their number by one.
LEMMA TicketCount ==
  ASSUME Counted, NEW t \in Tasks, \A u \in Tasks : u # t => pc'[u] = pc[u]
  PROVE  /\ (pc[t] \in TicketPlaces <=> pc'[t] \in TicketPlaces) /\ outstanding' = outstanding
              => Counted'
         /\ pc[t] \notin TicketPlaces /\ pc'[t] \in TicketPlaces
              /\ outstanding' = outstanding + 1 /\ outstanding < Capacity => Counted' /\ outstanding' \in Nat
         /\ pc[t] \in TicketPlaces /\ pc'[t] \notin TicketPlaces
              /\ outstanding' = outstanding - 1 => Counted' /\ outstanding' \in Nat
<1>0. /\ Ticketed = {u \in Tasks : pc[u] \in TicketPlaces}
      /\ Ticketed' = {u \in Tasks : pc'[u] \in TicketPlaces}
  BY DEF Ticketed, TicketPlaces
<1>1. ASSUME pc[t] \in TicketPlaces <=> pc'[t] \in TicketPlaces, outstanding' = outstanding
      PROVE  Counted'
  <2>1. Ticketed' = Ticketed
    BY <1>0, <1>1
  <2>. QED
    BY <1>1, <2>1 DEF Counted
<1>2. ASSUME pc[t] \notin TicketPlaces, pc'[t] \in TicketPlaces,
             outstanding' = outstanding + 1, outstanding < Capacity
      PROVE  Counted' /\ outstanding' \in Nat
  <2>1. Ticketed' = Ticketed \cup {t} /\ t \notin Ticketed
    BY <1>0, <1>2
  <2>2. Cardinality(Ticketed') = Cardinality(Ticketed) + 1
    BY <2>1, TicketedFinite, FS_AddElement
  <2>. QED
    BY <1>2, <2>2, TicketedFinite, MutexAssumption DEF Counted, MutexAssumption
<1>3. ASSUME pc[t] \in TicketPlaces, pc'[t] \notin TicketPlaces, outstanding' = outstanding - 1
      PROVE  Counted' /\ outstanding' \in Nat
  <2>1. Ticketed' = Ticketed \ {t} /\ t \in Ticketed
    BY <1>0, <1>3
  <2>2. IsFiniteSet(Ticketed') /\ Cardinality(Ticketed') = Cardinality(Ticketed) - 1
    BY <2>1, TicketedFinite, FS_RemoveElement
  <2>3. Cardinality(Ticketed') \in Nat
    BY <2>2, FS_CardinalityType
  <2>. QED
    BY <1>3, <2>2, <2>3, TicketedFinite, MutexAssumption DEF Counted, MutexAssumption
<1>. QED
  BY <1>1, <1>2, <1>3

\* A step of one task that leaves the line, the lock word and the owner alone
\* is no step of the abstract lock.
LEMMA QuietStep ==
  ASSUME Inv, NEW t \in Tasks, NEW a, NEW b, Mine(t, a, b), Counted',
         a # "publish", b # "publish",
         state' = state, entries' = entries, target' = target, CellAt(t)',
         Owns(t)' <=> Owns(t), phase[t] # "ClaimReady",
         slot' <=> \E u \in Tasks : Grantee(u)' \/ pc'[u] = "rejected",
         t \in ToSet(entries) =>
           /\ b \in {"ticket", "parked", "drop"} /\ ~permit'[t] /\ ~resource'[t] /\ ~selected'[t]
           /\ (phase'[t] = "SelectedOther" \/ b = "drop") <=> (phase[t] = "SelectedOther" \/ a = "drop")
  PROVE  Inv' /\ UNCHANGED Lock!lockVars
<1>0. /\ Types /\ InLineUngranted /\ CellsFit /\ Publishing /\ OneOwner /\ WordFits
  BY DEF Inv
<1>1. ToSet(entries) \subseteq Tasks
  BY <1>0, InLine DEF Types
<1>2. \A u \in Tasks : Owns(u)' <=> Owns(u)
  BY OwnsFrame DEF Mine
<1>3. InLineUngranted'
  BY <1>0, <1>1 DEF InLineUngranted, Mine
<1>4. CellsFit'
  BY <1>0 DEF CellsFit, CellAt, Mine
<1>5. Publishing'
  BY <1>0, PublishingFrame DEF Mine
<1>6. OneOwner' /\ WordFits'
  BY <1>0, <1>2 DEF OneOwner, WordFits
<1>7. GivenUp' = GivenUp
  <2>1. \A u \in ToSet(entries) : (phase'[u] = "SelectedOther" \/ pc'[u] = "drop")
                                   <=> (phase[u] = "SelectedOther" \/ pc[u] = "drop")
    BY <1>1 DEF Mine
  <2>. QED
    BY <2>1 DEF GivenUp
<1>8. {u \in Tasks : Owns(u)}' = {u \in Tasks : Owns(u)}
  BY <1>2
<1>9. UNCHANGED Lock!lockVars
  BY <1>7, <1>8 DEF Lock!lockVars
<1>. QED
  BY <1>3, <1>4, <1>5, <1>6, <1>9 DEF Inv, SlotFits, Mine

\* The slot is as full as before when the grantees are the same.
LEMMA SlotFrame ==
  ASSUME Inv, NEW t \in Tasks, NEW a, NEW b, Mine(t, a, b), slot' = slot,
         (Grantee(t)' \/ b = "rejected") <=> (Grantee(t) \/ a = "rejected")
  PROVE  slot' <=> \E u \in Tasks : Grantee(u)' \/ pc'[u] = "rejected"
<1>1. \A u \in Tasks : (Grantee(u)' \/ pc'[u] = "rejected") <=> (Grantee(u) \/ pc[u] = "rejected")
  BY OwnsFrame DEF Mine
<1>. QED
  BY <1>1 DEF Inv, SlotFits

\* Places are kept apart by Goto.
LEMMA Moved ==
  ASSUME Types, NEW t \in Tasks, NEW a, NEW b \in Places, Goto(t, a, b)
  PROVE  /\ pc[t] = a /\ pc'[t] = b /\ pc' \in [Tasks -> Places]
         /\ \A u \in Tasks : u # t => pc'[u] = pc[u]
BY DEF Types, Goto

\* The initial state.
LEMMA InitInv ==
  ASSUME Init
  PROVE  Inv /\ Lock!LockInit
<1>1. Types
  <2>1. entries \in LineOf(Tasks)
    BY NobodyInLine DEF Init
  <2>2. 0 \in 0..MaxCalls /\ "out" \in Places /\ "Idle" \in Phases
    BY MutexAssumption DEF MutexAssumption, Places, Phases
  <2>3. pc \in [Tasks -> Places] /\ phase \in [Tasks -> Phases] /\ calls \in [Tasks -> 0..MaxCalls]
    BY <2>2 DEF Init
  <2>. QED
    BY <2>1, <2>3 DEF Init, Types
<1>2. Counted
  <2>1. Ticketed = {}
    BY DEF Init, Ticketed
  <2>. QED
    BY <2>1, FS_EmptySet, MutexAssumption DEF Counted, Init, MutexAssumption
<1>3. ToSet(entries) = {}
  BY NobodyInLine DEF Init
<1>4. InLineUngranted /\ CellsFit /\ Publishing
  BY <1>3 DEF Init, InLineUngranted, CellsFit, CellAt, Publishing
<1>5. \A t \in Tasks : ~Owns(t) /\ ~Grantee(t) /\ pc[t] # "rejected"
  BY DEF Init, Owns, Grantee, granted
<1>6. OneOwner /\ WordFits /\ SlotFits
  BY <1>5 DEF Init, OneOwner, WordFits, SlotFits
<1>7. Lock!LockInit
  BY <1>3, <1>5 DEF Lock!LockInit, GivenUp, Init
<1>. QED
  BY <1>1, <1>2, <1>4, <1>6, <1>7 DEF Inv

-----------------------------------------------------------------------------
(* Steps the abstract lock does not see. *)

\* enter: a recycled cell has no grant.
LEMMA EnterInv ==
  ASSUME Inv, NEW t \in Tasks, Enter(t)
  PROVE  Inv' /\ UNCHANGED Lock!lockVars
<1>. USE DEF Enter, recycle
<1>0. Types /\ Counted /\ CellsFit /\ InLineUngranted
  BY DEF Inv
<1>1. Mine(t, "out", "enter")
  <2>1. Types'
    BY <1>0, Moved, MutexAssumption DEF Types, Places, MutexAssumption
  <2>. QED
    BY <1>0, <2>1, Moved DEF Mine, Types, Places
<1>2. ~permit'[t] /\ ~resource'[t] /\ phase'[t] = phase[t] /\ phase[t] = "Idle"
  BY <1>0, <1>1 DEF Types, Mine, CellsFit, CellAt
<1>3. CellAt(t)' /\ t \notin ToSet(entries)
  BY <1>0, <1>1, <1>2 DEF CellAt, Mine, InLineUngranted
<1>4. ~Owns(t) /\ ~Owns(t)' /\ ~Grantee(t) /\ ~Grantee(t)'
  BY <1>1 DEF Owns, Grantee, Mine
<1>5. Counted'
  BY <1>0, <1>1, TicketCount DEF Mine, TicketPlaces
<1>. QED
  BY <1>1, <1>2, <1>3, <1>4, <1>5, QuietStep, SlotFrame DEF Mine

\* reserve: a ticket, or none beyond the capacity.
LEMMA ReserveInv ==
  ASSUME Inv, NEW t \in Tasks, reserve(t)
  PROVE  Inv' /\ UNCHANGED Lock!lockVars
<1>0. Types /\ Counted /\ CellsFit /\ InLineUngranted
  BY DEF Inv
<1>1. UNCHANGED <<state, slot, entries, phase, permit, resource, selected, target, calls>>
  BY DEF reserve, cellVars
<1>2. ASSUME NEW b \in {"reserved", "out"}, Goto(t, "enter", b), Counted', outstanding' \in Nat
      PROVE  Inv' /\ UNCHANGED Lock!lockVars
  <2>1. Mine(t, "enter", b)
    <3>1. Types'
      BY <1>0, <1>1, <1>2, Moved DEF Types, Places
    <3>. QED
      BY <1>0, <1>1, <1>2, <3>1, Moved DEF Mine, Places
  <2>2. CellAt(t)' /\ t \notin ToSet(entries) /\ phase[t] = "Idle"
    BY <1>0, <1>1, <2>1 DEF CellsFit, CellAt, Mine, InLineUngranted
  <2>3. ~Owns(t) /\ ~Owns(t)' /\ ~Grantee(t) /\ ~Grantee(t)'
    BY <2>1 DEF Owns, Grantee, Mine
  <2>. QED
    BY <1>1, <1>2, <2>1, <2>2, <2>3, QuietStep, SlotFrame DEF Mine
<1>3. CASE has_room /\ Goto(t, "enter", "reserved") /\ outstanding' = outstanding + 1
  <2>1. Counted' /\ outstanding' \in Nat
    BY <1>0, <1>3, Moved, TicketCount DEF TicketPlaces, Places, has_room
  <2>. QED
    BY <1>2, <1>3, <2>1
<1>4. CASE Goto(t, "enter", "out") /\ UNCHANGED outstanding
  <2>1. Counted' /\ outstanding' \in Nat
    BY <1>0, <1>4, Moved, TicketCount DEF TicketPlaces, Places, Types
  <2>. QED
    BY <1>2, <1>4, <2>1
<1>. QED
  BY <1>3, <1>4 DEF reserve

\* retire: the ticket is given back, the lock kept.
LEMMA RetireInv ==
  ASSUME Inv, NEW t \in Tasks, retire(t)
  PROVE  Inv' /\ UNCHANGED Lock!lockVars
<1>0. Types /\ Counted /\ CellsFit /\ InLineUngranted
  BY DEF Inv
<1>1. /\ UNCHANGED <<state, slot, entries, phase, permit, resource, selected, target, calls>>
      /\ outstanding' = outstanding - 1
  BY DEF retire, cellVars
<1>2. ASSUME NEW a \in {"acquired", "complete"}, Goto(t, a, "holding")
      PROVE  Inv' /\ UNCHANGED Lock!lockVars
  <2>1. Counted' /\ outstanding' \in Nat
    BY <1>0, <1>1, <1>2, Moved, TicketCount DEF TicketPlaces, Places
  <2>2. Mine(t, a, "holding")
    <3>1. Types'
      BY <1>0, <1>1, <1>2, <2>1, Moved DEF Types, Places
    <3>. QED
      BY <1>0, <1>1, <1>2, <3>1, Moved DEF Mine, Places
  <2>3. CellAt(t)' /\ t \notin ToSet(entries) /\ phase[t] = "Idle"
    BY <1>0, <1>1, <2>2 DEF CellsFit, CellAt, Mine, InLineUngranted
  <2>4. Owns(t) /\ Owns(t)' /\ ~Grantee(t) /\ ~Grantee(t)'
    BY <2>2 DEF Owns, Grantee, Mine
  <2>. QED
    BY <1>1, <1>2, <2>1, <2>2, <2>3, <2>4, QuietStep, SlotFrame DEF Mine
<1>. QED
  BY <1>2 DEF retire

\* check: a granted task goes on or gives the lock up; it has it either way.
LEMMA CheckInv ==
  ASSUME Inv, NEW t \in Tasks, check(t)
  PROVE  Inv' /\ UNCHANGED Lock!lockVars
<1>0. Types /\ Counted /\ CellsFit /\ InLineUngranted
  BY DEF Inv
<1>1. UNCHANGED <<state, slot, entries, outstanding, phase, permit, resource, selected, target, calls>>
  BY DEF check, cellVars
<1>2. ASSUME NEW b \in {"take", "drop"}, Goto(t, "check", b)
      PROVE  Inv' /\ UNCHANGED Lock!lockVars
  <2>1. Counted'
    BY <1>0, <1>1, <1>2, Moved, TicketCount DEF TicketPlaces, Places
  <2>2. Mine(t, "check", b)
    <3>1. Types'
      BY <1>0, <1>1, <1>2, Moved DEF Types, Places
    <3>. QED
      BY <1>0, <1>1, <1>2, <3>1, Moved DEF Mine, Places
  <2>3. CellAt(t)' /\ t \notin ToSet(entries) /\ phase[t] = "Idle"
    BY <1>0, <1>1, <2>2 DEF CellsFit, CellAt, Mine, InLineUngranted
  <2>4. Owns(t) /\ Owns(t)' /\ Grantee(t) /\ Grantee(t)'
    BY <1>0, <1>1, <2>2 DEF Owns, Grantee, Mine, granted, CellsFit, CellAt
  <2>. QED
    BY <1>1, <1>2, <2>1, <2>2, <2>3, <2>4, QuietStep, SlotFrame DEF Mine
<1>. QED
  BY <1>2 DEF check

\* take: the grantee finds the capability in the slot, and owned it before.
LEMMA TakeInv ==
  ASSUME Inv, NEW t \in Tasks, take(t)
  PROVE  Inv' /\ UNCHANGED Lock!lockVars
<1>0. Types /\ Counted /\ CellsFit /\ InLineUngranted /\ OneOwner
  BY DEF Inv
<1>1. /\ UNCHANGED <<state, entries, outstanding, phase, permit, resource, selected, target, calls>>
      /\ slot' = FALSE
  BY DEF take, cellVars
<1>2. ASSUME NEW a \in {"take", "orphan", "rejected"}, NEW b \in {"complete", "releasing"}, Goto(t, a, b),
             a = "take" <=> b = "complete"
      PROVE  Inv' /\ UNCHANGED Lock!lockVars
  <2>1. Counted'
    BY <1>0, <1>1, <1>2, Moved, TicketCount DEF TicketPlaces, Places
  <2>2. Mine(t, a, b)
    <3>1. Types'
      BY <1>0, <1>1, <1>2, Moved DEF Types, Places
    <3>. QED
      BY <1>0, <1>1, <1>2, <3>1, Moved DEF Mine, Places
  <2>3. CellAt(t)' /\ t \notin ToSet(entries) /\ phase[t] = "Idle"
    BY <1>0, <1>1, <2>2 DEF CellsFit, CellAt, Mine, InLineUngranted
  <2>4. Owns(t) /\ Owns(t)' /\ ~Grantee(t)'
    BY <2>2 DEF Owns, Grantee, Mine
  <2>5. \A u \in Tasks : ~Grantee(u)' /\ pc'[u] # "rejected"
    <3>1. SUFFICES ASSUME NEW u \in Tasks, u # t
                   PROVE  ~Grantee(u)' /\ pc'[u] # "rejected"
      BY <1>2, <2>2, <2>4 DEF Mine
    <3>2. ~Owns(u)
      BY <1>0, <2>4, <3>1 DEF OneOwner
    <3>3. ~Grantee(u) /\ pc[u] # "rejected"
      BY <3>2 DEF Owns
    <3>. QED
      BY <2>2, <3>1, <3>3, OwnsFrame DEF Mine
  <2>. QED
    BY <1>1, <1>2, <2>1, <2>2, <2>3, <2>4, <2>5, QuietStep DEF Mine
<1>. QED
  BY <1>2 DEF take

\* drop_retire: the ticket is given back while the task still gives up.
LEMMA DropRetireInv ==
  ASSUME Inv, NEW t \in Tasks, drop_retire(t)
  PROVE  Inv' /\ UNCHANGED Lock!lockVars
<1>0. Types /\ Counted /\ CellsFit /\ InLineUngranted
  BY DEF Inv
<1>1. /\ UNCHANGED <<state, slot, entries, phase, permit, resource, selected, target, calls>>
      /\ outstanding' = outstanding - 1
  BY DEF drop_retire, cellVars
<1>2. ASSUME NEW a \in {"queued", "dequeued"}, NEW b \in {"out", "abandon"}, Goto(t, a, b),
             a = "queued" <=> b = "out"
      PROVE  Inv' /\ UNCHANGED Lock!lockVars
  <2>1. Counted' /\ outstanding' \in Nat
    BY <1>0, <1>1, <1>2, Moved, TicketCount DEF TicketPlaces, Places
  <2>2. Mine(t, a, b)
    <3>1. Types'
      BY <1>0, <1>1, <1>2, <2>1, Moved DEF Types, Places
    <3>. QED
      BY <1>0, <1>1, <1>2, <3>1, Moved DEF Mine, Places
  <2>3. CellAt(t)' /\ t \notin ToSet(entries) /\ phase[t] = "Idle"
    BY <1>0, <1>1, <2>2 DEF CellsFit, CellAt, Mine, InLineUngranted
  <2>4. (Owns(t)' <=> Owns(t)) /\ (Grantee(t)' <=> Grantee(t))
    BY <1>1, <1>2, <2>2 DEF Owns, Grantee, Mine, granted
  <2>. QED
    BY <1>1, <1>2, <2>1, <2>2, <2>3, <2>4, QuietStep, SlotFrame DEF Mine
<1>. QED
  BY <1>2 DEF drop_retire

\* take_resource: a task that gave up learns whether it was granted the lock.
LEMMA TakeResourceInv ==
  ASSUME Inv, NEW t \in Tasks, take_resource(t)
  PROVE  Inv' /\ UNCHANGED Lock!lockVars
<1>. DEFINE b == IF granted(t) THEN "orphan" ELSE "out"
<1>0. Types /\ Counted /\ CellsFit /\ InLineUngranted
  BY DEF Inv
<1>1. /\ UNCHANGED <<state, slot, entries, outstanding, phase, permit, selected, target, calls>>
      /\ Goto(t, "abandon", b)
      /\ resource' \in [Tasks -> BOOLEAN]
      /\ \A u \in Tasks : u # t => resource'[u] = resource[u]
  BY <1>0 DEF take_resource, Types
<1>2. b \in Places /\ b \in {"orphan", "out"}
  BY DEF Places
<1>3. Mine(t, "abandon", b)
  <2>1. Types'
    BY <1>0, <1>1, <1>2, Moved DEF Types
  <2>. QED
    BY <1>0, <1>1, <1>2, <2>1, Moved DEF Mine
<1>4. Counted'
  BY <1>0, <1>1, <1>2, <1>3, TicketCount DEF TicketPlaces, Mine
<1>5. CellAt(t)' /\ t \notin ToSet(entries) /\ phase[t] = "Idle"
  BY <1>0, <1>1, <1>2, <1>3 DEF CellsFit, CellAt, Mine, InLineUngranted
<1>6. (Owns(t)' <=> Owns(t)) /\ (Grantee(t)' <=> Grantee(t))
  BY <1>3 DEF Owns, Grantee, Mine
<1>. QED
  BY <1>1, <1>2, <1>3, <1>4, <1>5, <1>6, QuietStep, SlotFrame DEF Mine

\* finish: a selected wait ends in the check or in the drop of its ticket.
LEMMA FinishInv ==
  ASSUME Inv, NEW t \in Tasks, finish_permit_ready(t)
  PROVE  Inv' /\ UNCHANGED Lock!lockVars
<1>0. Types /\ Counted /\ CellsFit /\ InLineUngranted
  BY DEF Inv
<1>1. /\ UNCHANGED <<state, slot, entries, outstanding, permit, target, calls>>
      /\ phase' = [phase EXCEPT ![t] = "Idle"]
  BY DEF finish_permit_ready
<1>2. CASE /\ phase[t] = "SelectedReady" /\ Goto(t, "parked", "check")
           /\ resource' = [resource EXCEPT ![t] = FALSE]
           /\ selected' = [selected EXCEPT ![t] = TRUE]
  <2>1. Counted'
    BY <1>0, <1>1, <1>2, Moved, TicketCount DEF TicketPlaces, Places
  <2>2. Mine(t, "parked", "check")
    <3>1. Types'
      BY <1>0, <1>1, <1>2, Moved DEF Types, Places, Phases
    <3>. QED
      BY <1>0, <1>1, <1>2, <3>1, Moved DEF Mine, Places, Types
  <2>3. phase'[t] = "Idle" /\ selected'[t] /\ resource[t] /\ t \notin ToSet(entries)
    BY <1>0, <1>1, <1>2, <2>2 DEF CellsFit, CellAt, Mine, InLineUngranted, Types
  <2>4. CellAt(t)'
    BY <2>2, <2>3 DEF CellAt, Mine
  <2>5. Owns(t)' /\ Owns(t) /\ Grantee(t)' /\ Grantee(t)
    BY <2>2, <2>3 DEF Owns, Grantee, Mine
  <2>. QED
    BY <1>1, <1>2, <2>1, <2>2, <2>3, <2>4, <2>5, QuietStep, SlotFrame DEF Mine
<1>3. CASE phase[t] = "SelectedOther" /\ Goto(t, "parked", "drop") /\ UNCHANGED <<resource, selected>>
  <2>1. Counted'
    BY <1>0, <1>1, <1>3, Moved, TicketCount DEF TicketPlaces, Places
  <2>2. Mine(t, "parked", "drop")
    <3>1. Types'
      BY <1>0, <1>1, <1>3, Moved DEF Types, Places, Phases
    <3>. QED
      BY <1>0, <1>1, <1>3, <3>1, Moved DEF Mine, Places, Types
  <2>3. phase'[t] = "Idle" /\ ~selected[t] /\ ~resource[t] /\ ~permit[t]
    BY <1>0, <1>1, <1>3, <2>2 DEF CellsFit, CellAt, Mine, Types
  <2>4. CellAt(t)'
    BY <2>2, <2>3 DEF CellAt, Mine
  <2>5. ~Owns(t)' /\ ~Owns(t) /\ ~Grantee(t)' /\ ~Grantee(t)
    BY <1>3, <2>2, <2>3 DEF Owns, Grantee, Mine, granted
  <2>. QED
    BY <1>1, <1>3, <2>1, <2>2, <2>3, <2>4, <2>5, QuietStep, SlotFrame DEF Mine
<1>. QED
  BY <1>2, <1>3 DEF finish_permit_ready

\* publish: the wake of a claimed wait changes no owner.
LEMMA PublishInv ==
  ASSUME Inv, NEW t \in Tasks, publish(t)
  PROVE  Inv' /\ UNCHANGED Lock!lockVars
<1>. DEFINE v == target[t]
<1>0. Types /\ Counted /\ CellsFit /\ InLineUngranted /\ Publishing /\ OneOwner /\ WordFits /\ SlotFits
  BY DEF Inv
<1>1. /\ UNCHANGED <<state, slot, entries, outstanding, permit, resource, selected, calls>>
      /\ phase' = [phase EXCEPT ![v] = "SelectedReady"]
      /\ target' = [target EXCEPT ![t] = Nobody]
      /\ pc[t] = "publish" /\ pc'[t] = "out" /\ pc' \in [Tasks -> Places]
      /\ \A u \in Tasks : u # t => pc'[u] = pc[u]
  BY <1>0, Moved DEF publish, Places
<1>2. v \in Tasks /\ phase[v] = "ClaimReady" /\ pc[v] = "parked" /\ v # t
  BY <1>0, <1>1 DEF Publishing, CellsFit, CellAt
<1>3. v \notin ToSet(entries) /\ t \notin ToSet(entries)
  BY <1>0, <1>1, <1>2 DEF InLineUngranted, CellsFit, CellAt
<1>4. Types'
  BY <1>0, <1>1 DEF Types, Phases
<1>5. phase'[v] = "SelectedReady" /\ \A u \in Tasks : u # v => phase'[u] = phase[u]
  BY <1>0, <1>1, <1>2 DEF Types
<1>6. \A u \in Tasks : (Owns(u)' <=> Owns(u)) /\ (Grantee(u)' <=> Grantee(u))
                       /\ (pc'[u] = "rejected" <=> pc[u] = "rejected")
  <2>1. ~Owns(t)' /\ ~Owns(t) /\ ~Grantee(t)' /\ ~Grantee(t)
    BY <1>1 DEF Owns, Grantee
  <2>. QED
    BY <1>1, <2>1, OwnsFrame
<1>7. Counted'
  BY <1>0, <1>1, TicketCount DEF TicketPlaces
<1>8. ToSet(entries) \subseteq Tasks
  BY <1>0, InLine DEF Types
<1>9. InLineUngranted'
  BY <1>0, <1>1, <1>3, <1>8 DEF InLineUngranted
<1>10. CellsFit'
  BY <1>0, <1>1, <1>2, <1>5 DEF CellsFit, CellAt
<1>11. Publishing'
  <2>1. \A u \in Tasks : pc'[u] = "publish" =>
          u # t /\ pc[u] = "publish" /\ target'[u] = target[u] /\ target[u] # v
    BY <1>0, <1>1 DEF Publishing, Types
  <2>. QED
    BY <1>0, <1>5, <2>1 DEF Publishing
<1>12. OneOwner' /\ WordFits' /\ SlotFits'
  BY <1>0, <1>1, <1>6 DEF OneOwner, WordFits, SlotFits
<1>13. GivenUp' = GivenUp
  <2>1. \A u \in ToSet(entries) : phase'[u] = phase[u] /\ pc'[u] = pc[u]
    BY <1>1, <1>3, <1>5, <1>8
  <2>. QED
    BY <1>1, <2>1 DEF GivenUp
<1>14. {u \in Tasks : Owns(u)}' = {u \in Tasks : Owns(u)}
  BY <1>6
<1>15. UNCHANGED Lock!lockVars
  BY <1>1, <1>13, <1>14 DEF Lock!lockVars
<1>. QED
  BY <1>4, <1>7, <1>9, <1>10, <1>11, <1>12, <1>15 DEF Inv

-----------------------------------------------------------------------------
(* Steps of the abstract lock: Acquire, Join and Free. *)

Holders == {t \in Tasks : Owns(t)}

\* Both specifications use the same operators on lines.
LEMMA LockOps ==
  \A s, t : Lock!ToSet(s) = ToSet(s) /\ Lock!RemoveFirst(s, t) = RemoveFirst(s, t)
<1>1. \A s : Lock!ToSet(s) = ToSet(s)
  BY DEF Lock!ToSet, ToSet
<1>2. \A s, t : Lock!RemoveFirst(s, t) = RemoveFirst(s, t)
  BY DEF Lock!RemoveFirst, RemoveFirst, Lock!RemoveAt, RemoveAt, Lock!SelectInSeq, SelectInSeq,
         Lock!Min, Min
<1>. QED
  BY <1>1, <1>2

\* A free lock is taken, by try_lock or inside subscribe.
LEMMA AcquireStep ==
  ASSUME Inv, NEW t \in Tasks, NEW a \in {"out", "reserved"}, NEW b \in {"holding", "acquired"},
         Mine(t, a, b), Counted', state = "free", state' = "locked",
         UNCHANGED <<slot, entries, target, phase, permit, resource, selected>>
  PROVE  Inv' /\ Lock!LockNext
<1>0. Types /\ CellsFit /\ InLineUngranted /\ Publishing /\ OneOwner /\ WordFits /\ SlotFits
  BY DEF Inv
<1>1. entries = <<>> /\ ToSet(entries) = {} /\ \A u \in Tasks : ~Owns(u)
  BY <1>0, NobodyInLine DEF WordFits
<1>2. Owns(t)' /\ ~Grantee(t)' /\ pc'[t] # "rejected"
  BY DEF Owns, Grantee, Mine
<1>3. \A u \in Tasks : u # t => ~Owns(u)' /\ ~Grantee(u)' /\ pc'[u] # "rejected"
  <2>1. \A u \in Tasks : ~Grantee(u) /\ pc[u] # "rejected"
    BY <1>1 DEF Owns
  <2>. QED
    BY <1>1, <2>1, OwnsFrame DEF Mine
<1>4. InLineUngranted'
  BY <1>1 DEF InLineUngranted
<1>5. CellsFit'
  BY <1>0 DEF CellsFit, CellAt, Mine
<1>6. Publishing'
  BY <1>0, PublishingFrame DEF Mine
<1>7. OneOwner' /\ WordFits'
  BY <1>1, <1>2, <1>3 DEF OneOwner, WordFits
<1>8. SlotFits'
  <2>1. ~slot
    BY <1>0, <1>1 DEF SlotFits, Owns
  <2>. QED
    BY <1>2, <1>3, <2>1 DEF SlotFits
<1>9. Lock!Acquire(t)
  <2>1. Holders = {} /\ Holders' = {t}
    BY <1>1, <1>2, <1>3 DEF Holders
  <2>2. GivenUp = {} /\ GivenUp' = {}
    BY <1>1 DEF GivenUp
  <2>. QED
    BY <1>1, <2>1, <2>2 DEF Lock!Acquire, Holders
<1>. QED
  BY <1>4, <1>5, <1>6, <1>7, <1>8, <1>9 DEF Inv, Lock!LockNext, Mine

\* try_lock.
LEMMA TryLockInv ==
  ASSUME Inv, NEW t \in Tasks, try_lock(t)
  PROVE  Inv' /\ Lock!LockNext
<1>. USE DEF try_lock, cellVars
<1>0. Types /\ Counted
  BY DEF Inv
<1>1. Mine(t, "out", "holding")
  <2>1. Types'
    BY <1>0, Moved, MutexAssumption DEF Types, Places, MutexAssumption
  <2>. QED
    BY <1>0, <2>1, Moved DEF Mine, Places
<1>2. Counted'
  BY <1>0, <1>1, TicketCount DEF Mine, TicketPlaces
<1>. QED
  BY <1>1, <1>2, AcquireStep

\* subscribe: the lock was freed meanwhile, or the task joins the line of a
\* lock that has an owner, and marks it.
LEMMA SubscribeInv ==
  ASSUME Inv, NEW t \in Tasks, subscribe(t)
  PROVE  Inv' /\ Lock!LockNext
<1>0. Types /\ Counted /\ CellsFit /\ InLineUngranted /\ Publishing /\ OneOwner /\ WordFits /\ SlotFits
  BY DEF Inv
<1>1. UNCHANGED <<slot, outstanding, phase, permit, resource, target, calls>>
  BY DEF subscribe, cellVars
<1>2. CASE /\ state = "free" /\ Goto(t, "reserved", "acquired") /\ state' = "locked"
           /\ UNCHANGED <<entries, selected>>
  <2>1. Mine(t, "reserved", "acquired")
    <3>1. Types'
      BY <1>0, <1>1, <1>2, Moved DEF Types, Places
    <3>. QED
      BY <1>0, <1>1, <1>2, <3>1, Moved DEF Mine, Places
  <2>2. Counted'
    BY <1>0, <1>1, <2>1, TicketCount DEF Mine, TicketPlaces
  <2>. QED
    BY <1>1, <1>2, <2>1, <2>2, AcquireStep
<1>3. CASE /\ state # "free" /\ Goto(t, "reserved", "ticket") /\ state' = "waiters"
           /\ entries' = Append(entries, t) /\ selected' = [selected EXCEPT ![t] = FALSE]
  <2>1. pc[t] = "reserved" /\ pc'[t] = "ticket"
    BY <1>0, <1>3, Moved DEF Places
  <2>2. t \notin ToSet(entries) /\ ~permit[t] /\ ~resource[t] /\ phase[t] = "Idle"
    BY <1>0, <2>1 DEF InLineUngranted, CellsFit, CellAt
  <2>3. /\ entries' \in LineOf(Tasks) /\ ToSet(entries') = ToSet(entries) \cup {t}
        /\ ToSet(entries) \subseteq Tasks
    BY <1>0, <1>3, <2>2, JoinLine, InLine DEF Types
  <2>4. Mine(t, "reserved", "ticket") /\ ~selected'[t]
    <3>1. Types'
      BY <1>0, <1>1, <1>3, <2>3, Moved DEF Types, Places
    <3>. QED
      BY <1>0, <1>1, <1>3, <3>1, Moved DEF Mine, Places, Types
  <2>5. Counted'
    BY <1>0, <1>1, <2>4, TicketCount DEF Mine, TicketPlaces
  <2>6. ~Owns(t) /\ ~Owns(t)' /\ ~Grantee(t) /\ ~Grantee(t)'
    BY <1>1, <2>1, <2>2 DEF Owns, Grantee
  <2>7. \A u \in Tasks : Owns(u)' <=> Owns(u)
    BY <2>4, <2>6, OwnsFrame DEF Mine
  <2>8. InLineUngranted'
    BY <1>0, <1>1, <2>1, <2>2, <2>3, <2>4 DEF InLineUngranted, Mine
  <2>9. CellsFit'
    <3>1. CellAt(t)'
      BY <1>1, <2>1, <2>2, <2>3, <2>4 DEF CellAt
    <3>2. \A u \in Tasks : u # t => CellAt(u)'
      BY <1>0, <1>1, <2>3, <2>4 DEF CellsFit, CellAt, Mine
    <3>. QED
      BY <3>1, <3>2 DEF CellsFit
  <2>10. Publishing'
    BY <1>0, <1>1, <2>4, PublishingFrame DEF Mine
  <2>11. OneOwner' /\ WordFits'
    BY <1>0, <1>3, <2>7 DEF OneOwner, WordFits
  <2>12. SlotFits'
    BY <1>1, <2>4, <2>6, SlotFrame DEF SlotFits
  <2>13. Lock!Join(t)
    <3>1. Holders # {} /\ Holders' = Holders
      BY <1>0, <1>3, <2>7 DEF Holders, WordFits
    <3>2. GivenUp' = GivenUp
      <4>1. \A u \in ToSet(entries) : phase'[u] = phase[u] /\ pc'[u] = pc[u]
        BY <1>1, <2>2, <2>3, <2>4 DEF Mine
      <4>2. ~(phase'[t] = "SelectedOther" \/ pc'[t] = "drop")
        BY <1>1, <2>1, <2>2
      <4>. QED
        BY <2>3, <4>1, <4>2 DEF GivenUp
    <3>. QED
      BY <1>3, <2>2, <3>1, <3>2, LockOps DEF Lock!Join, Holders
  <2>. QED
    BY <2>4, <2>5, <2>8, <2>9, <2>10, <2>11, <2>12, <2>13 DEF Inv, Lock!LockNext, Mine
<1>. QED
  BY <1>2, <1>3 DEF subscribe, queue_state

\* A lock with an empty line is freed by its owner.
LEMMA FreeStep ==
  ASSUME Inv, NEW t \in Tasks, NEW a \in {"holding", "releasing"},
         Mine(t, a, "out"), Counted', entries = <<>>, state' = "free",
         UNCHANGED <<slot, entries, target, phase, permit, resource, selected>>
  PROVE  Inv' /\ Lock!LockNext
<1>0. Types /\ CellsFit /\ InLineUngranted /\ Publishing /\ OneOwner /\ WordFits /\ SlotFits
  BY DEF Inv
<1>1. ToSet(entries) = {}
  BY NobodyInLine
<1>2. Owns(t) /\ ~Owns(t)' /\ ~Grantee(t)' /\ ~Grantee(t)
  BY DEF Owns, Grantee, Mine
<1>3. \A u \in Tasks : u # t => ~Owns(u) /\ ~Owns(u)'
  BY <1>0, <1>2, OwnsFrame DEF OneOwner, Mine
<1>4. InLineUngranted'
  BY <1>1 DEF InLineUngranted
<1>5. CellsFit'
  BY <1>0 DEF CellsFit, CellAt, Mine
<1>6. Publishing'
  BY <1>0, PublishingFrame DEF Mine
<1>7. OneOwner' /\ WordFits'
  BY <1>2, <1>3 DEF OneOwner, WordFits
<1>8. SlotFits'
  BY <1>2, SlotFrame DEF SlotFits
<1>9. Lock!Free
  <2>1. Holders # {} /\ Holders' = {}
    BY <1>2, <1>3 DEF Holders
  <2>2. GivenUp = {} /\ GivenUp' = {}
    BY <1>1 DEF GivenUp
  <2>. QED
    BY <2>1, <2>2 DEF Lock!Free, Holders
<1>. QED
  BY <1>4, <1>5, <1>6, <1>7, <1>8, <1>9 DEF Inv, Lock!LockNext, Mine

\* try_release: an unmarked lock has no line.
LEMMA TryReleaseInv ==
  ASSUME Inv, NEW t \in Tasks, try_release(t)
  PROVE  Inv' /\ [Lock!LockNext]_(Lock!lockVars)
<1>0. Types /\ Counted /\ CellsFit /\ InLineUngranted /\ WordFits
  BY DEF Inv
<1>1. UNCHANGED <<slot, entries, outstanding, phase, permit, resource, selected, target, calls>>
  BY DEF try_release, cellVars
<1>2. ASSUME NEW b \in {"out", "releasing"}, Goto(t, "holding", b), state' \in {"free", state}
      PROVE  Mine(t, "holding", b) /\ Counted'
  <2>1. Types'
    BY <1>0, <1>1, <1>2, Moved DEF Types, Places
  <2>2. Mine(t, "holding", b)
    BY <1>0, <1>1, <1>2, <2>1, Moved DEF Mine, Places
  <2>. QED
    BY <1>0, <1>1, <2>2, TicketCount DEF Mine, TicketPlaces
<1>3. CASE state = "locked" /\ Goto(t, "holding", "out") /\ state' = "free"
  <2>1. entries = <<>>
    BY <1>0, <1>3 DEF WordFits
  <2>. QED
    BY <1>1, <1>2, <1>3, <2>1, FreeStep
<1>4. CASE Goto(t, "holding", "releasing") /\ UNCHANGED state
  <2>1. Mine(t, "holding", "releasing") /\ Counted'
    BY <1>2, <1>4
  <2>2. CellAt(t)' /\ t \notin ToSet(entries) /\ phase[t] = "Idle"
    BY <1>0, <1>1, <2>1 DEF CellsFit, CellAt, Mine, InLineUngranted
  <2>3. Owns(t) /\ Owns(t)' /\ ~Grantee(t) /\ ~Grantee(t)'
    BY <2>1 DEF Owns, Grantee, Mine
  <2>. QED
    BY <1>1, <1>4, <2>1, <2>2, <2>3, QuietStep, SlotFrame DEF Mine
<1>. QED
  BY <1>3, <1>4 DEF try_release

\* unlock: the line has emptied since it was marked.
LEMMA UnlockInv ==
  ASSUME Inv, NEW t \in Tasks, unlock(t)
  PROVE  Inv' /\ Lock!LockNext
<1>. USE DEF unlock, cellVars
<1>0. Types /\ Counted
  BY DEF Inv
<1>1. Mine(t, "releasing", "out")
  <2>1. Types'
    BY <1>0, Moved DEF Types, Places
  <2>. QED
    BY <1>0, <2>1, Moved DEF Mine, Places
<1>2. Counted'
  BY <1>0, <1>1, TicketCount DEF Mine, TicketPlaces
<1>. QED
  BY <1>1, <1>2, FreeStep

-----------------------------------------------------------------------------
(* Steps of the abstract lock: Quit, Leave and Pass. *)

\* A task in line that was not granted the lock gives up.
LEMMA QuitStep ==
  ASSUME Inv, NEW t \in Tasks, NEW a, NEW b, Mine(t, a, b), Counted',
         t \in ToSet(entries), phase'[t] = "SelectedOther" \/ b = "drop",
         b \in {"parked", "drop"}, phase'[t] # "Idle" <=> b = "parked", phase'[t] # "ClaimReady",
         phase'[t] # "SelectedReady", phase[t] # "ClaimReady",
         UNCHANGED <<state, slot, entries, target, permit, resource, selected>>
  PROVE  Inv' /\ Lock!LockNext
<1>0. Types /\ CellsFit /\ InLineUngranted /\ Publishing /\ OneOwner /\ WordFits /\ SlotFits
  BY DEF Inv
<1>1. /\ a \in {"ticket", "parked", "drop"} /\ ~permit[t] /\ ~resource[t] /\ ~selected[t]
      /\ ToSet(entries) \subseteq Tasks
  BY <1>0, InLine DEF InLineUngranted, Mine, Types
<1>2. ~Owns(t) /\ ~Owns(t)' /\ ~Grantee(t) /\ ~Grantee(t)'
  BY <1>1 DEF Owns, Grantee, Mine, granted
<1>3. \A u \in Tasks : Owns(u)' <=> Owns(u)
  BY <1>2, OwnsFrame DEF Mine
<1>4. InLineUngranted'
  BY <1>0, <1>1 DEF InLineUngranted, Mine
<1>5. CellsFit'
  <2>1. CellAt(t)'
    BY <1>1 DEF CellAt, Mine
  <2>. QED
    BY <1>0, <2>1 DEF CellsFit, CellAt, Mine
<1>6. Publishing'
  BY <1>0, <1>1, PublishingFrame DEF Mine
<1>7. OneOwner' /\ WordFits'
  BY <1>0, <1>3 DEF OneOwner, WordFits
<1>8. SlotFits'
  BY <1>1, <1>2, SlotFrame DEF SlotFits
<1>9. Lock!Quit(t)
  <2>1. Holders' = Holders
    BY <1>3 DEF Holders
  <2>2. GivenUp' = GivenUp \cup {t}
    <3>1. \A u \in ToSet(entries) : u # t => phase'[u] = phase[u] /\ pc'[u] = pc[u]
      BY <1>1 DEF Mine
    <3>. QED
      BY <3>1 DEF GivenUp, Mine
  <2>. QED
    BY <2>1, <2>2, LockOps DEF Lock!Quit, Holders
<1>. QED
  BY <1>4, <1>5, <1>6, <1>7, <1>8, <1>9 DEF Inv, Lock!LockNext, Mine

\* select_cancelled.
LEMMA SelectCancelledInv ==
  ASSUME Inv, NEW t \in Tasks, select_cancelled(t)
  PROVE  Inv' /\ Lock!LockNext
<1>. USE DEF select_cancelled
<1>0. Types /\ Counted /\ CellsFit
  BY DEF Inv
<1>1. pc[t] = "parked" /\ t \in ToSet(entries)
  BY <1>0 DEF CellsFit, CellAt
<1>2. Mine(t, "parked", "parked") /\ phase'[t] = "SelectedOther"
  <2>1. Types'
    BY <1>0 DEF Types, Phases
  <2>. QED
    BY <1>0, <1>1, <2>1 DEF Mine, Types
<1>3. Counted'
  BY <1>0, <1>2, TicketCount DEF Mine, TicketPlaces
<1>. QED
  BY <1>1, <1>2, <1>3, QuitStep

\* rollback: of a wait that was selected, or of one still in line.
LEMMA RollbackInv ==
  ASSUME Inv, NEW t \in Tasks, rollback(t)
  PROVE  Inv' /\ [Lock!LockNext]_(Lock!lockVars)
<1>0. Types /\ Counted /\ CellsFit /\ InLineUngranted
  BY DEF Inv
<1>1. /\ UNCHANGED <<state, slot, entries, outstanding, permit, resource, selected, target, calls>>
      /\ phase[t] # "ClaimReady" /\ phase' = [phase EXCEPT ![t] = "Idle"]
      /\ Goto(t, "parked", "drop")
  BY DEF rollback
<1>2. Mine(t, "parked", "drop") /\ phase'[t] = "Idle"
  <2>1. Types'
    BY <1>0, <1>1, Moved DEF Types, Places, Phases
  <2>. QED
    BY <1>0, <1>1, <2>1, Moved DEF Mine, Types, Places
<1>3. Counted'
  BY <1>0, <1>1, <1>2, TicketCount DEF Mine, TicketPlaces
<1>4. CASE t \in ToSet(entries)
  BY <1>1, <1>2, <1>3, <1>4, QuitStep
<1>5. CASE t \notin ToSet(entries)
  <2>1. ~selected[t] /\ ~permit[t] /\ phase[t] # "Active"
    BY <1>0, <1>2, <1>5 DEF CellsFit, CellAt, Mine
  <2>2. CellAt(t)'
    BY <1>1, <1>2, <2>1 DEF CellAt, Mine
  <2>3. (Owns(t)' <=> Owns(t)) /\ (Grantee(t)' <=> Grantee(t))
    BY <1>1, <1>2, <2>1 DEF Owns, Grantee, Mine, granted
  <2>. QED
    BY <1>1, <1>2, <1>3, <1>5, <2>2, <2>3, QuietStep, SlotFrame DEF Mine
<1>. QED
  BY <1>4, <1>5

\* begin_resident: a stored grant is consumed, else the task parks or gives up.
LEMMA BeginResidentInv ==
  ASSUME Inv, NEW t \in Tasks, begin_resident(t)
  PROVE  Inv' /\ [Lock!LockNext]_(Lock!lockVars)
<1>0. Types /\ Counted /\ CellsFit /\ InLineUngranted
  BY DEF Inv
<1>1. UNCHANGED <<state, slot, entries, outstanding, resource, target, calls>>
  BY DEF begin_resident
<1>2. CASE /\ permit[t] /\ Goto(t, "ticket", "check") /\ permit' = [permit EXCEPT ![t] = FALSE]
           /\ selected' = [selected EXCEPT ![t] = TRUE] /\ UNCHANGED phase
  <2>1. Mine(t, "ticket", "check") /\ selected'[t]
    <3>1. Types'
      BY <1>0, <1>1, <1>2, Moved DEF Types, Places
    <3>. QED
      BY <1>0, <1>1, <1>2, <3>1, Moved DEF Mine, Types, Places
  <2>2. Counted'
    BY <1>0, <1>1, <2>1, TicketCount DEF Mine, TicketPlaces
  <2>3. resource[t] /\ t \notin ToSet(entries) /\ phase[t] = "Idle"
    BY <1>0, <1>2, <2>1 DEF CellsFit, CellAt, Mine
  <2>4. CellAt(t)'
    BY <1>2, <2>1, <2>3 DEF CellAt, Mine
  <2>5. Owns(t)' /\ Owns(t) /\ Grantee(t)' /\ Grantee(t)
    BY <2>1, <2>3 DEF Owns, Grantee, Mine
  <2>. QED
    BY <1>1, <1>2, <2>1, <2>2, <2>3, <2>4, <2>5, QuietStep, SlotFrame DEF Mine
<1>3. CASE /\ ~permit[t] /\ Goto(t, "ticket", "parked") /\ phase' = [phase EXCEPT ![t] = "Active"]
           /\ UNCHANGED <<permit, selected>>
  <2>1. Mine(t, "ticket", "parked") /\ phase'[t] = "Active"
    <3>1. Types'
      BY <1>0, <1>1, <1>3, Moved DEF Types, Places, Phases
    <3>. QED
      BY <1>0, <1>1, <1>3, <3>1, Moved DEF Mine, Types, Places
  <2>2. Counted'
    BY <1>0, <1>1, <2>1, TicketCount DEF Mine, TicketPlaces
  <2>3. ~resource[t] /\ ~selected[t] /\ t \in ToSet(entries) /\ phase[t] = "Idle"
    BY <1>0, <1>3, <2>1 DEF CellsFit, CellAt, Mine
  <2>4. CellAt(t)'
    BY <1>1, <1>3, <2>1, <2>3 DEF CellAt, Mine
  <2>5. ~Owns(t)' /\ ~Owns(t) /\ ~Grantee(t)' /\ ~Grantee(t)
    BY <1>1, <2>1, <2>3 DEF Owns, Grantee, Mine
  <2>. QED
    BY <1>1, <1>3, <2>1, <2>2, <2>3, <2>4, <2>5, QuietStep, SlotFrame DEF Mine
<1>4. CASE ~permit[t] /\ Goto(t, "ticket", "drop") /\ UNCHANGED <<phase, permit, selected>>
  <2>1. Mine(t, "ticket", "drop")
    <3>1. Types'
      BY <1>0, <1>1, <1>4, Moved DEF Types, Places
    <3>. QED
      BY <1>0, <1>1, <1>4, <3>1, Moved DEF Mine, Types, Places
  <2>2. Counted'
    BY <1>0, <1>1, <2>1, TicketCount DEF Mine, TicketPlaces
  <2>3. t \in ToSet(entries) /\ phase[t] = "Idle"
    BY <1>0, <1>4, <2>1 DEF CellsFit, CellAt, Mine
  <2>. QED
    BY <1>1, <1>4, <2>1, <2>2, <2>3, QuitStep
<1>. QED
  BY <1>2, <1>3, <1>4 DEF begin_resident

\* drop_ticket: a task that gave up leaves the line, if it still stands there.
LEMMA DropTicketInv ==
  ASSUME Inv, NEW t \in Tasks, drop_ticket(t)
  PROVE  Inv' /\ [Lock!LockNext]_(Lock!lockVars)
<1>0. Types /\ Counted /\ CellsFit /\ InLineUngranted /\ Publishing /\ OneOwner /\ WordFits /\ SlotFits
  BY DEF Inv
<1>1. /\ UNCHANGED <<state, slot, outstanding, phase, permit, resource, selected, target, calls>>
      /\ entries' = RemoveFirst(entries, t)
  BY DEF drop_ticket, cellVars
<1>2. CASE t \in ToSet(entries)
  <2>1. Goto(t, "drop", "queued")
    BY <1>2 DEF drop_ticket
  <2>2. /\ entries' \in LineOf(Tasks) /\ ToSet(entries') = ToSet(entries) \ {t}
        /\ ToSet(entries) \subseteq Tasks /\ entries # <<>>
    BY <1>0, <1>1, <1>2, LeaveLine, InLine DEF Types
  <2>3. Mine(t, "drop", "queued")
    <3>1. Types'
      BY <1>0, <1>1, <2>1, <2>2, Moved DEF Types, Places
    <3>. QED
      BY <1>0, <1>1, <2>1, <3>1, Moved DEF Mine, Places
  <2>4. Counted'
    BY <1>0, <1>1, <2>3, TicketCount DEF Mine, TicketPlaces
  <2>5. ~resource[t] /\ ~selected[t]
    BY <1>0, <1>2 DEF InLineUngranted
  <2>6. ~Owns(t) /\ ~Owns(t)' /\ ~Grantee(t) /\ ~Grantee(t)'
    BY <2>3, <2>5 DEF Owns, Grantee, granted, Mine
  <2>7. \A u \in Tasks : Owns(u)' <=> Owns(u)
    BY <2>3, <2>6, OwnsFrame DEF Mine
  <2>8. InLineUngranted'
    BY <1>0, <1>1, <2>2, <2>3 DEF InLineUngranted, Mine
  <2>9. CellsFit'
    <3>1. CellAt(t)'
      BY <1>0, <1>1, <2>3 DEF CellAt, CellsFit, Mine
    <3>2. \A u \in Tasks : u # t => CellAt(u)'
      BY <1>0, <1>1, <2>2, <2>3 DEF CellsFit, CellAt, Mine
    <3>. QED
      BY <3>1, <3>2 DEF CellsFit
  <2>10. Publishing'
    BY <1>0, <1>1, <2>3, PublishingFrame DEF Mine
  <2>11. OneOwner' /\ WordFits'
    BY <1>0, <1>1, <2>2, <2>7 DEF OneOwner, WordFits
  <2>12. SlotFits'
    BY <1>1, <2>3, <2>6, SlotFrame DEF SlotFits
  <2>13. Lock!Leave(t)
    <3>1. Holders' = Holders
      BY <2>7 DEF Holders
    <3>2. t \in GivenUp /\ GivenUp' = GivenUp \ {t}
      <4>1. \A u \in ToSet(entries) : u # t => phase'[u] = phase[u] /\ pc'[u] = pc[u]
        BY <1>1, <2>2, <2>3 DEF Mine
      <4>. QED
        BY <1>2, <2>2, <2>3, <4>1 DEF GivenUp, Mine
    <3>. QED
      BY <1>1, <3>1, <3>2, LockOps DEF Lock!Leave, Holders
  <2>. QED
    BY <2>3, <2>4, <2>8, <2>9, <2>10, <2>11, <2>12, <2>13 DEF Inv, Lock!LockNext, Mine
<1>3. CASE t \notin ToSet(entries)
  <2>1. Goto(t, "drop", "dequeued")
    BY <1>3 DEF drop_ticket
  <2>2. entries' = entries
    BY <1>0, <1>1, <1>3, NotInLine DEF Types
  <2>3. Mine(t, "drop", "dequeued")
    <3>1. Types'
      BY <1>0, <1>1, <2>1, <2>2, Moved DEF Types, Places
    <3>. QED
      BY <1>0, <1>1, <2>1, <3>1, Moved DEF Mine, Places
  <2>4. Counted'
    BY <1>0, <1>1, <2>3, TicketCount DEF Mine, TicketPlaces
  <2>5. CellAt(t)' /\ phase[t] = "Idle"
    BY <1>0, <1>1, <2>3 DEF CellAt, CellsFit, Mine
  <2>6. (Owns(t)' <=> Owns(t)) /\ (Grantee(t)' <=> Grantee(t))
    BY <1>1, <2>3 DEF Owns, Grantee, Mine, granted
  <2>. QED
    BY <1>1, <1>3, <2>2, <2>3, <2>4, <2>5, <2>6, QuietStep, SlotFrame DEF Mine
<1>. QED
  BY <1>2, <1>3

\* One round of a release: the front of the line is handed the lock, unless it
\* has given up, and then it only leaves the line.
LEMMA ReleaseInv ==
  ASSUME Inv, NEW t \in Tasks, release_ownership(t)
  PROVE  Inv' /\ Lock!LockNext
<1>0. Types /\ Counted /\ CellsFit /\ InLineUngranted /\ Publishing /\ OneOwner /\ WordFits /\ SlotFits
  BY DEF Inv
<1>1. /\ entries # <<>> /\ entries' = Tail(entries) /\ state' = set_waiters /\ slot' = TRUE
      /\ UNCHANGED <<outstanding, selected, calls>>
      /\ pc[t] = "releasing"
  BY DEF release_ownership, Goto
<1>u. PICK u \in Tasks : u = Head(entries)
  BY <1>0, <1>1, ServeLine DEF Types
<1>2. /\ u \in Tasks /\ u \in ToSet(entries) /\ entries' \in LineOf(Tasks)
      /\ ToSet(entries') = ToSet(entries) \ {u} /\ ToSet(entries) \subseteq Tasks
      /\ (Len(entries) = 1 <=> entries' = <<>>)
  BY <1>0, <1>1, <1>u, ServeLine, InLine DEF Types
<1>3. /\ pc[u] \in {"ticket", "parked", "drop"} /\ ~permit[u] /\ ~resource[u] /\ ~selected[u] /\ u # t
  BY <1>0, <1>1, <1>2 DEF InLineUngranted
<1>4. /\ state' \in {"locked", "waiters"} /\ (state' # "waiters" => entries' = <<>>)
  BY <1>1, <1>2 DEF set_waiters
<1>5. Owns(t) /\ \A v \in Tasks : v # t => ~Owns(v)
  <2>1. Owns(t)
    BY <1>1 DEF Owns
  <2>. QED
    BY <1>0, <2>1 DEF OneOwner
<1>6. ASSUME NEW b \in {"publish", "out"}, Goto(t, "releasing", b), Types', Publishing', CellAt(u)',
             resource'[u], pc[u] \in {"ticket", "parked", "drop"},
             \A v \in Tasks : v # u => /\ phase'[v] = phase[v] /\ resource'[v] = resource[v]
                                       /\ permit'[v] = permit[v]
      PROVE  Inv' /\ Lock!LockNext
  <2>1. pc'[t] = b /\ \A v \in Tasks : v # t => pc'[v] = pc[v]
    BY <1>0, <1>6, Moved DEF Places
  <2>2. Owns(u)' /\ Grantee(u)'
    BY <1>3, <1>6, <2>1 DEF Owns, Grantee, granted
  <2>3. ~Owns(t)'
    BY <1>6, <2>1 DEF Owns, Grantee
  <2>4. \A v \in Tasks : v # u => ~Owns(v)'
    BY <1>1, <1>5, <1>6, <2>1, <2>3, OwnsFrame
  <2>5. Counted'
    BY <1>0, <1>1, <1>6, <2>1, TicketCount DEF TicketPlaces
  <2>6. InLineUngranted'
    <3>1. \A v \in ToSet(entries') : v \in ToSet(entries) /\ v \in Tasks /\ v # u /\ v # t
      BY <1>0, <1>1, <1>2 DEF InLineUngranted
    <3>. QED
      BY <1>0, <1>1, <1>6, <2>1, <3>1 DEF InLineUngranted
  <2>7. CellsFit'
    <3>1. CellAt(t)'
      BY <1>0, <1>1, <1>3, <1>6, <2>1 DEF CellsFit, CellAt
    <3>2. \A v \in Tasks : v # t /\ v # u => CellAt(v)'
      BY <1>0, <1>1, <1>2, <1>6, <2>1 DEF CellsFit, CellAt
    <3>. QED
      BY <1>6, <3>1, <3>2 DEF CellsFit
  <2>8. OneOwner' /\ WordFits' /\ SlotFits'
    BY <1>1, <1>2, <1>4, <2>2, <2>4 DEF OneOwner, WordFits, SlotFits
  <2>9. Lock!Pass
    <3>1. Holders' = {u}
      BY <1>2, <2>2, <2>4 DEF Holders
    <3>2. GivenUp' = GivenUp \ {u}
      <4>1. \A v \in ToSet(entries) : v # u => v # t /\ phase'[v] = phase[v] /\ pc'[v] = pc[v]
        BY <1>0, <1>1, <1>2, <1>6, <2>1 DEF InLineUngranted
      <4>. QED
        BY <1>2, <4>1 DEF GivenUp
    <3>. QED
      BY <1>1, <1>u, <3>1, <3>2 DEF Lock!Pass, Holders
  <2>. QED
    BY <1>6, <2>5, <2>6, <2>7, <2>8, <2>9 DEF Inv, Lock!LockNext
<1>7. CASE /\ resource_offer(u) /\ phase[u] = "Active" /\ Goto(t, "releasing", "publish")
           /\ phase' = [phase EXCEPT ![u] = "ClaimReady"]
           /\ resource' = [resource EXCEPT ![u] = TRUE]
           /\ target' = [target EXCEPT ![t] = u]
           /\ UNCHANGED permit
  <2>1. /\ phase'[u] = "ClaimReady" /\ resource'[u] /\ target'[t] = u
        /\ \A v \in Tasks : v # u => phase'[v] = phase[v] /\ resource'[v] = resource[v]
        /\ \A v \in Tasks : v # t => target'[v] = target[v]
        /\ pc'[t] = "publish" /\ \A v \in Tasks : v # t => pc'[v] = pc[v]
    BY <1>0, <1>2, <1>7, Moved DEF Types, Places
  <2>2. Types'
    BY <1>0, <1>1, <1>2, <1>4, <1>7, Moved DEF Types, Places, Phases
  <2>3. CellAt(u)' /\ pc[u] = "parked"
    BY <1>0, <1>1, <1>2, <1>3, <1>7, <2>1 DEF CellsFit, CellAt
  <2>4. Publishing'
    <3>1. \A v \in Tasks : pc'[v] = "publish" /\ v # t =>
            /\ pc[v] = "publish" /\ target'[v] = target[v] /\ target[v] \in Tasks
            /\ phase[target[v]] = "ClaimReady" /\ target[v] # u /\ phase'[target[v]] = "ClaimReady"
      BY <1>0, <1>7, <2>1 DEF Publishing
    <3>. QED
      BY <1>0, <1>2, <2>1, <3>1 DEF Publishing
  <2>. QED
    BY <1>3, <1>6, <1>7, <2>1, <2>2, <2>3, <2>4
<1>8. CASE /\ resource_offer(u) /\ phase[u] # "Active" /\ Goto(t, "releasing", "out")
           /\ resource' = [resource EXCEPT ![u] = TRUE]
           /\ permit' = [permit EXCEPT ![u] = TRUE]
           /\ UNCHANGED <<phase, target>>
  <2>1. /\ resource'[u] /\ permit'[u]
        /\ \A v \in Tasks : v # u => permit'[v] = permit[v] /\ resource'[v] = resource[v]
        /\ pc'[t] = "out" /\ \A v \in Tasks : v # t => pc'[v] = pc[v]
    BY <1>0, <1>2, <1>8, Moved DEF Types, Places
  <2>2. Types'
    BY <1>0, <1>1, <1>2, <1>4, <1>8, Moved DEF Types, Places
  <2>3. CellAt(u)'
    BY <1>0, <1>1, <1>2, <1>3, <1>8, <2>1 DEF CellsFit, CellAt, resource_offer
  <2>4. Publishing'
    BY <1>0, <1>1, <1>8, <2>1, PublishingFrame
  <2>. QED
    BY <1>3, <1>6, <1>8, <2>1, <2>2, <2>3, <2>4
<1>9. CASE /\ ~resource_offer(u) /\ Goto(t, "releasing", "rejected")
           /\ UNCHANGED <<phase, permit, resource, target>>
  <2>1. pc'[t] = "rejected" /\ \A v \in Tasks : v # t => pc'[v] = pc[v]
    BY <1>0, <1>9, Moved DEF Places
  <2>2. phase[u] = "SelectedOther" /\ pc[u] = "parked"
    <3>1. phase[u] \notin {"Idle", "Active"}
      BY <1>3, <1>9 DEF resource_offer
    <3>2. phase[u] \in Phases
      BY <1>0, <1>2 DEF Types
    <3>. QED
      BY <1>0, <1>2, <1>3, <3>1, <3>2 DEF CellsFit, CellAt, Phases
  <2>3. Types'
    BY <1>0, <1>1, <1>2, <1>4, <1>9, Moved DEF Types, Places
  <2>4. Owns(t)' /\ \A v \in Tasks : v # t => ~Owns(v)'
    BY <1>1, <1>5, <1>9, <2>1, OwnsFrame DEF Owns
  <2>5. Counted'
    BY <1>0, <1>1, <2>1, TicketCount DEF TicketPlaces
  <2>6. InLineUngranted'
    <3>1. \A v \in ToSet(entries') : v \in ToSet(entries) /\ v \in Tasks /\ v # u /\ v # t
      BY <1>0, <1>1, <1>2 DEF InLineUngranted
    <3>. QED
      BY <1>0, <1>1, <1>9, <2>1, <3>1 DEF InLineUngranted
  <2>7. CellsFit'
    <3>1. CellAt(t)'
      BY <1>0, <1>1, <1>9, <2>1 DEF CellsFit, CellAt
    <3>2. CellAt(u)'
      BY <1>0, <1>1, <1>2, <1>3, <1>9, <2>1, <2>2 DEF CellsFit, CellAt
    <3>3. \A v \in Tasks : v # t /\ v # u => CellAt(v)'
      BY <1>0, <1>1, <1>2, <1>9, <2>1 DEF CellsFit, CellAt
    <3>. QED
      BY <3>1, <3>2, <3>3 DEF CellsFit
  <2>8. Publishing'
    BY <1>0, <1>9, <2>1, PublishingFrame
  <2>9. OneOwner' /\ WordFits' /\ SlotFits'
    BY <1>1, <1>4, <2>1, <2>4 DEF OneOwner, WordFits, SlotFits
  <2>10. Lock!Leave(u)
    <3>1. Holders' = Holders
      BY <1>5, <2>4 DEF Holders
    <3>2. u \in GivenUp /\ GivenUp' = GivenUp \ {u}
      <4>1. \A v \in ToSet(entries) : v # t /\ phase'[v] = phase[v] /\ pc'[v] = pc[v]
        BY <1>0, <1>1, <1>2, <1>9, <2>1 DEF InLineUngranted
      <4>. QED
        BY <1>2, <2>2, <4>1 DEF GivenUp
    <3>3. entries' = RemoveFirst(entries, u)
      BY <1>0, <1>1, <1>2, <1>u, LeaveLine DEF Types
    <3>. QED
      BY <3>1, <3>2, <3>3, LockOps DEF Lock!Leave, Holders
  <2>. QED
    BY <1>2, <2>3, <2>5, <2>6, <2>7, <2>8, <2>9, <2>10 DEF Inv, Lock!LockNext
<1>. QED
  BY <1>u, <1>7, <1>8, <1>9 DEF release_ownership, cellVars

-----------------------------------------------------------------------------
(* The invariant and the refinement. *)

\* Every step keeps the invariant and is a step of the abstract lock or none.
LEMMA NextStep ==
  ASSUME Inv, [Next]_vars
  PROVE  Inv' /\ [Lock!LockNext]_(Lock!lockVars)
<1>1. CASE UNCHANGED vars
  <2>. USE <1>1 DEF vars, cellVars
  <2>1. \A t \in Tasks : (Owns(t)' <=> Owns(t)) /\ (Grantee(t)' <=> Grantee(t))
    BY OwnsFrame
  <2>2. Inv'
    BY <2>1 DEF Inv, Types, Counted, Ticketed, InLineUngranted, CellsFit, CellAt, Publishing,
                OneOwner, WordFits, SlotFits
  <2>3. UNCHANGED Lock!lockVars
    BY <2>1 DEF Lock!lockVars, GivenUp
  <2>. QED
    BY <2>2, <2>3
<1>2. CASE Next
  <2>1. PICK t \in Tasks : try_lock(t) \/ Enter(t) \/ Proceed(t) \/ select_cancelled(t) \/ rollback(t)
    BY <1>2 DEF Next
  <2>2. CASE try_lock(t) \/ Enter(t) \/ select_cancelled(t) \/ rollback(t)
    BY <2>2, TryLockInv, EnterInv, SelectCancelledInv, RollbackInv
  <2>3. CASE Proceed(t)
    BY <2>3, ReserveInv, SubscribeInv, RetireInv, BeginResidentInv, FinishInv, CheckInv, TakeInv,
       TryReleaseInv, UnlockInv, ReleaseInv, PublishInv, DropTicketInv, DropRetireInv, TakeResourceInv
       DEF Proceed
  <2>. QED
    BY <2>1, <2>2, <2>3
<1>. QED
  BY <1>1, <1>2

\* The invariant holds of every reachable state: in particular at most
\* wait_capacity tickets are outstanding, one task at most owns the lock, and
\* whoever was granted it finds the capability in the slot.
THEOREM MutexInvariance == Spec => []Inv
<1>1. Init => Inv
  BY InitInv
<1>2. Inv /\ [Next]_vars => Inv'
  BY NextStep
<1>. QED
  BY <1>1, <1>2, PTL DEF Spec

\* mutex_queue.rs: the mutex implements the first-come-first-served lock.
THEOREM MutexImplementsFairLock == Spec => ImplementsFairLock
<1>1. Init => Lock!LockInit
  BY InitInv
<1>2. Inv /\ [Next]_vars => [Lock!LockNext]_(Lock!lockVars)
  BY NextStep
<1>. QED
  BY <1>1, <1>2, MutexInvariance, PTL DEF Spec, ImplementsFairLock, Lock!Fair
-----------------------------------------------------------------------------
(* The channel. *)

(* The inductive invariant, in parts. *)

ChanTypes ==
  /\ values \in Seq(SendTasks) /\ Len(values) <= BufferCapacity
  /\ endpoints \subseteq Chan!Tasks /\ closed \in BOOLEAN
  /\ waits \in [Chan!Directions -> LineOf(Chan!Tasks)]
  /\ place \in [Chan!Tasks -> {"out", "pass", "again", "queued", "parked", "drop"}]
  /\ cell \in [Chan!Tasks -> {"Idle", "Active", "Ready", "Other"}]
  /\ token \in [Chan!Tasks -> BOOLEAN]
  /\ made \in [Chan!Tasks -> 0..ChannelCalls]

\* A ticket stands in the line of its direction, once, from the pass that
\* queued it to the one that transfers or drops it.
ChanTicketed ==
  /\ \A d \in Chan!Directions : Len(waits[d]) <= WaitCapacity
  /\ \A d \in Chan!Directions : \A u \in ToSet(waits[d]) :
       Chan!direction(u) = d /\ place[u] \in {"again", "queued", "parked", "drop"}
  /\ \A t \in Chan!Tasks : place[t] \in {"queued", "parked", "drop"} => t \in ToSet(Chan!Line(t))

\* A wait is open on the cell exactly while the task is parked.
ChanCellsFit == \A t \in Chan!Tasks : cell[t] = "Idle" <=> place[t] # "parked"

\* A front that could go on is awake.
Could(t) == Chan!transferable(t) \/ Chan!disconnected(t)
FrontCalled == \A t \in Chan!Fronts(waits) : Could(t) => ~Chan!Asleep(t)

ChanInv == ChanTypes /\ ChanTicketed /\ ChanCellsFit /\ FrontCalled

-----------------------------------------------------------------------------
(* Lemmas about the operators. *)

\* The channel's instance reads a line as this module does.
LEMMA ChanLines ==
  /\ \A s : Chan!ToSet(s) = ToSet(s)
  /\ \A s, e : Chan!Contains(s, e) <=> Contains(s, e)
  /\ \A s, e : Chan!RemoveFirst(s, e) = RemoveFirst(s, e)
<1>1. \A s : Chan!ToSet(s) = ToSet(s)
  BY DEF Chan!ToSet, ToSet
<1>2. \A s, e : Chan!Contains(s, e) <=> Contains(s, e)
  BY DEF Chan!Contains, Contains
<1>3. \A s, e : Chan!RemoveFirst(s, e) = RemoveFirst(s, e)
  BY DEF Chan!RemoveFirst, RemoveFirst, Chan!RemoveAt, RemoveAt,
         Chan!SelectInSeq, SelectInSeq, Chan!Min, Min
<1>. QED
  BY <1>1, <1>2, <1>3

\* The two directions.
LEMMA DirectionFacts ==
  /\ \A t \in SendTasks : Chan!direction(t) = "send"
  /\ \A t \in RecvTasks : Chan!direction(t) = "recv" /\ t \notin SendTasks
  /\ \A t \in Chan!Tasks : Chan!direction(t) \in Chan!Directions
BY ChannelAssumption DEF Chan!ChannelAssumption, Chan!direction, Chan!Directions, Chan!Tasks

\* A front is the head of a line that is not empty.
LEMMA FrontFacts ==
  ASSUME NEW lines
  PROVE  \A t : t \in Chan!Fronts(lines) <=> \E d \in Chan!Directions : lines[d] # <<>> /\ t = Head(lines[d])
BY DEF Chan!Fronts

\* The fronts are tasks in their lines.
LEMMA FrontsInLine ==
  ASSUME ChanTypes
  PROVE  \A d \in Chan!Directions : waits[d] # <<>> => Head(waits[d]) \in ToSet(waits[d]) /\ Head(waits[d]) \in Chan!Tasks
<1>1. \A d \in Chan!Directions : waits[d] \in LineOf(Chan!Tasks)
  BY DEF ChanTypes
<1>. QED
  BY <1>1, ServeLine

\* notify keeps the types and where a wait is open, and whoever it wakes is awake.
LEMMA NotifyFacts ==
  ASSUME NEW woken, Chan!notify(woken), ChanTypes, ChanCellsFit,
         place' \in [Chan!Tasks -> {"out", "pass", "again", "queued", "parked", "drop"}],
         \A t \in Chan!Tasks : place'[t] = "parked" <=> place[t] = "parked"
  PROVE  /\ cell' \in [Chan!Tasks -> {"Idle", "Active", "Ready", "Other"}]
         /\ token' \in [Chan!Tasks -> BOOLEAN]
         /\ ChanCellsFit'
         /\ \A t \in Chan!Tasks : t \in woken => ~Chan!Asleep(t)'
         /\ \A t \in Chan!Tasks : place'[t] = place[t] /\ Chan!Asleep(t)' => Chan!Asleep(t)
<1>1. /\ cell' \in [Chan!Tasks -> {"Idle", "Active", "Ready", "Other"}]
      /\ token' \in [Chan!Tasks -> BOOLEAN]
      /\ \A t \in Chan!Tasks : /\ cell'[t] = IF t \in woken /\ cell[t] = "Active" THEN "Ready" ELSE cell[t]
                          /\ token'[t] = (token[t] \/ (t \in woken /\ cell[t] # "Active"))
  BY DEF Chan!notify, ChanTypes
<1>2. ChanCellsFit'
  BY <1>1 DEF ChanCellsFit
<1>. QED
  BY <1>1, <1>2 DEF Chan!Asleep, ChanCellsFit

-----------------------------------------------------------------------------
(* Frames. *)

\* Task t moves from place a to place b and touches no more than its own cell.
ChanMine(t, a, b) ==
  /\ place[t] = a /\ place'[t] = b
  /\ \A u \in Chan!Tasks : u # t => place'[u] = place[u] /\ cell'[u] = cell[u] /\ token'[u] = token[u]
  /\ ChanTypes'

\* A step of t's own, with the core unchanged, keeps the invariant when t's
\* ticket stays with it, its cell fits and it does not fall asleep.
LEMMA OwnStep ==
  ASSUME ChanInv, NEW t \in Chan!Tasks, NEW a, NEW b, ChanMine(t, a, b),
         UNCHANGED Chan!coreVars,
         t \in ToSet(Chan!Line(t)) => b \in {"again", "queued", "parked", "drop"},
         b \in {"queued", "parked", "drop"} => t \in ToSet(Chan!Line(t)),
         cell'[t] = "Idle" <=> b # "parked",
         Chan!Asleep(t)' => Chan!Asleep(t) \/ (t \in Chan!Fronts(waits) => ~Could(t))
  PROVE  ChanInv'
<1>1. \A u \in Chan!Tasks : Chan!Line(u)' = Chan!Line(u) /\ Could(u)' = Could(u)
  BY DEF Chan!coreVars, Chan!Line, Could, Chan!transferable, Chan!disconnected, Chan!senders, Chan!receivers
<1>2. \A u \in Chan!Tasks : u # t => place'[u] = place[u] /\ cell'[u] = cell[u] /\ token'[u] = token[u]
  BY DEF ChanMine
<1>3. ChanTicketed'
  <2>1. waits' = waits /\ place'[t] = b
    BY DEF Chan!coreVars, ChanMine
  <2>2. \A d \in Chan!Directions : \A u \in ToSet(waits[d]) : u \in Chan!Tasks /\ Chan!direction(u) = d
    <3>1. \A d \in Chan!Directions : ToSet(waits[d]) \subseteq Chan!Tasks
      BY InLine DEF ChanInv, ChanTypes
    <3>. QED
      BY <3>1 DEF ChanInv, ChanTicketed
  <2>3. \A d \in Chan!Directions : \A u \in ToSet(waits[d]) : place'[u] \in {"again", "queued", "parked", "drop"}
    BY <1>2, <2>1, <2>2 DEF ChanInv, ChanTicketed, Chan!Line
  <2>4. \A u \in Chan!Tasks : place'[u] \in {"queued", "parked", "drop"} => u \in ToSet(Chan!Line(u))
    BY <1>2, <2>1 DEF ChanInv, ChanTicketed
  <2>. QED
    BY <1>1, <2>1, <2>2, <2>3, <2>4 DEF ChanTicketed, ChanInv
<1>4. ChanCellsFit'
  BY <1>2 DEF ChanCellsFit, ChanInv, ChanMine
<1>5. FrontCalled'
  <2>1. Chan!Fronts(waits)' = Chan!Fronts(waits)
    BY DEF Chan!coreVars, Chan!Fronts
  <2>2. \A u \in Chan!Fronts(waits) : u \in Chan!Tasks
    BY FrontFacts, FrontsInLine DEF ChanInv
  <2>3. \A u \in Chan!Tasks : u # t => Chan!Asleep(u)' = Chan!Asleep(u)
    BY <1>2 DEF Chan!Asleep
  <2>. QED
    BY <1>1, <2>1, <2>2, <2>3 DEF FrontCalled, ChanInv
<1>. QED
  BY <1>3, <1>4, <1>5 DEF ChanInv, ChanMine

\* A step that notifies keeps the invariant when the tickets stay with their
\* tasks, nobody opens or closes a wait and every front that was not woken
\* could as little go on as before, as the same front.
LEMMA WakingStep ==
  ASSUME ChanInv, NEW woken, Chan!notify(woken), ChanTypes', ChanTicketed',
         \A t \in Chan!Tasks : place'[t] = "parked" <=> place[t] = "parked",
         \A t \in Chan!Fronts(waits') :
            t \in woken \/ (t \in Chan!Fronts(waits) /\ place'[t] = place[t] /\ (Could(t)' => Could(t)))
  PROVE  ChanInv'
<1>1. /\ ChanCellsFit'
      /\ \A t \in Chan!Tasks : t \in woken => ~Chan!Asleep(t)'
      /\ \A t \in Chan!Tasks : place'[t] = place[t] /\ Chan!Asleep(t)' => Chan!Asleep(t)
  <2>1. place' \in [Chan!Tasks -> {"out", "pass", "again", "queued", "parked", "drop"}]
    BY DEF ChanTypes
  <2>2. ChanTypes /\ ChanCellsFit
    BY DEF ChanInv
  <2>. QED
    BY <2>1, <2>2, NotifyFacts
<1>2. \A t \in Chan!Fronts(waits') : t \in Chan!Tasks
  <2>1. \A d \in Chan!Directions : waits'[d] \in LineOf(Chan!Tasks)
    BY DEF ChanTypes
  <2>. QED
    BY <2>1, FrontFacts, ServeLine
<1>3. FrontCalled'
  BY <1>1, <1>2 DEF FrontCalled, ChanInv
<1>. QED
  BY <1>1, <1>3 DEF ChanInv

-----------------------------------------------------------------------------
(* The actions. *)

\* Everybody starts outside, with nothing queued.
LEMMA ChanInitInv == Chan!Init => ChanInv
<1>. SUFFICES ASSUME Chan!Init PROVE ChanInv
  OBVIOUS
<1>1. \A d \in Chan!Directions : waits[d] = <<>>
  BY DEF Chan!Init
<1>2. ChanTypes
  <2>1. <<>> \in LineOf(Chan!Tasks) /\ <<>> \in Seq(SendTasks) /\ Len(<<>>) = 0
    BY NobodyInLine, EmptySeq
  <2>2. values \in Seq(SendTasks) /\ Len(values) <= BufferCapacity
    BY <2>1, ChannelAssumption DEF Chan!ChannelAssumption, Chan!Init
  <2>3. waits \in [Chan!Directions -> LineOf(Chan!Tasks)]
    BY <2>1 DEF Chan!Init
  <2>4. /\ place \in [Chan!Tasks -> {"out", "pass", "again", "queued", "parked", "drop"}]
        /\ cell \in [Chan!Tasks -> {"Idle", "Active", "Ready", "Other"}]
        /\ token \in [Chan!Tasks -> BOOLEAN] /\ made \in [Chan!Tasks -> 0..ChannelCalls]
    BY ChannelAssumption DEF Chan!ChannelAssumption, Chan!Init
  <2>. QED
    BY <2>2, <2>3, <2>4 DEF Chan!Init, ChanTypes
<1>3. ChanTicketed
  BY <1>1, NobodyInLine, ChannelAssumption DEF Chan!ChannelAssumption, ChanTicketed, Chan!Init
<1>4. ChanCellsFit
  BY DEF ChanCellsFit, Chan!Init
<1>5. FrontCalled
  BY <1>1, FrontFacts DEF FrontCalled
<1>. QED
  BY <1>2, <1>3, <1>4, <1>5 DEF ChanInv

\* Outside a line there is nothing to lose.
LEMMA NotQueued ==
  ASSUME ChanInv, NEW t \in Chan!Tasks, place[t] \in {"out", "pass"}
  PROVE  t \notin ToSet(Chan!Line(t))
BY DirectionFacts DEF ChanInv, ChanTicketed, Chan!Line

\* A task in its line is its front exactly when it may take its turn.
LEMMA Turns ==
  ASSUME ChanInv, NEW t \in Chan!Tasks, t \in ToSet(Chan!Line(t))
  PROVE  /\ Chan!take_turn(t) <=> t \in Chan!Fronts(waits)
         /\ Chan!Line(t) # <<>>
<1>1. Chan!Line(t) # <<>> /\ Chan!direction(t) \in Chan!Directions /\ Chan!Line(t) = waits[Chan!direction(t)]
  <2>1. Chan!direction(t) \in Chan!Directions
    BY DirectionFacts
  <2>2. Chan!Line(t) \in LineOf(Chan!Tasks)
    BY <2>1 DEF ChanInv, ChanTypes, Chan!Line
  <2>. QED
    BY <2>1, <2>2, InLine DEF Chan!Line
<1>2. t \in Chan!Fronts(waits) => Head(Chan!Line(t)) = t
  <2>1. ASSUME NEW d \in Chan!Directions, waits[d] # <<>>, t = Head(waits[d])
        PROVE  d = Chan!direction(t)
    <3>1. t \in ToSet(waits[d])
      BY <2>1, FrontsInLine DEF ChanInv
    <3>. QED
      BY <3>1 DEF ChanInv, ChanTicketed
  <2>. QED
    BY <1>1, <2>1, FrontFacts
<1>. QED
  BY <1>1, <1>2, FrontFacts DEF Chan!take_turn

\* Entering send or recv.
LEMMA ChanCallInv == ASSUME ChanInv, NEW t \in Chan!Tasks, Chan!call(t) PROVE ChanInv'
<1>1. ChanMine(t, "out", "pass")
  <2>1. ChanTypes'
    BY ChannelAssumption DEF Chan!ChannelAssumption, Chan!call, Chan!Goto, ChanInv, ChanTypes, Chan!coreVars, Chan!cellVars
  <2>. QED
    BY <2>1 DEF ChanMine, Chan!call, Chan!Goto, ChanInv, ChanTypes, Chan!cellVars
<1>2. t \notin ToSet(Chan!Line(t))
  BY NotQueued DEF Chan!call, Chan!Goto
<1>3. UNCHANGED Chan!coreVars /\ cell'[t] = "Idle" /\ ~Chan!Asleep(t)'
  BY <1>1 DEF Chan!call, Chan!cellVars, Chan!Goto, ChanInv, ChanCellsFit, Chan!Asleep, ChanMine
<1>. QED
  BY <1>1, <1>2, <1>3, OwnStep

\* A refused call leaves, through the drop of its ticket when it has one.
LEMMA ChanRefuseInv == ASSUME ChanInv, NEW t \in Chan!Tasks, Chan!refuse_closed(t) PROVE ChanInv'
<1>1. PICK a \in {"pass", "again"}, b \in {"out", "drop"} :
        /\ Chan!Goto(t, a, b)
        /\ b = "drop" <=> a = "again" /\ Contains(Chan!Line(t), t)
  BY ChanLines DEF Chan!refuse_closed
<1>2. ChanMine(t, a, b)
  <2>1. ChanTypes'
    BY <1>1 DEF Chan!refuse_closed, Chan!Goto, ChanInv, ChanTypes, Chan!coreVars, Chan!cellVars
  <2>. QED
    BY <1>1, <2>1 DEF ChanMine, Chan!refuse_closed, Chan!Goto, ChanInv, ChanTypes, Chan!cellVars
<1>3. t \in ToSet(Chan!Line(t)) <=> b = "drop"
  <2>1. Contains(Chan!Line(t), t) <=> t \in ToSet(Chan!Line(t))
    BY DirectionFacts, InLine DEF ChanInv, ChanTypes, Chan!Line
  <2>. QED
    BY <1>1, <2>1, NotQueued DEF Chan!Goto
<1>4. UNCHANGED Chan!coreVars /\ cell'[t] = "Idle" /\ ~Chan!Asleep(t)'
  BY <1>1, <1>2 DEF Chan!refuse_closed, Chan!cellVars, Chan!Goto, ChanInv, ChanCellsFit, Chan!Asleep, ChanMine
<1>. QED
  BY <1>2, <1>3, <1>4, OwnStep

\* The first pass of a call that has to wait, or may not.
LEMMA ChanAttachInv == ASSUME ChanInv, NEW t \in Chan!Tasks, Chan!attach(t) PROVE ChanInv'
<1>1. PICK b \in {"out", "again"} :
        Chan!Goto(t, "pass", b) /\ (token' = token \/ token' = [token EXCEPT ![t] = FALSE])
  BY DEF Chan!attach
<1>2. ChanMine(t, "pass", b)
  <2>1. ChanTypes'
    BY <1>1 DEF Chan!attach, Chan!Goto, ChanInv, ChanTypes, Chan!coreVars
  <2>. QED
    BY <1>1, <2>1 DEF ChanMine, Chan!attach, Chan!Goto, ChanInv, ChanTypes
<1>3. t \notin ToSet(Chan!Line(t))
  BY <1>1, NotQueued DEF Chan!Goto
<1>4. UNCHANGED Chan!coreVars /\ cell'[t] = "Idle" /\ ~Chan!Asleep(t)'
  BY <1>1, <1>2 DEF Chan!attach, Chan!Goto, ChanInv, ChanCellsFit, Chan!Asleep, ChanMine
<1>. QED
  BY <1>2, <1>3, <1>4, OwnStep

\* A stuck task at the front cannot go on.
LEMMA StuckFront ==
  ASSUME NEW t \in Chan!Tasks, Chan!Stuck(t), Chan!take_turn(t)
  PROVE  ~Could(t)
BY DEF Chan!Stuck, Chan!CanTransfer, Could

\* A pass that waits: the ticket joins the line, stays in it, or the line is full.
LEMMA ChanEnqueueInv == ASSUME ChanInv, NEW t \in Chan!Tasks, Chan!enqueue(t) PROVE ChanInv'
<1>0. /\ Chan!direction(t) \in Chan!Directions /\ Chan!Line(t) \in LineOf(Chan!Tasks)
      /\ Contains(Chan!Line(t), t) <=> t \in ToSet(Chan!Line(t))
  BY DirectionFacts, InLine DEF ChanInv, ChanTypes, Chan!Line
<1>1. Chan!Stuck(t) /\ place[t] = "again" /\ cell[t] = "Idle"
  BY DEF Chan!enqueue, Chan!Goto, ChanInv, ChanCellsFit
<1>2. ASSUME NEW b \in {"queued", "out"}, Chan!Goto(t, "again", b), UNCHANGED waits,
             b = "queued" <=> t \in ToSet(Chan!Line(t))
      PROVE  ChanInv'
  <2>1. ChanMine(t, "again", b)
    <3>1. ChanTypes'
      BY <1>2 DEF Chan!enqueue, Chan!Goto, ChanInv, ChanTypes, Chan!cellVars
    <3>. QED
      BY <1>2, <3>1 DEF ChanMine, Chan!enqueue, Chan!Goto, ChanInv, ChanTypes, Chan!cellVars
  <2>2. UNCHANGED Chan!coreVars /\ cell'[t] = "Idle"
    BY <1>1, <1>2 DEF Chan!enqueue, Chan!coreVars, Chan!cellVars
  <2>3. Chan!Asleep(t)' => (t \in Chan!Fronts(waits) => ~Could(t))
    <3>1. Chan!Asleep(t)' => t \in ToSet(Chan!Line(t))
      BY <1>2, <2>1 DEF Chan!Asleep, ChanMine
    <3>. QED
      BY <3>1, <1>1, Turns, StuckFront
  <2>. QED
    BY <1>2, <2>1, <2>2, <2>3, OwnStep
<1>3. ASSUME t \notin ToSet(Chan!Line(t)), Len(Chan!Line(t)) < WaitCapacity, Chan!Goto(t, "again", "queued"),
             waits' = [waits EXCEPT ![Chan!direction(t)] = Append(@, t)]
      PROVE  ChanInv'
  <2>1. /\ waits'[Chan!direction(t)] = Append(Chan!Line(t), t)
        /\ \A d \in Chan!Directions : d # Chan!direction(t) => waits'[d] = waits[d]
        /\ place'[t] = "queued" /\ \A u \in Chan!Tasks : u # t => place'[u] = place[u]
        /\ UNCHANGED <<values, endpoints, closed, cell, token, made>>
    BY <1>0, <1>3 DEF Chan!enqueue, Chan!cellVars, Chan!Goto, Chan!Line, ChanInv, ChanTypes
  <2>2. /\ Append(Chan!Line(t), t) \in LineOf(Chan!Tasks) /\ Append(Chan!Line(t), t) # <<>>
        /\ ToSet(Append(Chan!Line(t), t)) = ToSet(Chan!Line(t)) \cup {t}
        /\ Len(Append(Chan!Line(t), t)) = Len(Chan!Line(t)) + 1
        /\ Chan!Line(t) # <<>> => Head(Append(Chan!Line(t), t)) = Head(Chan!Line(t))
        /\ Chan!Line(t) = <<>> => Head(Append(Chan!Line(t), t)) = t
    BY <1>0, <1>3, JoinLine
  <2>3. ChanTypes'
    <3>1. waits' \in [Chan!Directions -> LineOf(Chan!Tasks)]
      BY <1>0, <1>3, <2>2 DEF ChanInv, ChanTypes, Chan!Line
    <3>2. place' \in [Chan!Tasks -> {"out", "pass", "again", "queued", "parked", "drop"}]
      BY <1>3 DEF Chan!Goto, ChanInv, ChanTypes
    <3>. QED
      BY <2>1, <3>1, <3>2 DEF ChanInv, ChanTypes
  <2>4. ChanTicketed'
    <3>1. \A d \in Chan!Directions : Len(waits'[d]) <= WaitCapacity
      <4>1. Len(Chan!Line(t)) \in Nat
        BY <1>0, InLine
      <4>. QED
        BY <1>3, <2>1, <2>2, <4>1, ChannelAssumption DEF Chan!ChannelAssumption, ChanInv, ChanTicketed
    <3>2. \A d \in Chan!Directions : \A u \in ToSet(waits'[d]) :
            u \in Chan!Tasks /\ (u # t => u \in ToSet(waits[d])) /\ (u = t => d = Chan!direction(t))
      <4>1. \A d \in Chan!Directions : ToSet(waits[d]) \subseteq Chan!Tasks
        BY InLine DEF ChanInv, ChanTypes
      <4>2. \A d \in Chan!Directions : t \in ToSet(waits[d]) => FALSE
        BY <1>3 DEF ChanInv, ChanTicketed, Chan!Line
      <4>3. ASSUME NEW d \in Chan!Directions, d # Chan!direction(t)
            PROVE  ToSet(waits'[d]) = ToSet(waits[d])
        BY <2>1, <4>3
      <4>4. ToSet(waits'[Chan!direction(t)]) = ToSet(waits[Chan!direction(t)]) \cup {t}
        BY <2>1, <2>2 DEF Chan!Line
      <4>. QED
        BY <1>0, <4>1, <4>2, <4>3, <4>4
    <3>3. \A d \in Chan!Directions : \A u \in ToSet(waits'[d]) :
            Chan!direction(u) = d /\ place'[u] \in {"again", "queued", "parked", "drop"}
      BY <2>1, <3>2 DEF ChanInv, ChanTicketed
    <3>4. \A u \in Chan!Tasks : u \in ToSet(Chan!Line(u)) => u \in ToSet(waits'[Chan!direction(u)])
      BY <1>0, <2>1, <2>2, DirectionFacts DEF Chan!Line
    <3>5. t \in ToSet(waits'[Chan!direction(t)])
      BY <2>1, <2>2
    <3>6. \A u \in Chan!Tasks : place'[u] \in {"queued", "parked", "drop"} => u \in ToSet(waits'[Chan!direction(u)])
      BY <2>1, <3>4, <3>5 DEF ChanInv, ChanTicketed
    <3>. QED
      BY <3>1, <3>3, <3>6 DEF ChanTicketed, Chan!Line
  <2>5. ChanCellsFit'
    BY <1>1, <2>1 DEF ChanCellsFit, ChanInv
  <2>6. FrontCalled'
    <3>1. \A u : Could(u)' = Could(u)
      BY <2>1 DEF Could, Chan!transferable, Chan!disconnected, Chan!senders, Chan!receivers
    <3>2. \A u \in Chan!Fronts(waits') : u # t => u \in Chan!Fronts(waits) /\ u \in Chan!Tasks
      <4>1. \A d \in Chan!Directions : waits'[d] # <<>> /\ Head(waits'[d]) # t
                                   => waits[d] # <<>> /\ Head(waits[d]) = Head(waits'[d])
        BY <1>0, <2>1, <2>2 DEF Chan!Line
      <4>. QED
        BY <4>1, FrontFacts, FrontsInLine DEF ChanInv
    <3>3. t \in Chan!Fronts(waits') => Chan!Line(t) = <<>>
      <4>1. \A d \in Chan!Directions : waits'[d] # <<>> /\ Head(waits'[d]) = t => d = Chan!direction(t)
        <5>1. \A d \in Chan!Directions : waits'[d] # <<>> => Head(waits'[d]) \in ToSet(waits'[d])
          <6>1. \A d \in Chan!Directions : waits'[d] \in LineOf(Chan!Tasks)
            BY <2>3 DEF ChanTypes
          <6>. QED
            BY <6>1, ServeLine
        <5>. QED
          BY <2>4, <5>1 DEF ChanTicketed
      <4>2. Chan!Line(t) # <<>> => Head(Chan!Line(t)) # t
        BY <1>0, <1>3, ServeLine
      <4>. QED
        BY <2>1, <2>2, <4>1, <4>2, FrontFacts
    <3>4. Chan!Line(t) = <<>> => ~Could(t)
      BY <1>1, StuckFront DEF Chan!take_turn
    <3>5. \A u \in Chan!Tasks : u # t /\ Chan!Asleep(u)' => Chan!Asleep(u)
      BY <2>1 DEF Chan!Asleep
    <3>. QED
      BY <3>1, <3>2, <3>3, <3>4, <3>5 DEF FrontCalled, ChanInv
  <2>. QED
    BY <2>3, <2>4, <2>5, <2>6 DEF ChanInv
<1>. QED
  BY <1>0, <1>2, <1>3, ChanLines DEF Chan!enqueue

\* Parking, or going on at once with a permit or past the deadline.
LEMMA ChanParkInv == ASSUME ChanInv, NEW t \in Chan!Tasks, Chan!begin_resident(t) PROVE ChanInv'
<1>1. PICK b \in {"again", "drop", "parked"} :
        /\ Chan!Goto(t, "queued", b)
        /\ b = "parked" => ~token[t] /\ cell' = [cell EXCEPT ![t] = "Active"]
        /\ b # "parked" => UNCHANGED cell
  BY DEF Chan!begin_resident, Chan!Resume
<1>2. ChanMine(t, "queued", b)
  <2>1. ChanTypes'
    <3>1. /\ place' \in [Chan!Tasks -> {"out", "pass", "again", "queued", "parked", "drop"}]
          /\ cell' \in [Chan!Tasks -> {"Idle", "Active", "Ready", "Other"}]
          /\ token' \in [Chan!Tasks -> BOOLEAN]
      BY <1>1 DEF Chan!begin_resident, Chan!Goto, ChanInv, ChanTypes
    <3>. QED
      BY <3>1 DEF Chan!begin_resident, ChanInv, ChanTypes, Chan!coreVars
  <2>2. \A u \in Chan!Tasks : u # t => place'[u] = place[u] /\ cell'[u] = cell[u] /\ token'[u] = token[u]
    BY <1>1 DEF Chan!begin_resident, Chan!Goto, ChanInv, ChanTypes
  <2>. QED
    BY <1>1, <2>1, <2>2 DEF ChanMine, Chan!Goto, ChanInv, ChanTypes
<1>3. t \in ToSet(Chan!Line(t)) /\ place[t] = "queued" /\ cell[t] = "Idle" /\ UNCHANGED Chan!coreVars
  BY <1>1 DEF Chan!begin_resident, Chan!Goto, ChanInv, ChanTicketed, ChanCellsFit
<1>4. cell'[t] = "Idle" <=> b # "parked"
  BY <1>1, <1>3 DEF ChanInv, ChanTypes
<1>5. Chan!Asleep(t)' => Chan!Asleep(t)
  BY <1>1, <1>2, <1>3 DEF Chan!Asleep, ChanMine
<1>. QED
  BY <1>2, <1>3, <1>4, <1>5, OwnStep

\* The end of a wait.
LEMMA ChanWokenInv == ASSUME ChanInv, NEW t \in Chan!Tasks, Chan!finish(t) \/ Chan!rollback(t) PROVE ChanInv'
<1>1. PICK b \in {"again", "drop"} : Chan!Goto(t, "parked", b)
  BY DEF Chan!finish, Chan!rollback, Chan!Resume
<1>2. /\ cell' = [cell EXCEPT ![t] = "Idle"] /\ UNCHANGED <<Chan!coreVars, token, made>>
  BY DEF Chan!finish, Chan!rollback
<1>3. ChanMine(t, "parked", b)
  <2>1. ChanTypes'
    BY <1>1, <1>2 DEF Chan!Goto, ChanInv, ChanTypes, Chan!coreVars
  <2>. QED
    BY <1>1, <1>2, <2>1 DEF ChanMine, Chan!Goto, ChanInv, ChanTypes
<1>4. t \in ToSet(Chan!Line(t)) /\ cell'[t] = "Idle" /\ ~Chan!Asleep(t)'
  BY <1>1, <1>2, <1>3 DEF Chan!Goto, ChanInv, ChanTicketed, ChanTypes, Chan!Asleep, ChanMine
<1>. QED
  BY <1>2, <1>3, <1>4, OwnStep

\* A cancellation or a deadline that wins the generation.
LEMMA ChanCancelledInv == ASSUME ChanInv, NEW t \in Chan!Tasks, Chan!select_cancelled(t) PROVE ChanInv'
<1>1. place[t] = "parked"
  BY DEF Chan!select_cancelled, ChanInv, ChanCellsFit, ChanTypes
<1>2. ChanMine(t, "parked", "parked")
  <2>1. ChanTypes'
    BY DEF Chan!select_cancelled, ChanInv, ChanTypes, Chan!coreVars
  <2>. QED
    BY <1>1, <2>1 DEF ChanMine, Chan!select_cancelled, ChanInv, ChanTypes
<1>3. /\ t \in ToSet(Chan!Line(t)) /\ cell'[t] = "Other" /\ UNCHANGED Chan!coreVars /\ ~Chan!Asleep(t)'
  BY <1>1, <1>2 DEF Chan!select_cancelled, ChanInv, ChanTicketed, ChanTypes, Chan!Asleep, ChanMine
<1>. QED
  BY <1>2, <1>3, OwnStep

\* The ticket's leaving of a line: those who stay keep their places and theirs.
LEMMA LeavesLine ==
  ASSUME ChanInv, NEW t \in Chan!Tasks, NEW rest \in LineOf(Chan!Tasks),
         ToSet(rest) = ToSet(Chan!Line(t)) \ {t}, Len(rest) <= Len(Chan!Line(t)),
         waits' = [waits EXCEPT ![Chan!direction(t)] = rest],
         place' \in [Chan!Tasks -> {"out", "pass", "again", "queued", "parked", "drop"}],
         place'[t] = "out", \A u \in Chan!Tasks : u # t => place'[u] = place[u]
  PROVE  waits' \in [Chan!Directions -> LineOf(Chan!Tasks)] /\ ChanTicketed'
<1>0. Chan!direction(t) \in Chan!Directions /\ Chan!Line(t) \in LineOf(Chan!Tasks)
  BY DirectionFacts DEF ChanInv, ChanTypes, Chan!Line
<1>1. /\ waits'[Chan!direction(t)] = rest
      /\ \A d \in Chan!Directions : d # Chan!direction(t) => waits'[d] = waits[d]
  BY <1>0 DEF ChanInv, ChanTypes
<1>2. waits' \in [Chan!Directions -> LineOf(Chan!Tasks)]
  BY DEF ChanInv, ChanTypes
<1>3. \A d \in Chan!Directions : Len(waits'[d]) <= WaitCapacity
  <2>1. Len(rest) \in Nat /\ Len(Chan!Line(t)) \in Nat
    BY <1>0, InLine
  <2>. QED
    BY <1>0, <1>1, <2>1, ChannelAssumption DEF Chan!ChannelAssumption, ChanInv, ChanTicketed, Chan!Line
<1>4. \A d \in Chan!Directions : \A u \in ToSet(waits'[d]) : u \in Chan!Tasks /\ u # t /\ u \in ToSet(waits[d])
  <2>1. \A d \in Chan!Directions : ToSet(waits[d]) \subseteq Chan!Tasks
    BY InLine DEF ChanInv, ChanTypes
  <2>2. \A d \in Chan!Directions : t \in ToSet(waits[d]) => d = Chan!direction(t)
    BY DEF ChanInv, ChanTicketed
  <2>. QED
    BY <1>0, <1>1, <2>1, <2>2 DEF Chan!Line
<1>5. \A d \in Chan!Directions : \A u \in ToSet(waits'[d]) :
        Chan!direction(u) = d /\ place'[u] \in {"again", "queued", "parked", "drop"}
  BY <1>4 DEF ChanInv, ChanTicketed
<1>6. \A u \in Chan!Tasks : place'[u] \in {"queued", "parked", "drop"} => u \in ToSet(waits'[Chan!direction(u)])
  <2>1. \A u \in Chan!Tasks : u # t /\ u \in ToSet(Chan!Line(u)) => u \in ToSet(waits'[Chan!direction(u)])
    BY <1>0, <1>1, DirectionFacts DEF Chan!Line
  <2>. QED
    BY <2>1 DEF ChanInv, ChanTicketed
<1>. QED
  BY <1>2, <1>3, <1>5, <1>6 DEF ChanTicketed, Chan!Line

\* A transfer: room and values change, and every front is woken.
LEMMA ChanTransferInv == ASSUME ChanInv, NEW t \in Chan!Tasks, Chan!transfer(t) PROVE ChanInv'
<1>. DEFINE rest == IF Chan!Line(t) = <<>> THEN Chan!Line(t) ELSE Tail(Chan!Line(t))
<1>0. Chan!direction(t) \in Chan!Directions /\ Chan!Line(t) \in LineOf(Chan!Tasks)
  BY DirectionFacts DEF ChanInv, ChanTypes, Chan!Line
<1>1. PICK a \in {"pass", "again"} : Chan!Goto(t, a, "out")
  BY DEF Chan!transfer
<1>2. /\ place' \in [Chan!Tasks -> {"out", "pass", "again", "queued", "parked", "drop"}]
      /\ place[t] = a /\ place'[t] = "out" /\ \A u \in Chan!Tasks : u # t => place'[u] = place[u]
  BY <1>1 DEF Chan!Goto, ChanInv, ChanTypes
<1>3. /\ rest \in LineOf(Chan!Tasks) /\ ToSet(rest) = ToSet(Chan!Line(t)) \ {t} /\ Len(rest) <= Len(Chan!Line(t))
  <2>0. Len(Chan!Line(t)) \in Nat
    BY <1>0, InLine
  <2>1. CASE Chan!Line(t) = <<>>
    BY <1>0, <2>0, <2>1, InLine
  <2>2. CASE Chan!Line(t) # <<>>
    <3>1. Head(Chan!Line(t)) = t
      BY <2>2 DEF Chan!transfer, Chan!CanTransfer, Chan!take_turn
    <3>2. /\ Tail(Chan!Line(t)) \in LineOf(Chan!Tasks) /\ ToSet(Tail(Chan!Line(t))) = ToSet(Chan!Line(t)) \ {Head(Chan!Line(t))}
          /\ Len(Tail(Chan!Line(t))) = Len(Chan!Line(t)) - 1
      BY <1>0, <2>2, ServeLine
    <3>. QED
      BY <2>0, <2>2, <3>1, <3>2
  <2>. QED
    BY <2>1, <2>2
<1>4. waits' = [waits EXCEPT ![Chan!direction(t)] = rest]
  BY <1>0 DEF Chan!transfer, Chan!Line, ChanInv, ChanTypes
<1>. HIDE DEF rest
<1>5. waits' \in [Chan!Directions -> LineOf(Chan!Tasks)] /\ ChanTicketed'
  BY <1>2, <1>3, <1>4, LeavesLine
<1>6. Chan!notify(Chan!Fronts(waits')) /\ UNCHANGED <<endpoints, closed, made>>
  BY DEF Chan!transfer, Chan!wake_fronts
<1>7. \A u \in Chan!Tasks : place'[u] = "parked" <=> place[u] = "parked"
  BY <1>2
<1>8. ChanTypes'
  <2>1. values' \in Seq(SendTasks) /\ Len(values') <= BufferCapacity
    <3>0. values \in Seq(SendTasks) /\ Len(values) <= BufferCapacity /\ Len(values) \in Nat
      BY LenProperties DEF ChanInv, ChanTypes
    <3>1. CASE t \in SendTasks
      <4>1. values' = Append(values, t) /\ Len(values) < BufferCapacity
        BY <3>1 DEF Chan!transfer, Chan!CanTransfer, Chan!transferable
      <4>. QED
        BY <3>0, <3>1, <4>1, AppendProperties, ChannelAssumption DEF Chan!ChannelAssumption
    <3>2. CASE t \notin SendTasks
      <4>1. values' = Tail(values) /\ values # <<>>
        BY <3>2 DEF Chan!transfer, Chan!CanTransfer, Chan!transferable
      <4>. QED
        BY <3>0, <4>1, HeadTailProperties, ChannelAssumption DEF Chan!ChannelAssumption
    <3>. QED
      BY <3>1, <3>2
  <2>2. /\ cell' \in [Chan!Tasks -> {"Idle", "Active", "Ready", "Other"}]
        /\ token' \in [Chan!Tasks -> BOOLEAN]
    BY <1>2, <1>6, <1>7, NotifyFacts DEF ChanInv
  <2>. QED
    BY <1>2, <1>5, <1>6, <2>1, <2>2 DEF ChanTypes, ChanInv
<1>. QED
  BY <1>5, <1>6, <1>7, <1>8, WakingStep

\* The drop of a ticket, which passes its wake-up on.
LEMMA ChanDropTicketInv == ASSUME ChanInv, NEW t \in Chan!Tasks, Chan!drop_ticket(t) PROVE ChanInv'
<1>. DEFINE rest == RemoveFirst(Chan!Line(t), t)
<1>0. Chan!direction(t) \in Chan!Directions /\ Chan!Line(t) \in LineOf(Chan!Tasks)
  BY DirectionFacts DEF ChanInv, ChanTypes, Chan!Line
<1>1. /\ place' \in [Chan!Tasks -> {"out", "pass", "again", "queued", "parked", "drop"}]
      /\ place[t] = "drop" /\ place'[t] = "out" /\ \A u \in Chan!Tasks : u # t => place'[u] = place[u]
  BY DEF Chan!drop_ticket, Chan!Goto, ChanInv, ChanTypes
<1>2. /\ rest \in LineOf(Chan!Tasks) /\ ToSet(rest) = ToSet(Chan!Line(t)) \ {t} /\ Len(rest) <= Len(Chan!Line(t))
  <2>1. t \in ToSet(Chan!Line(t)) /\ Len(Chan!Line(t)) \in Nat
    BY <1>0, <1>1, InLine DEF ChanInv, ChanTicketed
  <2>2. /\ rest \in LineOf(Chan!Tasks) /\ ToSet(rest) = ToSet(Chan!Line(t)) \ {t} /\ Len(rest) = Len(Chan!Line(t)) - 1
    BY <1>0, <2>1, LeaveLine
  <2>. HIDE DEF rest
  <2>. QED
    BY <2>1, <2>2
<1>3. waits' = [waits EXCEPT ![Chan!direction(t)] = rest]
  BY <1>0, ChanLines DEF Chan!drop_ticket, Chan!Line, ChanInv, ChanTypes
<1>. HIDE DEF rest
<1>4. waits' \in [Chan!Directions -> LineOf(Chan!Tasks)] /\ ChanTicketed'
  BY <1>1, <1>2, <1>3, LeavesLine
<1>5. Chan!notify(Chan!Fronts(waits')) /\ UNCHANGED <<values, endpoints, closed, made>>
  BY DEF Chan!drop_ticket, Chan!drop_wakes
<1>6. \A u \in Chan!Tasks : place'[u] = "parked" <=> place[u] = "parked"
  BY <1>1
<1>7. ChanTypes'
  <2>1. /\ cell' \in [Chan!Tasks -> {"Idle", "Active", "Ready", "Other"}]
        /\ token' \in [Chan!Tasks -> BOOLEAN]
    BY <1>1, <1>5, <1>6, NotifyFacts DEF ChanInv
  <2>. QED
    BY <1>1, <1>4, <1>5, <2>1 DEF ChanTypes, ChanInv
<1>. QED
  BY <1>4, <1>5, <1>6, <1>7, WakingStep

\* A new endpoint beside an old one connects nobody anew.
LEMMA ChanCloneInv == ASSUME ChanInv, NEW t \in Chan!Tasks, NEW u \in Chan!Tasks, Chan!clone(t, u) PROVE ChanInv'
<1>1. UNCHANGED <<values, closed, waits, place, cell, token, made>> /\ endpoints' \subseteq Chan!Tasks
  BY DEF Chan!clone, Chan!cellVars, ChanInv, ChanTypes
<1>2. ChanTypes' /\ ChanTicketed' /\ ChanCellsFit'
  BY <1>1 DEF ChanInv, ChanTypes, ChanTicketed, ChanCellsFit, Chan!Line
<1>3. \A v : Chan!disconnected(v)' => Chan!disconnected(v)
  BY <1>1 DEF Chan!clone, Chan!disconnected, Chan!senders, Chan!receivers
<1>4. \A v : Could(v)' => Could(v)
  BY <1>1, <1>3 DEF Could, Chan!transferable
<1>5. FrontCalled'
  BY <1>1, <1>4 DEF ChanInv, FrontCalled, Chan!Asleep
<1>. QED
  BY <1>2, <1>5 DEF ChanInv

\* Everybody in a line is woken by wake_all.
LEMMA AllWoken ==
  ASSUME ChanTypes
  PROVE  \A t \in Chan!Fronts(waits) : t \in Chan!wake_all
<1>1. \A d \in Chan!Directions : d = "send" \/ d = "recv"
  BY DEF Chan!Directions
<1>. QED
  BY <1>1, FrontFacts, FrontsInLine, ChanLines DEF Chan!wake_all

\* Closing wakes everybody.
LEMMA ChanCloseInv == ASSUME ChanInv, Chan!close PROVE ChanInv'
<1>1. Chan!notify(Chan!wake_all) /\ closed' = TRUE /\ UNCHANGED <<values, endpoints, waits, place, made>>
  BY DEF Chan!close
<1>2. ChanTypes'
  <2>1. /\ cell' \in [Chan!Tasks -> {"Idle", "Active", "Ready", "Other"}]
        /\ token' \in [Chan!Tasks -> BOOLEAN]
    <3>1. place' \in [Chan!Tasks -> {"out", "pass", "again", "queued", "parked", "drop"}]
      BY <1>1 DEF ChanInv, ChanTypes
    <3>. QED
      BY <1>1, <3>1, NotifyFacts DEF ChanInv
  <2>. QED
    BY <1>1, <2>1 DEF ChanInv, ChanTypes
<1>3. ChanTicketed'
  BY <1>1 DEF ChanInv, ChanTicketed, Chan!Line
<1>4. \A t \in Chan!Fronts(waits') : t \in Chan!wake_all
  BY <1>1, AllWoken DEF ChanInv
<1>. QED
  BY <1>1, <1>2, <1>3, <1>4, WakingStep

\* The last endpoint of a side wakes everybody; another one changes nothing
\* for anybody.
LEMMA ChanDropEndpointInv == ASSUME ChanInv, NEW t \in Chan!Tasks, Chan!drop_endpoint(t) PROVE ChanInv'
<1>. DEFINE last == \A u \in endpoints' : Chan!direction(u) # Chan!direction(t)
            woken == IF last THEN Chan!wake_all ELSE {}
<1>1. /\ Chan!notify(woken) /\ UNCHANGED <<closed, waits, place, made>> /\ endpoints' = endpoints \ {t}
      /\ values' = IF last /\ t \in RecvTasks THEN <<>> ELSE values
  BY DEF Chan!drop_endpoint
<1>2. ChanTypes'
  <2>1. /\ cell' \in [Chan!Tasks -> {"Idle", "Active", "Ready", "Other"}]
        /\ token' \in [Chan!Tasks -> BOOLEAN]
    <3>1. place' \in [Chan!Tasks -> {"out", "pass", "again", "queued", "parked", "drop"}]
      BY <1>1 DEF ChanInv, ChanTypes
    <3>. HIDE DEF woken
    <3>. QED
      BY <1>1, <3>1, NotifyFacts DEF ChanInv
  <2>2. values' \in Seq(SendTasks) /\ Len(values') <= BufferCapacity
    BY <1>1, EmptySeq, ChannelAssumption DEF Chan!ChannelAssumption, ChanInv, ChanTypes
  <2>. QED
    BY <1>1, <2>1, <2>2 DEF ChanInv, ChanTypes
<1>3. ChanTicketed'
  BY <1>1 DEF ChanInv, ChanTicketed, Chan!Line
<1>4. ASSUME ~last, NEW v \in Chan!Tasks
      PROVE  Could(v)' => Could(v)
  <2>1. PICK u \in endpoints' : Chan!direction(u) = Chan!direction(t)
    BY <1>4
  <2>2. u \in endpoints /\ u # t /\ u \in Chan!Tasks /\ (u \in SendTasks <=> t \in SendTasks)
    BY <1>1, <2>1, DirectionFacts DEF ChanInv, ChanTypes, Chan!direction
  <2>3. (Chan!senders' = {} <=> Chan!senders = {}) /\ (Chan!receivers' = {} <=> Chan!receivers = {})
    BY <1>1, <2>1, <2>2, ChannelAssumption DEF Chan!ChannelAssumption, Chan!senders, Chan!receivers, Chan!Tasks
  <2>4. values' = values /\ closed' = closed
    BY <1>1, <1>4
  <2>. QED
    BY <2>3, <2>4 DEF Could, Chan!transferable, Chan!disconnected
<1>5. \A v \in Chan!Fronts(waits') : v \in woken \/ (v \in Chan!Fronts(waits) /\ place'[v] = place[v] /\ (Could(v)' => Could(v)))
  <2>1. waits' = waits /\ place' = place
    BY <1>1
  <2>2. \A v \in Chan!Fronts(waits) : v \in Chan!wake_all /\ v \in Chan!Tasks
    BY AllWoken, FrontFacts, FrontsInLine DEF ChanInv
  <2>. QED
    BY <1>4, <2>1, <2>2
<1>6. \A v \in Chan!Tasks : place'[v] = "parked" <=> place[v] = "parked"
  BY <1>1
<1>. HIDE DEF woken
<1>. QED
  BY <1>1, <1>2, <1>3, <1>5, <1>6, WakingStep

-----------------------------------------------------------------------------
(* The theorems. *)

\* Every reachable state satisfies the inductive invariant.
THEOREM ChannelInvariance == Chan!Spec => []ChanInv
<1>1. ChanInv /\ [Chan!Next]_Chan!vars => ChanInv'
  <2>. SUFFICES ASSUME ChanInv, [Chan!Next]_Chan!vars PROVE ChanInv'
    OBVIOUS
  <2>1. CASE UNCHANGED Chan!vars
    <3>1. UNCHANGED <<values, endpoints, closed, waits, place, cell, token, made>>
      BY <2>1 DEF Chan!vars, Chan!coreVars, Chan!cellVars
    <3>2. ChanTypes' /\ ChanTicketed' /\ ChanCellsFit'
      BY <3>1 DEF ChanInv, ChanTypes, ChanTicketed, ChanCellsFit, Chan!Line
    <3>3. FrontCalled'
      BY <3>1 DEF ChanInv, FrontCalled, Could, Chan!transferable, Chan!disconnected, Chan!senders, Chan!receivers, Chan!Asleep
    <3>. QED
      BY <3>2, <3>3 DEF ChanInv
  <2>2. CASE Chan!close
    BY <2>2, ChanCloseInv
  <2>3. ASSUME NEW t \in Chan!Tasks, Chan!Proceed(t)
        PROVE  ChanInv'
    BY <2>3, ChanTransferInv, ChanRefuseInv, ChanAttachInv, ChanEnqueueInv, ChanParkInv, ChanWokenInv, ChanDropTicketInv DEF Chan!Proceed
  <2>4. ASSUME NEW t \in Chan!Tasks,
               Chan!call(t) \/ Chan!select_cancelled(t) \/ Chan!rollback(t) \/ Chan!drop_endpoint(t) \/ \E u \in Chan!Tasks : Chan!clone(t, u)
        PROVE  ChanInv'
    BY <2>4, ChanCallInv, ChanCancelledInv, ChanWokenInv, ChanDropEndpointInv, ChanCloneInv
  <2>. QED
    BY <2>1, <2>2, <2>3, <2>4 DEF Chan!Next
<1>. QED
  BY ChanInitInv, <1>1, PTL DEF Chan!Spec

\* The type invariant of the model.
THEOREM ChannelTypes == Chan!Spec => []Chan!TypeOK
<1>1. ChanInv => Chan!TypeOK
  <2>1. LineOf(Chan!Tasks) \subseteq Seq(Chan!Tasks)
    BY DEF LineOf
  <2>. QED
    BY <2>1 DEF ChanInv, ChanTypes, Chan!TypeOK
<1>. QED
  BY ChannelInvariance, <1>1, PTL

\* Whoever transferred, was cancelled, was refused or dropped an endpoint
\* before: the front of a line that could go on is awake, and every ticket in a
\* line belongs to a task inside its call (wake_fronts, Drop of Ticket).
THEOREM FrontStaysAwake == Chan!Spec => []FrontAwake
<1>1. ChanInv => FrontAwake
  <2>. SUFFICES ASSUME ChanInv, NEW d \in Chan!Directions, waits[d] # <<>>
                PROVE  /\ Could(Head(waits[d])) => ~Chan!Asleep(Head(waits[d]))
                       /\ \A u \in ToSet(waits[d]) : place[u] # "out"
                       /\ Len(waits[d]) <= WaitCapacity
    BY ChanLines DEF FrontAwake, Chan!FrontAwake, Could
  <2>1. Head(waits[d]) \in Chan!Fronts(waits)
    BY FrontFacts
  <2>. QED
    BY <2>1 DEF ChanInv, FrontCalled, ChanTicketed
<1>. QED
  BY ChannelInvariance, <1>1, PTL
=============================================================================
