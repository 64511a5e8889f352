----------------------------- MODULE GateProofs -----------------------------
(***************************************************************************)
(* The gate keeps its permits and serves its line in order, for every set  *)
(* of tasks, every number of permits and every capacity: as a semaphore or *)
(* a notify alone, and below a condition variable.                         *)
(***************************************************************************)
EXTENDS Condvar, LineLemmas, FiniteSetTheorems

-----------------------------------------------------------------------------
(* The inductive invariant, in parts. *)

Phases == {"Idle", "Active", "Ready", "Other", "Closed"}
Selections == {"none", "Permit", "Broadcast"}

Types ==
  /\ kind \in Kinds
  /\ available \in Nat /\ available <= Maximum[kind]
  /\ closed \in BOOLEAN /\ closing \in BOOLEAN
  /\ outstanding \in Nat
  /\ entries \in LineOf(Tasks)
  /\ pc \in [Tasks \cup Outsiders -> Places]
  /\ phase \in [Tasks -> Phases]
  /\ permit \in [Tasks -> BOOLEAN]
  /\ resource \in [Tasks -> Selections]
  /\ shut \in [Tasks -> BOOLEAN]
  /\ calls \in [Tasks -> Nat] /\ \A t \in Tasks : calls[t] <= MaxCalls[t]
  /\ signals \in Nat /\ signals <= MaxSignals

\* A ticket is outstanding from its reservation to its retirement.
TicketPlaces == {"reserved", "ticket", "parked", "back", "consume", "drop", "dropped", "granted"}
Ticketed == {t \in Tasks : pc[t] \in TicketPlaces}
Counted == /\ IsFiniteSet(Ticketed) /\ outstanding = Cardinality(Ticketed)
           /\ outstanding <= Capacity

\* Who stands in line has been given nothing, and was not closed out.
QueuedAt(t) ==
  /\ pc[t] \in {"ticket", "parked", "drop"} /\ phase[t] \in {"Idle", "Active", "Other"}
  /\ ~permit[t] /\ resource[t] = "none" /\ ~shut[t]
QueuedFresh == \A t \in ToSet(entries) : QueuedAt(t)

\* A selection lives in the cell between its offer and its consumption.
SelectedPlaces == {"ticket", "parked", "back", "consume", "drop"}
CellAt(t) ==
  /\ phase[t] # "Idle" <=> pc[t] = "parked"
  /\ resource[t] # "none" => pc[t] \in SelectedPlaces
  /\ pc[t] = "reserved" => ~permit[t] /\ ~shut[t]
  /\ kind = "semaphore" => resource[t] # "Broadcast"
  /\ shut[t] => closed
CellsFit == \A t \in Tasks : CellAt(t)

\* A caller from outside only signals, and never a semaphore.
OutsideAt(o) == pc[o] \in {"out", "signal"} /\ (kind = "semaphore" => pc[o] = "out")
OutsidersFit == \A o \in Outsiders : OutsideAt(o)

\* The permits of an open semaphore, and the line of an open gate.
Conserved ==
  ~closed =>
    /\ kind = "semaphore" => /\ IsFiniteSet(Bearers)
                             /\ available + Cardinality(Bearers) = Permits
    /\ entries # <<>> => available = 0

Inv ==
  /\ Types /\ Counted /\ QueuedFresh /\ CellsFit /\ OutsidersFit
  /\ (closing => closed) /\ Conserved

-----------------------------------------------------------------------------
(* Lemmas about the operators. *)

\* What each primitive may store.
LEMMA MaximumFacts ==
  /\ \A k \in Kinds : Maximum[k] \in Nat /\ Initially[k] \in Nat /\ Initially[k] <= Maximum[k]
  /\ Maximum["semaphore"] = Permits /\ Initially["semaphore"] = Permits
<1>1. Maximum["semaphore"] = Permits /\ Maximum["notify"] = 1 /\ Maximum["condvar"] = 0
  BY DEF Maximum
<1>2. Initially["semaphore"] = Permits /\ Initially["notify"] = 0 /\ Initially["condvar"] = 0
  BY DEF Initially
<1>3. Permits \in Nat
  BY GateAssumption
<1>. QED
  BY <1>1, <1>2, <1>3 DEF Kinds

\* One caller moves, nobody else does.
LEMMA GotoFacts ==
  ASSUME Types, NEW a \in Tasks \cup Outsiders, NEW x, NEW y \in Places, Goto(a, x, y)
  PROVE  /\ pc' \in [Tasks \cup Outsiders -> Places]
         /\ pc[a] = x /\ pc'[a] = y
         /\ \A u \in Tasks \cup Outsiders : u # a => pc'[u] = pc[u]
BY DEF Types, Goto

\* Tasks are not outsiders.
LEMMA TasksInside == \A t \in Tasks : t \in Tasks \cup Outsiders /\ t \notin Outsiders
BY GateAssumption

\* Where a served task goes is a place.
LEMMA ServedFacts ==
  /\ Served \in Places /\ Served \in {"holding", "out"}
  /\ kind = "semaphore" => Served = "holding"
BY DEF Served, Places

\* The names of the places that are not compared by value below.
LEMMA PlaceFacts ==
  /\ TicketPlaces \subseteq Places /\ SelectedPlaces \subseteq TicketPlaces
  /\ {"out", "try", "grab", "empty", "enter", "holding", "signal"} \subseteq Places \ TicketPlaces
BY DEF Places, TicketPlaces, SelectedPlaces

-----------------------------------------------------------------------------
(* Frames: the step of one task. *)

\* Task t moves from place a to place b and touches no cell but its own.
Mine(t, a, b) ==
  /\ pc[t] = a /\ pc'[t] = b /\ kind' = kind
  /\ \A u \in Tasks \cup Outsiders : u # t => pc'[u] = pc[u]
  /\ \A u \in Tasks : u # t =>
       /\ phase'[u] = phase[u] /\ permit'[u] = permit[u]
       /\ resource'[u] = resource[u] /\ shut'[u] = shut[u]
  /\ Types'

Bearer(t) == resource[t] = "Permit" \/ pc[t] \in {"holding", "granted", "signal"}

\* The tickets are counted: the step keeps one, takes one or gives one back.
LEMMA TicketCount ==
  ASSUME Inv, NEW t \in Tasks, NEW a, NEW b, pc[t] = a, pc'[t] = b, outstanding' \in Nat,
         \A u \in Tasks : u # t => pc'[u] = pc[u],
         \/ (a \in TicketPlaces <=> b \in TicketPlaces) /\ outstanding' = outstanding
         \/ /\ a \notin TicketPlaces /\ b \in TicketPlaces
            /\ outstanding < Capacity /\ outstanding' = outstanding + 1
         \/ a \in TicketPlaces /\ b \notin TicketPlaces /\ outstanding' = outstanding - 1
  PROVE  Counted'
<1>1. /\ IsFiniteSet(Ticketed) /\ outstanding = Cardinality(Ticketed) /\ outstanding <= Capacity
      /\ outstanding \in Nat /\ Capacity \in Nat
  BY GateAssumption DEF Inv, Counted, Types
<1>2. CASE (a \in TicketPlaces <=> b \in TicketPlaces) /\ outstanding' = outstanding
  <2>1. Ticketed' = Ticketed
    BY <1>2 DEF Ticketed
  <2>. QED
    BY <1>1, <1>2, <2>1 DEF Counted
<1>3. CASE a \notin TicketPlaces /\ b \in TicketPlaces /\ outstanding < Capacity /\ outstanding' = outstanding + 1
  <2>1. Ticketed' = Ticketed \cup {t} /\ t \notin Ticketed
    BY <1>3 DEF Ticketed
  <2>2. IsFiniteSet(Ticketed') /\ Cardinality(Ticketed') = Cardinality(Ticketed) + 1
    BY <1>1, <2>1, FS_AddElement
  <2>. QED
    BY <1>1, <1>3, <2>2 DEF Counted
<1>4. CASE a \in TicketPlaces /\ b \notin TicketPlaces /\ outstanding' = outstanding - 1
  <2>1. Ticketed' = Ticketed \ {t} /\ t \in Ticketed
    BY <1>4 DEF Ticketed
  <2>2. IsFiniteSet(Ticketed') /\ Cardinality(Ticketed') = Cardinality(Ticketed) - 1
    BY <1>1, <2>1, FS_RemoveElement
  <2>. QED
    BY <1>1, <1>4, <2>2 DEF Counted
<1>. QED
  BY <1>2, <1>3, <1>4

\* A ticket given back was counted.
LEMMA TicketHeld ==
  ASSUME Inv, NEW t \in Tasks, pc[t] \in TicketPlaces
  PROVE  outstanding \in Nat \ {0} /\ outstanding - 1 \in Nat
<1>1. t \in Ticketed /\ IsFiniteSet(Ticketed) /\ outstanding = Cardinality(Ticketed) /\ outstanding \in Nat
  BY DEF Inv, Counted, Types, Ticketed
<1>2. Cardinality(Ticketed) # 0
  BY <1>1, FS_EmptySet
<1>. QED
  BY <1>1, <1>2

\* The cells: only that of t is looked at again.
LEMMA OwnCells ==
  ASSUME Inv, NEW t \in Tasks, NEW a, NEW b, Mine(t, a, b), closed => closed', CellAt(t)'
  PROVE  CellsFit'
<1>. SUFFICES ASSUME NEW u \in Tasks, u # t PROVE CellAt(u)'
  BY DEF CellsFit
<1>1. CellAt(u)
  BY DEF Inv, CellsFit
<1>2. /\ pc'[u] = pc[u] /\ phase'[u] = phase[u] /\ permit'[u] = permit[u]
      /\ resource'[u] = resource[u] /\ shut'[u] = shut[u] /\ kind' = kind
  BY DEF Mine
<1>. QED
  BY <1>1, <1>2 DEF CellAt

\* The line: only the place of t in it is looked at again.
LEMMA OwnQueue ==
  ASSUME Inv, NEW t \in Tasks, NEW a, NEW b, Mine(t, a, b),
         ToSet(entries') \subseteq ToSet(entries) \cup {t}, t \in ToSet(entries') => QueuedAt(t)'
  PROVE  QueuedFresh'
<1>. SUFFICES ASSUME NEW u \in ToSet(entries'), u # t PROVE QueuedAt(u)'
  BY DEF QueuedFresh
<1>1. QueuedAt(u) /\ u \in Tasks
  BY InLine DEF Inv, QueuedFresh, Types
<1>2. /\ pc'[u] = pc[u] /\ phase'[u] = phase[u] /\ permit'[u] = permit[u]
      /\ resource'[u] = resource[u] /\ shut'[u] = shut[u]
  BY <1>1 DEF Mine
<1>. QED
  BY <1>1, <1>2 DEF QueuedAt

\* Outsiders are not disturbed by tasks.
LEMMA OwnOutside ==
  ASSUME Inv, NEW t \in Tasks, NEW a, NEW b, Mine(t, a, b)
  PROVE  OutsidersFit'
<1>. SUFFICES ASSUME NEW o \in Outsiders PROVE OutsideAt(o)'
  BY DEF OutsidersFit
<1>1. pc'[o] = pc[o] /\ kind' = kind
  BY TasksInside DEF Mine
<1>. QED
  BY <1>1 DEF Inv, OutsidersFit, OutsideAt

\* The bearers, but for t, are those of before.
LEMMA OtherBearers ==
  ASSUME NEW t \in Tasks, NEW a, NEW b, Mine(t, a, b)
  PROVE  /\ \A u \in Tasks : u # t => (Bearer(u)' <=> Bearer(u))
         /\ Bearers = {u \in Tasks : Bearer(u)} /\ Bearers' = {u \in Tasks : Bearer(u)'}
BY DEF Mine, Bearer, Bearers

\* A step of t's own: gate and line stay, and t bears what it bore.
LEMMA OwnStep ==
  ASSUME Inv, NEW t \in Tasks, NEW a, NEW b, Mine(t, a, b),
         UNCHANGED <<available, closed, closing, entries>>,
         Counted', CellAt(t)', t \in ToSet(entries) => QueuedAt(t)',
         kind = "semaphore" => (Bearer(t)' <=> Bearer(t))
  PROVE  Inv'
<1>1. CellsFit' /\ OutsidersFit' /\ QueuedFresh'
  BY OwnCells, OwnOutside, OwnQueue
<1>2. Conserved'
  <2>1. kind = "semaphore" => Bearers' = Bearers
    BY OtherBearers
  <2>2. kind' = kind
    BY DEF Mine
  <2>. QED
    BY <2>1, <2>2 DEF Inv, Conserved
<1>. QED
  BY <1>1, <1>2 DEF Inv, Mine

-----------------------------------------------------------------------------
(* take, up to the reservation of a ticket *)

\* A step that moves t and leaves every cell as it is.
LEMMA MovesOnly ==
  ASSUME Inv, NEW t \in Tasks, NEW a, NEW b \in Places, Goto(t, a, b),
         UNCHANGED <<kind, available, closed, closing, entries, phase, permit, resource, shut, signals>>,
         outstanding' \in Nat,
         calls' \in [Tasks -> Nat], \A u \in Tasks : calls'[u] <= MaxCalls[u]
  PROVE  Mine(t, a, b)
<1>1. Types
  BY DEF Inv
<1>2. /\ pc' \in [Tasks \cup Outsiders -> Places] /\ pc[t] = a /\ pc'[t] = b
      /\ \A u \in Tasks \cup Outsiders : u # t => pc'[u] = pc[u]
  BY <1>1, GotoFacts
<1>3. Types'
  BY <1>1, <1>2 DEF Types
<1>. QED
  BY <1>2, <1>3 DEF Mine

\* The entry of take, and of a condition variable's wait.
Entering(t) == Goto(t, "out", "enter") /\ UNCHANGED <<kind, gateVars, cellVars, calls, signals>>

\* A move between places without a ticket, a permit or a wait.
LEMMA BareMove ==
  ASSUME Inv, NEW t \in Tasks, NEW a \in {"out", "try", "grab", "empty", "enter"},
         NEW b \in {"out", "try", "grab", "empty", "enter"}, Goto(t, a, b),
         UNCHANGED <<kind, gateVars, cellVars, signals>>,
         calls' \in [Tasks -> Nat], \A u \in Tasks : calls'[u] <= MaxCalls[u]
  PROVE  Inv'
<1>0. a \in Places \ TicketPlaces /\ b \in Places \ TicketPlaces
  BY DEF Places, TicketPlaces
<1>1. UNCHANGED <<kind, available, closed, closing, outstanding, entries, phase, permit, resource, shut, signals>>
  BY DEF gateVars, cellVars
<1>2. Mine(t, a, b)
  BY <1>0, <1>1, MovesOnly DEF Inv, Types
<1>3. pc[t] = a /\ pc'[t] = b /\ CellAt(t)
  BY <1>2 DEF Mine, Inv, CellsFit
<1>4. Counted'
  BY <1>0, <1>1, <1>2, TicketCount, TasksInside DEF Mine, Inv, Types
<1>5. CellAt(t)' /\ (Bearer(t)' <=> Bearer(t))
  BY <1>1, <1>3 DEF CellAt, SelectedPlaces, Bearer
<1>6. t \notin ToSet(entries)
  BY <1>3 DEF Inv, QueuedFresh, QueuedAt
<1>. QED
  BY <1>1, <1>2, <1>4, <1>5, <1>6, OwnStep

\* acquire and notified begin.
LEMMA CallInv == ASSUME Inv, NEW t \in Tasks, call(t) PROVE Inv'
<1>1. calls' \in [Tasks -> Nat] /\ \A u \in Tasks : calls'[u] <= MaxCalls[u]
  <2>1. calls \in [Tasks -> Nat] /\ calls' = [calls EXCEPT ![t] = @ + 1] /\ calls[t] < MaxCalls[t]
    BY DEF call, Inv, Types
  <2>2. calls' \in [Tasks -> Nat]
    BY <2>1
  <2>3. \A u \in Tasks : calls'[u] <= MaxCalls[u]
    <3>1. calls'[t] = calls[t] + 1 /\ \A u \in Tasks : u # t => calls'[u] = calls[u]
      BY <2>1
    <3>2. calls[t] \in Nat /\ MaxCalls[t] \in Nat /\ \A u \in Tasks : calls[u] <= MaxCalls[u]
      BY <2>1, GateAssumption DEF Inv, Types
    <3>. QED
      BY <2>1, <3>1, <3>2
  <2>. QED
    BY <2>2, <2>3
<1>. QED
  BY <1>1, BareMove DEF call

\* The looks at the flag, and the entry.
LEMMA LooksInv == ASSUME Inv, NEW t \in Tasks, try_closed(t) \/ try_empty(t) \/ Entering(t) PROVE Inv'
<1>1. PICK a \in {"out", "try", "grab", "empty", "enter"}, b \in {"out", "try", "grab", "empty", "enter"} :
        Goto(t, a, b)
  BY DEF try_closed, try_empty, Entering
<1>2. UNCHANGED <<kind, gateVars, cellVars, calls, signals>>
  BY DEF try_closed, try_empty, Entering
<1>3. calls' \in [Tasks -> Nat] /\ \A u \in Tasks : calls'[u] <= MaxCalls[u]
  BY <1>2 DEF Inv, Types
<1>. QED
  BY <1>1, <1>2, <1>3, BareMove

\* A permit taken out of the gate by one who bore none.
LEMMA PermitTaken ==
  ASSUME Inv, NEW t \in Tasks, NEW a, NEW b, Mine(t, a, b), available > 0, available' = available - 1,
         UNCHANGED <<closed, entries>>,
         kind = "semaphore" => ~Bearer(t) /\ Bearer(t)'
  PROVE  Conserved'
<1>1. kind' = kind /\ available \in Nat
  BY DEF Mine, Inv, Types
<1>2. ASSUME ~closed, kind = "semaphore"
      PROVE  IsFiniteSet(Bearers') /\ available' + Cardinality(Bearers') = Permits
  <2>1. Bearers' = Bearers \cup {t} /\ t \notin Bearers
    BY <1>2, OtherBearers
  <2>2. IsFiniteSet(Bearers) /\ available + Cardinality(Bearers) = Permits
    BY <1>2 DEF Inv, Conserved
  <2>3. IsFiniteSet(Bearers') /\ Cardinality(Bearers') = Cardinality(Bearers) + 1
    BY <2>1, <2>2, FS_AddElement
  <2>4. Cardinality(Bearers) \in Nat
    BY <2>2, FS_CardinalityType
  <2>. QED
    BY <1>1, <2>2, <2>3, <2>4
<1>3. ~closed /\ entries # <<>> => FALSE
  BY DEF Inv, Conserved
<1>. QED
  BY <1>1, <1>2, <1>3 DEF Conserved

\* A permit taken by exchange, or none.
LEMMA TryTakeInv == ASSUME Inv, NEW t \in Tasks, try_take(t) PROVE Inv'
<1>1. UNCHANGED <<kind, closed, closing, outstanding, entries, phase, permit, resource, shut, calls, signals>>
  BY DEF try_take, cellVars
<1>2. CASE available = 0 /\ Goto(t, "grab", "empty") /\ UNCHANGED available
  <2>1. UNCHANGED <<kind, gateVars, cellVars, signals>>
    BY <1>1, <1>2 DEF gateVars, cellVars
  <2>2. calls' \in [Tasks -> Nat] /\ \A u \in Tasks : calls'[u] <= MaxCalls[u]
    BY <1>1 DEF Inv, Types
  <2>. QED
    BY <1>2, <2>1, <2>2, BareMove
<1>3. CASE available > 0 /\ Goto(t, "grab", Served) /\ available' = available - 1
  <2>1. Types /\ CellAt(t) /\ t \in Tasks \cup Outsiders
    BY TasksInside DEF Inv, CellsFit
  <2>2. /\ pc' \in [Tasks \cup Outsiders -> Places] /\ pc[t] = "grab" /\ pc'[t] = Served
        /\ \A u \in Tasks \cup Outsiders : u # t => pc'[u] = pc[u]
    BY <1>3, <2>1, ServedFacts, GotoFacts
  <2>3. Mine(t, "grab", Served)
    <3>1. available' \in Nat /\ available' <= Maximum[kind]
      BY <1>3, <2>1, MaximumFacts DEF Types
    <3>2. Types'
      BY <1>1, <2>1, <2>2, <3>1 DEF Types
    <3>. QED
      BY <1>1, <2>2, <3>2 DEF Mine
  <2>4. Counted'
    <3>1. "grab" \notin TicketPlaces /\ Served \notin TicketPlaces
      BY ServedFacts DEF TicketPlaces
    <3>2. outstanding' \in Nat
      BY <2>3 DEF Mine, Types
    <3>. QED
      BY <1>1, <2>2, <3>1, <3>2, TicketCount
  <2>5. CellAt(t)'
    BY <1>1, <2>1, <2>2, ServedFacts DEF CellAt, SelectedPlaces
  <2>6. kind = "semaphore" => ~Bearer(t) /\ Bearer(t)'
    BY <1>1, <2>1, <2>2, ServedFacts DEF Bearer, CellAt, SelectedPlaces
  <2>7. Conserved'
    BY <1>1, <1>3, <2>3, <2>6, PermitTaken
  <2>8. t \notin ToSet(entries)
    BY <2>2 DEF Inv, QueuedFresh, QueuedAt
  <2>9. CellsFit' /\ QueuedFresh' /\ OutsidersFit'
    BY <1>1, <2>3, <2>5, <2>8, OwnCells, OwnQueue, OwnOutside
  <2>. QED
    BY <1>1, <2>3, <2>4, <2>7, <2>9 DEF Inv, Mine
<1>. QED
  BY <1>2, <1>3 DEF try_take

\* The cell is recycled and a ticket reserved, or not.
LEMMA ReserveInv == ASSUME Inv, NEW t \in Tasks, reserve(t) PROVE Inv'
<1>1. UNCHANGED <<kind, available, closed, closing, entries, phase, shut, calls, signals>>
  BY DEF reserve
<1>2. Types /\ CellAt(t) /\ t \in Tasks \cup Outsiders
  BY TasksInside DEF Inv, CellsFit
<1>. DEFINE b == IF Recyclable(t) /\ has_room THEN "reserved" ELSE "out"
<1>3. /\ b \in {"out", "reserved"} /\ Goto(t, "enter", b)
      /\ b = "reserved" => has_room /\ Recyclable(t) /\ outstanding' = outstanding + 1
      /\ b = "out" => UNCHANGED outstanding
      /\ Recyclable(t) => /\ permit' = [permit EXCEPT ![t] = FALSE]
                          /\ resource' = [resource EXCEPT ![t] = "none"]
      /\ ~Recyclable(t) => UNCHANGED <<permit, resource>>
  <2>1. CASE Recyclable(t) /\ has_room
    BY <2>1 DEF reserve
  <2>2. CASE Recyclable(t) /\ ~has_room
    BY <2>2 DEF reserve
  <2>3. CASE ~Recyclable(t)
    BY <2>3 DEF reserve
  <2>. QED
    BY <2>1, <2>2, <2>3
<1>. HIDE DEF b
<1>4. /\ pc' \in [Tasks \cup Outsiders -> Places] /\ pc[t] = "enter" /\ pc'[t] = b
      /\ \A u \in Tasks \cup Outsiders : u # t => pc'[u] = pc[u]
  <2>1. b \in Places
    BY <1>3 DEF Places
  <2>. QED
    BY <1>2, <1>3, <2>1, GotoFacts
<1>5. /\ permit' \in [Tasks -> BOOLEAN] /\ resource' \in [Tasks -> Selections]
      /\ \A u \in Tasks : u # t => permit'[u] = permit[u] /\ resource'[u] = resource[u]
      /\ resource[t] = "none" /\ resource'[t] = "none" /\ (b = "reserved" => ~permit'[t])
  <2>1. resource[t] = "none"
    BY <1>2, <1>4 DEF CellAt, SelectedPlaces
  <2>2. CASE Recyclable(t)
    BY <1>2, <1>3, <2>1, <2>2 DEF Types, Selections
  <2>3. CASE ~Recyclable(t)
    BY <1>2, <1>3, <2>1, <2>3 DEF Types
  <2>. QED
    BY <2>2, <2>3
<1>6. outstanding' \in Nat
  BY <1>2, <1>3 DEF Types
<1>7. Mine(t, "enter", b)
  <2>1. Types'
    BY <1>1, <1>2, <1>4, <1>5, <1>6 DEF Types
  <2>. QED
    BY <1>1, <1>4, <1>5, <2>1 DEF Mine
<1>8. Counted'
  <2>1. "enter" \notin TicketPlaces /\ "out" \notin TicketPlaces /\ "reserved" \in TicketPlaces
    BY DEF TicketPlaces
  <2>. QED
    BY <1>3, <1>4, <1>6, <2>1, TicketCount DEF has_room
<1>9. CellAt(t)' /\ (Bearer(t)' <=> Bearer(t))
  BY <1>1, <1>2, <1>3, <1>4, <1>5 DEF CellAt, Bearer, Recyclable
<1>10. t \notin ToSet(entries)
  BY <1>4 DEF Inv, QueuedFresh, QueuedAt
<1>. QED
  BY <1>1, <1>7, <1>8, <1>9, <1>10, OwnStep

-----------------------------------------------------------------------------
(* subscribe *)

\* What an accepted offer does to a cell.
LEMMA OfferFacts ==
  ASSUME Types, NEW t \in Tasks, NEW sel \in Selections, offer_resource(t, sel)
  PROVE  /\ phase' \in [Tasks -> Phases] /\ permit' \in [Tasks -> BOOLEAN]
         /\ resource' \in [Tasks -> Selections] /\ shut' = shut
         /\ resource'[t] = sel /\ permit'[t] = (phase[t] = "Idle")
         /\ phase'[t] = IF phase[t] = "Active" THEN "Ready" ELSE phase[t]
         /\ \A u \in Tasks : u # t =>
              phase'[u] = phase[u] /\ permit'[u] = permit[u] /\ resource'[u] = resource[u]
BY DEF Types, offer_resource, Phases

\* A task with a fresh reservation accepts an offer.
LEMMA ReservedOfferable ==
  ASSUME Inv, NEW t \in Tasks, pc[t] = "reserved"
  PROVE  offerable(t) /\ phase[t] = "Idle" /\ resource[t] = "none" /\ ~permit[t] /\ ~shut[t]
BY DEF Inv, CellsFit, CellAt, SelectedPlaces, offerable

\* The reservation turns into a ticket, in the line or served at once.
LEMMA SubscribeInv == ASSUME Inv, NEW t \in Tasks, subscribe(t) PROVE Inv'
<1>0. UNCHANGED <<kind, closed, closing, calls, signals>> /\ ~closing
  BY DEF subscribe, Unlocked
<1>1. Types /\ CellAt(t) /\ t \in Tasks \cup Outsiders
  BY TasksInside DEF Inv, CellsFit
<1>2. pc[t] = "reserved"
  BY DEF subscribe, Goto
<1>3. offerable(t) /\ phase[t] = "Idle" /\ resource[t] = "none" /\ ~permit[t] /\ ~shut[t]
  BY <1>2, ReservedOfferable
<1>4. t \notin ToSet(entries)
  BY <1>2 DEF Inv, QueuedFresh, QueuedAt
<1>5. "reserved" \in TicketPlaces /\ "ticket" \in TicketPlaces /\ "out" \notin TicketPlaces
      /\ "ticket" \in Places /\ "out" \in Places
  BY DEF TicketPlaces, Places
<1>6. CASE /\ closed /\ Goto(t, "reserved", "out") /\ outstanding' = outstanding - 1
           /\ UNCHANGED <<available, entries, cellVars>>
  <2>1. outstanding' \in Nat
    BY <1>2, <1>5, <1>6, TicketHeld
  <2>2. UNCHANGED <<kind, available, closed, closing, entries, phase, permit, resource, shut, signals>>
    BY <1>0, <1>6 DEF cellVars
  <2>3. Mine(t, "reserved", "out")
    BY <1>0, <1>5, <1>6, <2>1, <2>2, MovesOnly DEF Inv, Types
  <2>4. Counted'
    BY <1>5, <1>6, <2>1, <2>3, TicketCount DEF Mine
  <2>5. CellAt(t)' /\ (Bearer(t)' <=> Bearer(t))
    BY <1>1, <1>2, <1>3, <2>2, <2>3 DEF CellAt, Bearer, Mine
  <2>. QED
    BY <1>4, <2>2, <2>3, <2>4, <2>5, OwnStep
<1>7. CASE /\ ~closed /\ recheck /\ Goto(t, "reserved", "ticket") /\ available' = available - 1
           /\ offer_resource(t, "Permit") /\ UNCHANGED <<outstanding, entries>>
  <2>1. /\ pc' \in [Tasks \cup Outsiders -> Places] /\ pc'[t] = "ticket"
        /\ \A u \in Tasks \cup Outsiders : u # t => pc'[u] = pc[u]
    BY <1>1, <1>5, <1>7, GotoFacts
  <2>2. /\ phase' \in [Tasks -> Phases] /\ permit' \in [Tasks -> BOOLEAN]
        /\ resource' \in [Tasks -> Selections] /\ shut' = shut
        /\ resource'[t] = "Permit" /\ phase'[t] = "Idle"
        /\ \A u \in Tasks : u # t =>
             phase'[u] = phase[u] /\ permit'[u] = permit[u] /\ resource'[u] = resource[u]
    <3>1. "Permit" \in Selections
      BY DEF Selections
    <3>. QED
      BY <1>1, <1>3, <1>7, <3>1, OfferFacts
  <2>3. Mine(t, "reserved", "ticket")
    <3>1. available' \in Nat /\ available' <= Maximum[kind]
      BY <1>1, <1>7, MaximumFacts DEF Types, recheck
    <3>2. Types'
      BY <1>0, <1>1, <1>7, <2>1, <2>2, <3>1 DEF Types
    <3>. QED
      BY <1>0, <1>2, <2>1, <2>2, <3>2 DEF Mine
  <2>4. Counted'
    BY <1>5, <1>7, <2>3, TicketCount DEF Mine, Types
  <2>5. CellAt(t)'
    BY <1>0, <1>1, <2>1, <2>2 DEF CellAt, SelectedPlaces
  <2>6. ~Bearer(t) /\ Bearer(t)'
    BY <1>2, <1>3, <2>2 DEF Bearer
  <2>7. Conserved'
    BY <1>0, <1>7, <2>3, <2>6, PermitTaken DEF recheck
  <2>8. CellsFit' /\ QueuedFresh' /\ OutsidersFit'
    BY <1>0, <1>4, <1>7, <2>3, <2>5, OwnCells, OwnQueue, OwnOutside
  <2>. QED
    BY <1>0, <2>3, <2>4, <2>7, <2>8 DEF Inv, Mine
<1>8. CASE /\ ~closed /\ ~recheck /\ Goto(t, "reserved", "ticket") /\ entries' = Append(entries, t)
           /\ UNCHANGED <<available, outstanding, cellVars>>
  <2>1. /\ pc' \in [Tasks \cup Outsiders -> Places] /\ pc'[t] = "ticket"
        /\ \A u \in Tasks \cup Outsiders : u # t => pc'[u] = pc[u]
    BY <1>1, <1>5, <1>8, GotoFacts
  <2>2. UNCHANGED <<available, outstanding, phase, permit, resource, shut>>
    BY <1>8 DEF cellVars
  <2>3. entries' \in LineOf(Tasks) /\ ToSet(entries') = ToSet(entries) \cup {t}
    BY <1>1, <1>4, <1>8, JoinLine DEF Types
  <2>4. Mine(t, "reserved", "ticket")
    <3>1. Types'
      BY <1>0, <1>1, <2>1, <2>2, <2>3 DEF Types
    <3>. QED
      BY <1>0, <1>2, <2>1, <2>2, <3>1 DEF Mine
  <2>5. Counted'
    BY <1>5, <2>2, <2>4, TicketCount DEF Mine, Types
  <2>6. CellAt(t)' /\ QueuedAt(t)' /\ (Bearer(t)' <=> Bearer(t))
    BY <1>0, <1>1, <1>2, <1>3, <2>1, <2>2 DEF CellAt, SelectedPlaces, QueuedAt, Bearer
  <2>7. CellsFit' /\ QueuedFresh' /\ OutsidersFit'
    BY <1>0, <2>3, <2>4, <2>6, OwnCells, OwnQueue, OwnOutside
  <2>8. Conserved'
    <3>1. Bearers' = Bearers
      BY <2>4, <2>6, OtherBearers
    <3>2. available' = 0
      BY <1>1, <1>8, <2>2 DEF recheck, Types
    <3>. QED
      BY <1>0, <2>2, <3>1, <3>2 DEF Conserved, Inv
  <2>. QED
    BY <1>0, <2>4, <2>5, <2>7, <2>8 DEF Inv, Mine
<1>. QED
  BY <1>3, <1>6, <1>7, <1>8 DEF subscribe

-----------------------------------------------------------------------------
(* Ticket::wait and the drop of a ticket *)

\* A step that moves t and changes at most its own cell, the tickets and the line.
LEMMA MovesOwnCell ==
  ASSUME Inv, NEW t \in Tasks, NEW a, NEW b \in Places, Goto(t, a, b),
         UNCHANGED <<kind, available, closed, closing, calls, signals>>,
         entries' \in LineOf(Tasks), outstanding' \in Nat,
         phase' \in [Tasks -> Phases], permit' \in [Tasks -> BOOLEAN],
         resource' \in [Tasks -> Selections], shut' \in [Tasks -> BOOLEAN],
         \A u \in Tasks : u # t =>
           /\ phase'[u] = phase[u] /\ permit'[u] = permit[u]
           /\ resource'[u] = resource[u] /\ shut'[u] = shut[u]
  PROVE  Mine(t, a, b)
<1>1. Types
  BY DEF Inv
<1>2. /\ pc' \in [Tasks \cup Outsiders -> Places] /\ pc[t] = a /\ pc'[t] = b
      /\ \A u \in Tasks \cup Outsiders : u # t => pc'[u] = pc[u]
  BY <1>1, GotoFacts
<1>3. Types'
  BY <1>1, <1>2 DEF Types
<1>. QED
  BY <1>2, <1>3 DEF Mine

\* Such a step between two places of a ticket.
LEMMA TicketMove ==
  ASSUME Inv, NEW t \in Tasks, NEW a \in TicketPlaces, NEW b \in TicketPlaces, Goto(t, a, b),
         UNCHANGED <<kind, gateVars, calls, signals>>,
         phase' \in [Tasks -> Phases], permit' \in [Tasks -> BOOLEAN],
         resource' \in [Tasks -> Selections], shut' \in [Tasks -> BOOLEAN],
         \A u \in Tasks : u # t =>
           /\ phase'[u] = phase[u] /\ permit'[u] = permit[u]
           /\ resource'[u] = resource[u] /\ shut'[u] = shut[u],
         CellAt(t)', t \in ToSet(entries) => QueuedAt(t)',
         kind = "semaphore" => (Bearer(t)' <=> Bearer(t))
  PROVE  Inv'
<1>1. UNCHANGED <<kind, available, closed, closing, outstanding, entries, calls, signals>>
  BY DEF gateVars
<1>2. b \in Places /\ entries' \in LineOf(Tasks) /\ outstanding' \in Nat
  BY <1>1, PlaceFacts DEF Inv, Types
<1>3. Mine(t, a, b)
  BY <1>1, <1>2, MovesOwnCell
<1>4. Counted'
  BY <1>1, <1>2, <1>3, TicketCount DEF Mine
<1>. QED
  BY <1>1, <1>3, <1>4, OwnStep

\* The wait begins, or returns at once.
LEMMA BeginInv == ASSUME Inv, NEW t \in Tasks, begin_resident(t) PROVE Inv'
<1>1. UNCHANGED <<kind, gateVars, resource, shut, calls, signals>> /\ closed' = closed
  BY DEF begin_resident, gateVars
<1>2. Types /\ CellAt(t)
  BY DEF Inv, CellsFit
<1>3. PICK b \in {"back", "parked", "drop"} :
        /\ Goto(t, "ticket", b)
        /\ b = "back" => /\ shut[t] \/ permit[t]
                         /\ permit' = [permit EXCEPT ![t] = FALSE] /\ phase' = phase
        /\ b = "parked" => /\ ~permit[t] /\ ~shut[t] /\ permit' = permit
                           /\ phase' = [phase EXCEPT ![t] = "Active"]
        /\ b = "drop" => ~permit[t] /\ ~shut[t] /\ permit' = permit /\ phase' = phase
  BY DEF begin_resident
<1>4. pc[t] = "ticket" /\ pc'[t] = b /\ "ticket" \in TicketPlaces /\ b \in TicketPlaces
  BY <1>2, <1>3 DEF Types, Goto, TicketPlaces
<1>5. /\ phase' \in [Tasks -> Phases] /\ permit' \in [Tasks -> BOOLEAN]
      /\ phase'[t] = IF b = "parked" THEN "Active" ELSE phase[t]
      /\ b # "back" => permit'[t] = permit[t]
      /\ \A u \in Tasks : u # t => phase'[u] = phase[u] /\ permit'[u] = permit[u]
  BY <1>2, <1>3 DEF Types, Phases
<1>6. resource' \in [Tasks -> Selections] /\ shut' \in [Tasks -> BOOLEAN]
  BY <1>1, <1>2 DEF Types
<1>7. CellAt(t)' /\ (Bearer(t)' <=> Bearer(t))
  BY <1>1, <1>2, <1>3, <1>4, <1>5 DEF CellAt, SelectedPlaces, Bearer
<1>8. t \in ToSet(entries) => QueuedAt(t)'
  <2>1. t \in ToSet(entries) => QueuedAt(t)
    BY DEF Inv, QueuedFresh
  <2>. QED
    BY <1>1, <1>3, <1>4, <1>5, <2>1 DEF QueuedAt
<1>. QED
  BY <1>1, <1>3, <1>4, <1>5, <1>6, <1>7, <1>8, TicketMove

\* A cancellation or a deadline wins the generation.
LEMMA CancelledInv == ASSUME Inv, NEW t \in Tasks, select_cancelled(t) PROVE Inv'
<1>1. /\ UNCHANGED <<kind, gateVars, permit, resource, shut, calls, signals>> /\ closed' = closed
      /\ phase[t] = "Active" /\ phase' = [phase EXCEPT ![t] = "Other"] /\ pc' = pc
  BY DEF select_cancelled, gateVars
<1>2. Types /\ CellAt(t)
  BY DEF Inv, CellsFit
<1>3. pc[t] = "parked" /\ pc'[t] = "parked" /\ "parked" \in TicketPlaces /\ Goto(t, "parked", "parked")
  BY <1>1, <1>2 DEF CellAt, TicketPlaces, Goto, Types
<1>4. /\ phase' \in [Tasks -> Phases] /\ phase'[t] = "Other"
      /\ \A u \in Tasks : u # t => phase'[u] = phase[u]
  BY <1>1, <1>2 DEF Types, Phases
<1>5. permit' \in [Tasks -> BOOLEAN] /\ resource' \in [Tasks -> Selections] /\ shut' \in [Tasks -> BOOLEAN]
  BY <1>1, <1>2 DEF Types
<1>6. CellAt(t)' /\ (Bearer(t)' <=> Bearer(t))
  BY <1>1, <1>2, <1>3, <1>4 DEF CellAt, SelectedPlaces, Bearer
<1>7. t \in ToSet(entries) => QueuedAt(t)'
  <2>1. t \in ToSet(entries) => QueuedAt(t)
    BY DEF Inv, QueuedFresh
  <2>. QED
    BY <1>1, <1>3, <1>4, <2>1 DEF QueuedAt
<1>. QED
  BY <1>1, <1>3, <1>4, <1>5, <1>6, <1>7, TicketMove

\* The end of a wait.
LEMMA WokenInv == ASSUME Inv, NEW t \in Tasks, finish(t) \/ rollback(t) PROVE Inv'
<1>1. /\ UNCHANGED <<kind, gateVars, permit, resource, shut, calls, signals>> /\ closed' = closed
      /\ phase' = [phase EXCEPT ![t] = "Idle"]
  BY DEF finish, rollback, gateVars
<1>2. Types /\ CellAt(t)
  BY DEF Inv, CellsFit
<1>3. PICK b \in {"back", "drop"} :
        Goto(t, "parked", b) /\ (b = "back" => phase[t] \in {"Ready", "Closed"})
  BY DEF finish, rollback
<1>4. pc[t] = "parked" /\ pc'[t] = b /\ "parked" \in TicketPlaces /\ b \in TicketPlaces
  BY <1>2, <1>3 DEF TicketPlaces, Goto, Types
<1>5. /\ phase' \in [Tasks -> Phases] /\ phase'[t] = "Idle"
      /\ \A u \in Tasks : u # t => phase'[u] = phase[u]
  BY <1>1, <1>2 DEF Types, Phases
<1>6. permit' \in [Tasks -> BOOLEAN] /\ resource' \in [Tasks -> Selections] /\ shut' \in [Tasks -> BOOLEAN]
  BY <1>1, <1>2 DEF Types
<1>7. CellAt(t)' /\ (Bearer(t)' <=> Bearer(t))
  BY <1>1, <1>2, <1>4, <1>5 DEF CellAt, SelectedPlaces, Bearer
<1>8. t \in ToSet(entries) => QueuedAt(t)'
  <2>1. t \in ToSet(entries) => QueuedAt(t)
    BY DEF Inv, QueuedFresh
  <2>. QED
    BY <1>1, <1>3, <1>4, <1>5, <2>1 DEF QueuedAt
<1>. QED
  BY <1>1, <1>3, <1>4, <1>5, <1>6, <1>7, <1>8, TicketMove

\* The look at the flag after a wait.
LEMMA ResumeInv == ASSUME Inv, NEW t \in Tasks, resume(t) PROVE Inv'
<1>1. /\ UNCHANGED <<kind, gateVars, phase, permit, resource, shut, calls, signals>> /\ closed' = closed
  BY DEF resume, gateVars, cellVars
<1>2. Types /\ CellAt(t)
  BY DEF Inv, CellsFit
<1>3. PICK b \in {"consume", "drop"} : Goto(t, "back", b)
  BY DEF resume
<1>4. pc[t] = "back" /\ pc'[t] = b /\ "back" \in TicketPlaces /\ b \in TicketPlaces
  BY <1>2, <1>3 DEF TicketPlaces, Goto, Types
<1>5. /\ phase' \in [Tasks -> Phases] /\ permit' \in [Tasks -> BOOLEAN]
      /\ resource' \in [Tasks -> Selections] /\ shut' \in [Tasks -> BOOLEAN]
  BY <1>1, <1>2 DEF Types
<1>6. CellAt(t)' /\ (Bearer(t)' <=> Bearer(t))
  BY <1>1, <1>2, <1>4 DEF CellAt, SelectedPlaces, Bearer
<1>7. t \notin ToSet(entries)
  BY <1>4 DEF Inv, QueuedFresh, QueuedAt
<1>. QED
  BY <1>1, <1>3, <1>4, <1>5, <1>6, <1>7, TicketMove

\* The selection is consumed, or there was none.
LEMMA CompleteInv == ASSUME Inv, NEW t \in Tasks, complete(t) PROVE Inv'
<1>1. /\ UNCHANGED <<kind, available, closed, closing, entries, phase, permit, shut, calls, signals>>
      /\ resource' = [resource EXCEPT ![t] = "none"]
  BY DEF complete
<1>2. Types /\ CellAt(t)
  BY DEF Inv, CellsFit
<1>. DEFINE b == IF resource[t] # "none" THEN Served ELSE "ticket"
<1>3. /\ Goto(t, "consume", b)
      /\ outstanding' = IF resource[t] # "none" THEN outstanding - 1 ELSE outstanding
  BY DEF complete
<1>4. pc[t] = "consume" /\ pc'[t] = b
  BY <1>2, <1>3 DEF Goto, Types
<1>5. /\ "consume" \in TicketPlaces /\ "ticket" \in TicketPlaces /\ Served \notin TicketPlaces
      /\ b \in Places
  BY ServedFacts DEF TicketPlaces, Places
<1>6. outstanding' \in Nat
  BY <1>2, <1>3, <1>4, <1>5, TicketHeld DEF Types
<1>7. /\ resource' \in [Tasks -> Selections] /\ resource'[t] = "none"
      /\ \A u \in Tasks : u # t => resource'[u] = resource[u]
  BY <1>1, <1>2 DEF Types, Selections
<1>8. /\ phase' \in [Tasks -> Phases] /\ permit' \in [Tasks -> BOOLEAN] /\ shut' \in [Tasks -> BOOLEAN]
      /\ entries' \in LineOf(Tasks)
  BY <1>1, <1>2 DEF Types
<1>9. CellAt(t)' /\ (kind = "semaphore" => (Bearer(t)' <=> Bearer(t)))
  <2>1. resource[t] \in Selections
    BY <1>2 DEF Types
  <2>2. b \in {"holding", "out", "ticket"} /\ (kind = "semaphore" /\ resource[t] # "none" => b = "holding")
        /\ (resource[t] = "none" => b = "ticket")
    BY ServedFacts
  <2>. HIDE DEF b
  <2>3. CellAt(t)'
    BY <1>1, <1>2, <1>4, <1>7, <2>2 DEF CellAt, SelectedPlaces
  <2>4. kind = "semaphore" => (Bearer(t)' <=> Bearer(t))
    BY <1>2, <1>4, <1>7, <2>1, <2>2 DEF CellAt, Bearer, Selections
  <2>. QED
    BY <2>3, <2>4
<1>10. b \in TicketPlaces <=> resource[t] = "none"
  BY <1>5
<1>. HIDE DEF b
<1>11. Mine(t, "consume", b)
  BY <1>1, <1>3, <1>5, <1>6, <1>7, <1>8, MovesOwnCell
<1>12. Counted'
  <2>1. \/ (("consume" \in TicketPlaces <=> b \in TicketPlaces) /\ outstanding' = outstanding)
        \/ ("consume" \in TicketPlaces /\ b \notin TicketPlaces /\ outstanding' = outstanding - 1)
    BY <1>3, <1>5, <1>10
  <2>. QED
    BY <1>4, <1>6, <1>11, <2>1, TicketCount DEF Mine
<1>13. t \notin ToSet(entries)
  BY <1>4 DEF Inv, QueuedFresh, QueuedAt
<1>. QED
  BY <1>1, <1>9, <1>11, <1>12, <1>13, OwnStep

\* A dropped ticket leaves the line, or owes what it was given.
LEMMA DropTicketInv == ASSUME Inv, NEW t \in Tasks, drop_ticket(t) PROVE Inv'
<1>1. UNCHANGED <<kind, available, closed, closing, outstanding, phase, permit, shut, calls, signals>>
  BY DEF drop_ticket
<1>2. Types /\ CellAt(t) /\ entries \in LineOf(Tasks)
  BY DEF Inv, CellsFit, Types
<1>3. pc[t] = "drop" /\ (Contains(entries, t) <=> t \in ToSet(entries))
  BY <1>2, InLine DEF drop_ticket, Goto
<1>4. /\ phase' \in [Tasks -> Phases] /\ permit' \in [Tasks -> BOOLEAN] /\ shut' \in [Tasks -> BOOLEAN]
      /\ outstanding' \in Nat
  BY <1>1, <1>2 DEF Types
<1>5. /\ {"drop", "dropped", "granted"} \subseteq TicketPlaces /\ {"drop", "dropped", "granted"} \subseteq Places
  BY DEF TicketPlaces, Places
<1>6. CASE /\ t \in ToSet(entries) /\ Goto(t, "drop", "dropped")
           /\ entries' = RemoveFirst(entries, t) /\ UNCHANGED resource
  <2>1. entries' \in LineOf(Tasks) /\ ToSet(entries') = ToSet(entries) \ {t} /\ entries # <<>>
    BY <1>2, <1>6, LeaveLine
  <2>2. resource' \in [Tasks -> Selections]
    BY <1>2, <1>6 DEF Types
  <2>3. Mine(t, "drop", "dropped")
    BY <1>1, <1>4, <1>5, <1>6, <2>1, <2>2, MovesOwnCell
  <2>4. Counted'
    BY <1>1, <1>4, <1>5, <2>3, TicketCount DEF Mine
  <2>5. QueuedAt(t)
    BY <1>6 DEF Inv, QueuedFresh
  <2>6. CellAt(t)' /\ (Bearer(t)' <=> Bearer(t))
    BY <1>1, <1>2, <1>3, <1>6, <2>3, <2>5 DEF CellAt, Bearer, QueuedAt, Mine
  <2>7. CellsFit' /\ QueuedFresh' /\ OutsidersFit'
    BY <1>1, <2>1, <2>3, <2>6, OwnCells, OwnQueue, OwnOutside
  <2>8. Conserved'
    <3>1. Bearers' = Bearers
      BY <2>3, <2>6, OtherBearers
    <3>. QED
      BY <1>1, <2>1, <3>1 DEF Conserved, Inv
  <2>. QED
    BY <1>1, <2>3, <2>4, <2>7, <2>8 DEF Inv, Mine
<1>7. CASE /\ t \notin ToSet(entries) /\ Goto(t, "drop", abandoned(t))
           /\ resource' = [resource EXCEPT ![t] = "none"] /\ UNCHANGED entries
  <2>1. /\ resource' \in [Tasks -> Selections] /\ resource'[t] = "none"
        /\ \A u \in Tasks : u # t => resource'[u] = resource[u]
    BY <1>2, <1>7 DEF Types, Selections
  <2>2. /\ abandoned(t) \in {"granted", "dropped"} /\ (abandoned(t) = "granted" <=> resource[t] = "Permit")
    BY DEF abandoned
  <2>3. pc'[t] = abandoned(t)
    BY <1>2, <1>7 DEF Types, Goto
  <2>4. UNCHANGED gateVars
    BY <1>1, <1>7 DEF gateVars
  <2>5. CellAt(t)' /\ (Bearer(t)' <=> Bearer(t))
    BY <1>1, <1>2, <1>3, <2>1, <2>2, <2>3 DEF CellAt, Bearer
  <2>6. abandoned(t) \in TicketPlaces /\ "drop" \in TicketPlaces
    BY <1>5, <2>2
  <2>. QED
    BY <1>1, <1>4, <1>7, <2>1, <2>4, <2>5, <2>6, TicketMove
<1>. QED
  BY <1>3, <1>6, <1>7 DEF drop_ticket

\* The ticket is given back.
LEMMA DropReleaseInv == ASSUME Inv, NEW t \in Tasks, drop_release(t) PROVE Inv'
<1>1. /\ UNCHANGED <<kind, available, closed, closing, entries, phase, permit, resource, calls, signals>>
      /\ outstanding' = outstanding - 1
  BY DEF drop_release
<1>2. Types /\ CellAt(t)
  BY DEF Inv, CellsFit
<1>3. PICK a \in {"dropped", "granted"}, b \in {"out", "signal"} :
        Goto(t, a, b) /\ (a = "granted" <=> b = "signal")
  BY DEF drop_release
<1>4. pc[t] = a /\ pc'[t] = b
  BY <1>2, <1>3 DEF Types, Goto
<1>5. a \in TicketPlaces /\ b \notin TicketPlaces /\ b \in Places
  BY DEF TicketPlaces, Places
<1>6. /\ shut' \in [Tasks -> BOOLEAN] /\ \A u \in Tasks : u # t => shut'[u] = shut[u]
      /\ shut'[t] => closed
  <2>1. CASE closed /\ reset_closed_gate(t)
    BY <1>2, <2>1 DEF Types, reset_closed_gate
  <2>2. CASE ~closed /\ UNCHANGED shut
    BY <1>2, <2>2 DEF Types, CellAt
  <2>. QED
    BY <2>1, <2>2 DEF drop_release
<1>7. /\ phase' \in [Tasks -> Phases] /\ permit' \in [Tasks -> BOOLEAN] /\ resource' \in [Tasks -> Selections]
      /\ entries' \in LineOf(Tasks)
  BY <1>1, <1>2 DEF Types
<1>8. outstanding' \in Nat
  BY <1>1, <1>4, <1>5, TicketHeld
<1>9. Mine(t, a, b)
  BY <1>1, <1>3, <1>5, <1>6, <1>7, <1>8, MovesOwnCell
<1>10. Counted'
  BY <1>1, <1>4, <1>5, <1>8, <1>9, TicketCount DEF Mine
<1>11. CellAt(t)' /\ (Bearer(t)' <=> Bearer(t))
  BY <1>1, <1>2, <1>3, <1>4, <1>6 DEF CellAt, Bearer, SelectedPlaces
<1>12. t \notin ToSet(entries)
  BY <1>4 DEF Inv, QueuedFresh, QueuedAt
<1>. QED
  BY <1>1, <1>9, <1>10, <1>11, <1>12, OwnStep

\* A permit of the semaphore is dropped.
LEMMA DropPermitInv == ASSUME Inv, NEW t \in Tasks, drop_permit(t) PROVE Inv'
<1>1. /\ UNCHANGED <<kind, available, closed, closing, entries, outstanding, phase, permit, resource, shut,
                     calls, signals>>
      /\ Goto(t, "holding", "signal")
  BY DEF drop_permit, gateVars, cellVars
<1>2. Types /\ CellAt(t) /\ "signal" \in Places /\ "holding" \notin TicketPlaces /\ "signal" \notin TicketPlaces
  BY DEF Inv, CellsFit, Places, TicketPlaces
<1>3. Mine(t, "holding", "signal")
  BY <1>1, <1>2, MovesOnly DEF Types
<1>4. Counted'
  BY <1>1, <1>2, <1>3, TicketCount DEF Mine, Types
<1>5. CellAt(t)' /\ (Bearer(t)' <=> Bearer(t))
  BY <1>1, <1>2, <1>3 DEF CellAt, Bearer, SelectedPlaces, Mine
<1>6. t \notin ToSet(entries)
  BY <1>3 DEF Inv, QueuedFresh, QueuedAt, Mine
<1>. QED
  BY <1>1, <1>3, <1>4, <1>5, <1>6, OwnStep

-----------------------------------------------------------------------------
(* signal, broadcast and close *)

\* A step of a caller inside signal moves no ticket and no outsider's business.
LEMMA SignalFrame ==
  ASSUME Inv, NEW a \in Tasks \cup Outsiders, NEW b \in {"out", "signal"}, Goto(a, "signal", b),
         UNCHANGED <<kind, outstanding>>
  PROVE  /\ pc' \in [Tasks \cup Outsiders -> Places] /\ pc[a] = "signal" /\ pc'[a] = b
         /\ \A u \in Tasks \cup Outsiders : u # a => pc'[u] = pc[u]
         /\ Counted' /\ OutsidersFit'
         /\ kind = "semaphore" => a \in Tasks
<1>1. Types /\ b \in Places
  BY DEF Inv, Places
<1>2. /\ pc' \in [Tasks \cup Outsiders -> Places] /\ pc[a] = "signal" /\ pc'[a] = b
      /\ \A u \in Tasks \cup Outsiders : u # a => pc'[u] = pc[u]
  BY <1>1, GotoFacts
<1>3. Counted'
  <2>1. \A u \in Tasks : pc'[u] \in TicketPlaces <=> pc[u] \in TicketPlaces
    BY <1>2 DEF TicketPlaces
  <2>2. Ticketed' = Ticketed
    BY <2>1 DEF Ticketed
  <2>. QED
    BY <2>2 DEF Counted, Inv
<1>4. \A o \in Outsiders : OutsideAt(o)
  BY DEF Inv, OutsidersFit
<1>5. OutsidersFit'
  BY <1>2, <1>4 DEF OutsidersFit, OutsideAt
<1>6. kind = "semaphore" => a \in Tasks
  BY <1>2, <1>4 DEF OutsideAt
<1>. QED
  BY <1>2, <1>3, <1>5, <1>6

\* A caller inside signal has no cell in use.
LEMMA SignallerFree ==
  ASSUME Inv, NEW a \in Tasks, pc[a] = "signal"
  PROVE  /\ phase[a] = "Idle" /\ resource[a] = "none" /\ a \notin ToSet(entries) /\ a \in Bearers
BY DEF Inv, CellsFit, CellAt, SelectedPlaces, QueuedFresh, QueuedAt, Bearers

\* An entry of the line refuses an offer only when it is cancelled.
LEMMA QueuedOffer ==
  ASSUME Inv, NEW t \in ToSet(entries)
  PROVE  t \in Tasks /\ QueuedAt(t) /\ (offerable(t) \/ phase[t] = "Other")
<1>1. t \in Tasks /\ QueuedAt(t)
  BY InLine DEF Inv, Types, QueuedFresh
<1>. QED
  BY <1>1 DEF QueuedAt, offerable

\* The rounds that touch no cell: the gate is closed, the permit is stored or
\* the entry refuses.
LEMMA SignalAside ==
  ASSUME Inv, NEW a \in Tasks \cup Outsiders, NEW b \in {"out", "signal"}, Goto(a, "signal", b),
         UNCHANGED <<kind, closed, closing, outstanding, calls, signals, phase, permit, resource, shut>>,
         entries' \in LineOf(Tasks), ToSet(entries') \subseteq ToSet(entries),
         available' \in Nat, available' <= Maximum[kind],
         \/ closed
         \/ b = "out" /\ entries' = <<>> /\ (kind = "semaphore" => available' = available + 1)
         \/ b = "signal" /\ available' = available /\ entries # <<>>
  PROVE  Inv'
<1>1. /\ pc' \in [Tasks \cup Outsiders -> Places] /\ pc[a] = "signal" /\ pc'[a] = b
      /\ \A u \in Tasks \cup Outsiders : u # a => pc'[u] = pc[u]
      /\ Counted' /\ OutsidersFit' /\ (kind = "semaphore" => a \in Tasks)
  BY SignalFrame
<1>2. Types'
  BY <1>1 DEF Inv, Types
<1>3. CellsFit'
  <2>. SUFFICES ASSUME NEW u \in Tasks PROVE CellAt(u)'
    BY DEF CellsFit
  <2>1. CellAt(u)
    BY DEF Inv, CellsFit
  <2>2. pc'[u] = pc[u] \/ (pc[u] = "signal" /\ pc'[u] \in {"out", "signal"})
    BY <1>1
  <2>. QED
    BY <2>1, <2>2 DEF CellAt, SelectedPlaces
<1>4. QueuedFresh'
  <2>. SUFFICES ASSUME NEW u \in ToSet(entries) PROVE QueuedAt(u)'
    BY DEF QueuedFresh
  <2>1. u \in Tasks /\ QueuedAt(u)
    BY QueuedOffer
  <2>2. pc'[u] = pc[u]
    BY <1>1, <2>1 DEF QueuedAt
  <2>. QED
    BY <2>1, <2>2 DEF QueuedAt
<1>5. Conserved'
  <2>. SUFFICES ASSUME ~closed PROVE Conserved'
    BY DEF Conserved
  <2>1. CASE b = "out" /\ entries' = <<>> /\ (kind = "semaphore" => available' = available + 1)
    <3>. SUFFICES ASSUME kind = "semaphore"
                  PROVE  IsFiniteSet(Bearers') /\ available' + Cardinality(Bearers') = Permits
      BY <2>1 DEF Conserved
    <3>1. a \in Bearers /\ resource[a] = "none" /\ a \in Tasks
      BY <1>1, SignallerFree
    <3>2. Bearers' = Bearers \ {a}
      BY <1>1, <2>1, <3>1 DEF Bearers
    <3>3. IsFiniteSet(Bearers) /\ available + Cardinality(Bearers) = Permits /\ available \in Nat
      BY DEF Inv, Conserved, Types
    <3>4. IsFiniteSet(Bearers') /\ Cardinality(Bearers') = Cardinality(Bearers) - 1
      BY <3>1, <3>2, <3>3, FS_RemoveElement
    <3>5. Cardinality(Bearers) \in Nat
      BY <3>3, FS_CardinalityType
    <3>. QED
      BY <2>1, <3>3, <3>4, <3>5
  <2>2. CASE b = "signal" /\ available' = available /\ entries # <<>>
    <3>1. Bearers' = Bearers
      BY <1>1, <2>2 DEF Bearers
    <3>. QED
      BY <2>2, <3>1 DEF Conserved, Inv
  <2>. QED
    BY <2>1, <2>2
<1>. QED
  BY <1>1, <1>2, <1>3, <1>4, <1>5 DEF Inv

\* A permit passes from the caller to the front of the line.
LEMMA SignalFront ==
  ASSUME Inv, NEW a \in Tasks \cup Outsiders, Goto(a, "signal", "out"),
         UNCHANGED <<kind, available, closed, closing, outstanding, calls, signals>>,
         ~closed, entries # <<>>, entries' = Tail(entries), offer_resource(Head(entries), "Permit")
  PROVE  Inv'
<1>. DEFINE h == Head(entries)
<1>1. /\ pc' \in [Tasks \cup Outsiders -> Places] /\ pc[a] = "signal" /\ pc'[a] = "out"
      /\ \A u \in Tasks \cup Outsiders : u # a => pc'[u] = pc[u]
      /\ Counted' /\ OutsidersFit' /\ (kind = "semaphore" => a \in Tasks)
  BY SignalFrame
<1>2. Types /\ entries \in LineOf(Tasks)
  BY DEF Inv, Types
<1>3. h \in ToSet(entries) /\ entries' \in LineOf(Tasks) /\ ToSet(entries') = ToSet(entries) \ {h}
  BY <1>2, ServeLine
<1>4. h \in Tasks /\ QueuedAt(h)
  BY <1>3, QueuedOffer
<1>5. h # a
  BY <1>1, <1>4 DEF QueuedAt
<1>6. offer_resource(h, "Permit") /\ "Permit" \in Selections
  BY DEF Selections
<1>. HIDE DEF h
<1>7. /\ phase' \in [Tasks -> Phases] /\ permit' \in [Tasks -> BOOLEAN]
      /\ resource' \in [Tasks -> Selections] /\ shut' = shut
      /\ resource'[h] = "Permit" /\ permit'[h] = (phase[h] = "Idle")
      /\ phase'[h] = IF phase[h] = "Active" THEN "Ready" ELSE phase[h]
      /\ \A u \in Tasks : u # h =>
           phase'[u] = phase[u] /\ permit'[u] = permit[u] /\ resource'[u] = resource[u]
  BY <1>2, <1>4, <1>6, OfferFacts
<1>8. Types'
  BY <1>1, <1>2, <1>3, <1>7 DEF Types
<1>9. CellsFit'
  <2>. SUFFICES ASSUME NEW u \in Tasks PROVE CellAt(u)'
    BY DEF CellsFit
  <2>1. CellAt(u)
    BY DEF Inv, CellsFit
  <2>2. pc'[u] = pc[u] \/ (pc[u] = "signal" /\ pc'[u] \in {"out", "signal"})
    BY <1>1
  <2>3. CASE u = h
    <3>1. pc'[u] = pc[u]
      BY <1>1, <1>5, <2>3
    <3>. QED
      BY <1>4, <1>7, <2>1, <2>3, <3>1 DEF CellAt, SelectedPlaces, QueuedAt
  <2>4. CASE u # h
    <3>1. /\ phase'[u] = phase[u] /\ permit'[u] = permit[u] /\ resource'[u] = resource[u]
          /\ shut'[u] = shut[u]
      BY <1>7, <2>4
    <3>. QED
      BY <2>1, <2>2, <3>1 DEF CellAt, SelectedPlaces
  <2>. QED
    BY <2>3, <2>4
<1>10. QueuedFresh'
  <2>. SUFFICES ASSUME NEW u \in ToSet(entries), u # h PROVE QueuedAt(u)'
    BY <1>3 DEF QueuedFresh
  <2>1. u \in Tasks /\ QueuedAt(u)
    BY QueuedOffer
  <2>2. /\ pc'[u] = pc[u] /\ phase'[u] = phase[u] /\ permit'[u] = permit[u]
        /\ resource'[u] = resource[u] /\ shut'[u] = shut[u]
    BY <1>1, <1>7, <2>1 DEF QueuedAt
  <2>. QED
    BY <2>1, <2>2 DEF QueuedAt
<1>11. Conserved'
  <2>1. available' = 0
    BY DEF Inv, Conserved
  <2>2. ASSUME kind = "semaphore"
        PROVE  IsFiniteSet(Bearers') /\ available' + Cardinality(Bearers') = Permits
    <3>1. a \in Bearers /\ resource[a] = "none" /\ a \in Tasks
      BY <1>1, <2>2, SignallerFree
    <3>2. h \notin Bearers
      BY <1>4 DEF Bearers, QueuedAt
    <3>3. Bearers' = (Bearers \ {a}) \cup {h}
      BY <1>1, <1>4, <1>5, <1>7, <3>1 DEF Bearers
    <3>4. IsFiniteSet(Bearers) /\ available + Cardinality(Bearers) = Permits /\ available \in Nat
      BY <2>2 DEF Inv, Conserved, Types
    <3>5. IsFiniteSet(Bearers \ {a}) /\ Cardinality(Bearers \ {a}) = Cardinality(Bearers) - 1
      BY <3>1, <3>4, FS_RemoveElement
    <3>6. IsFiniteSet(Bearers') /\ Cardinality(Bearers') = Cardinality(Bearers \ {a}) + 1
      BY <3>2, <3>3, <3>5, FS_AddElement
    <3>7. Cardinality(Bearers) \in Nat
      BY <3>4, FS_CardinalityType
    <3>. QED
      BY <3>4, <3>5, <3>6, <3>7
  <2>. QED
    BY <2>1, <2>2 DEF Conserved
<1>. QED
  BY <1>1, <1>8, <1>9, <1>10, <1>11 DEF Inv

\* One round of signal.
LEMMA SignalInv == ASSUME Inv, NEW a \in Tasks \cup Outsiders, signal(a) PROVE Inv'
<1>1. UNCHANGED <<kind, closed, closing, outstanding, calls, signals>>
  BY DEF signal
<1>2. PICK ends \in BOOLEAN : SignalRound(ends) /\ Goto(a, "signal", IF ends THEN "out" ELSE "signal")
  BY DEF signal
<1>. DEFINE b == IF ends THEN "out" ELSE "signal"
<1>3. Types /\ entries \in LineOf(Tasks) /\ available \in Nat /\ available <= Maximum[kind] /\ kind \in Kinds
  BY DEF Inv, Types
<1>4. b \in {"out", "signal"} /\ Goto(a, "signal", b) /\ (ends => b = "out") /\ (~ends => b = "signal")
  BY <1>2
<1>. HIDE DEF b
<1>5. CASE closed /\ ends /\ UNCHANGED <<available, entries, cellVars>>
  <2>1. UNCHANGED <<available, entries, phase, permit, resource, shut>>
    BY <1>5 DEF cellVars
  <2>. QED
    BY <1>1, <1>3, <1>4, <1>5, <2>1, SignalAside
<1>6. CASE ~closed /\ entries = <<>> /\ ends /\ store_permit /\ UNCHANGED <<entries, cellVars>>
  <2>1. UNCHANGED <<entries, phase, permit, resource, shut>>
    BY <1>6 DEF cellVars
  <2>2. available' \in Nat /\ available' <= Maximum[kind]
    BY <1>3, <1>6, MaximumFacts DEF store_permit
  <2>3. kind = "semaphore" => available' = available + 1
    <3>. SUFFICES ASSUME kind = "semaphore" PROVE available < Maximum[kind]
      BY <1>6 DEF store_permit
    <3>1. a \in Tasks /\ pc[a] = "signal"
      <4>1. a \in Outsiders => OutsideAt(a)
        BY DEF Inv, OutsidersFit
      <4>. QED
        BY <1>4, <4>1 DEF Goto, OutsideAt
    <3>2. a \in Bearers
      BY <3>1, SignallerFree
    <3>3. IsFiniteSet(Bearers) /\ available + Cardinality(Bearers) = Permits
      BY <1>6 DEF Inv, Conserved
    <3>4. Cardinality(Bearers) \in Nat /\ Cardinality(Bearers) # 0
      BY <3>2, <3>3, FS_CardinalityType, FS_EmptySet
    <3>. QED
      BY <1>3, <3>3, <3>4, MaximumFacts
  <2>. QED
    BY <1>1, <1>3, <1>4, <1>6, <2>1, <2>2, <2>3, SignalAside
<1>7. CASE /\ ~closed /\ entries # <<>> /\ entries' = Tail(entries) /\ UNCHANGED available
           /\ ends /\ offer_resource(Head(entries), "Permit")
  BY <1>1, <1>4, <1>7, SignalFront
<1>8. CASE /\ ~closed /\ entries # <<>> /\ entries' = Tail(entries) /\ UNCHANGED available
           /\ ~ends /\ UNCHANGED cellVars
  <2>1. UNCHANGED <<phase, permit, resource, shut>>
    BY <1>8 DEF cellVars
  <2>2. entries' \in LineOf(Tasks) /\ ToSet(entries') \subseteq ToSet(entries)
    BY <1>3, <1>8, ServeLine
  <2>. QED
    BY <1>1, <1>3, <1>4, <1>8, <2>1, <2>2, SignalAside
<1>. QED
  BY <1>2, <1>5, <1>6, <1>7, <1>8 DEF SignalRound

\* A notification from outside begins.
LEMMA NotifyInv == ASSUME Inv, NEW o \in Outsiders, notify_one(o) PROVE Inv'
<1>1. /\ UNCHANGED <<kind, available, closed, closing, outstanding, entries, phase, permit, resource, shut, calls>>
      /\ Goto(o, "out", "signal") /\ kind # "semaphore" /\ signals < MaxSignals /\ signals' = signals + 1
  BY DEF notify_one, gateVars, cellVars
<1>2. Types /\ "signal" \in Places /\ o \in Tasks \cup Outsiders
  BY DEF Inv, Places
<1>3. /\ pc' \in [Tasks \cup Outsiders -> Places] /\ pc[o] = "out" /\ pc'[o] = "signal"
      /\ \A u \in Tasks \cup Outsiders : u # o => pc'[u] = pc[u]
  BY <1>1, <1>2, GotoFacts
<1>4. \A u \in Tasks : u \in Tasks \cup Outsiders /\ u # o
  BY TasksInside
<1>5. \A u \in Tasks : pc'[u] = pc[u]
  BY <1>3, <1>4
<1>6. Types'
  <2>1. signals' \in Nat /\ signals' <= MaxSignals
    BY <1>1, <1>2, GateAssumption DEF Types
  <2>. QED
    BY <1>1, <1>2, <1>3, <2>1 DEF Types
<1>7. Counted'
  <2>1. Ticketed' = Ticketed
    BY <1>5 DEF Ticketed
  <2>. QED
    BY <1>1, <2>1 DEF Inv, Counted
<1>8. CellsFit'
  BY <1>1, <1>5 DEF Inv, CellsFit, CellAt
<1>9. QueuedFresh'
  <2>1. \A u \in ToSet(entries) : u \in Tasks /\ QueuedAt(u)
    BY QueuedOffer
  <2>. QED
    BY <1>1, <1>5, <2>1 DEF QueuedFresh, QueuedAt
<1>10. OutsidersFit'
  BY <1>1, <1>3 DEF Inv, OutsidersFit, OutsideAt
<1>11. Conserved'
  BY <1>1 DEF Inv, Conserved
<1>. QED
  BY <1>1, <1>6, <1>7, <1>8, <1>9, <1>10, <1>11 DEF Inv

\* The line emptied in one step, the places untouched: nobody is left in it.
LEMMA Emptied ==
  ASSUME Inv, entries' = <<>>, UNCHANGED <<kind, outstanding, pc>>
  PROVE  Counted' /\ OutsidersFit' /\ QueuedFresh' /\ entries' \in LineOf(Tasks)
<1>1. entries' \in LineOf(Tasks) /\ ToSet(entries') = {}
  BY NobodyInLine
<1>2. Ticketed' = Ticketed
  BY DEF Ticketed
<1>. QED
  BY <1>1, <1>2 DEF Inv, Counted, OutsidersFit, OutsideAt, QueuedFresh

\* A broadcast serves everybody in line.
LEMMA BroadcastInv == ASSUME Inv, broadcast PROVE Inv'
<1>. DEFINE woken == {t \in ToSet(entries) : offerable(t)}
<1>1. /\ kind # "semaphore" /\ signals < MaxSignals /\ entries' = <<>> /\ signals' = signals + 1
      /\ resource' = [t \in Tasks |-> IF t \in woken THEN "Broadcast" ELSE resource[t]]
      /\ permit' = [t \in Tasks |-> IF t \in woken THEN phase[t] = "Idle" ELSE permit[t]]
      /\ phase' = [t \in Tasks |-> IF t \in woken /\ phase[t] = "Active" THEN "Ready" ELSE phase[t]]
      /\ UNCHANGED <<kind, available, closed, closing, outstanding, pc, shut, calls>>
  BY DEF broadcast
<1>2. \A t \in woken : t \in Tasks /\ QueuedAt(t)
  BY QueuedOffer
<1>. HIDE DEF woken
<1>3. Types
  BY DEF Inv
<1>4. Counted' /\ OutsidersFit' /\ QueuedFresh' /\ entries' \in LineOf(Tasks)
  BY <1>1, Emptied
<1>5. Types'
  <2>1. /\ resource' \in [Tasks -> Selections] /\ permit' \in [Tasks -> BOOLEAN] /\ phase' \in [Tasks -> Phases]
    BY <1>1, <1>3 DEF Types, Selections, Phases
  <2>2. signals' \in Nat /\ signals' <= MaxSignals
    BY <1>1, <1>3, GateAssumption DEF Types
  <2>. QED
    BY <1>1, <1>3, <1>4, <2>1, <2>2 DEF Types
<1>6. CellsFit'
  <2>. SUFFICES ASSUME NEW u \in Tasks PROVE CellAt(u)'
    BY DEF CellsFit
  <2>1. CellAt(u)
    BY DEF Inv, CellsFit
  <2>2. CASE u \in woken
    <3>1. QueuedAt(u) /\ resource'[u] = "Broadcast"
          /\ phase'[u] = IF phase[u] = "Active" THEN "Ready" ELSE phase[u]
      BY <1>1, <1>2, <2>2
    <3>. QED
      BY <1>1, <2>1, <3>1 DEF CellAt, QueuedAt, SelectedPlaces
  <2>3. CASE u \notin woken
    <3>1. resource'[u] = resource[u] /\ phase'[u] = phase[u] /\ permit'[u] = permit[u]
      BY <1>1, <1>3, <2>3 DEF Types
    <3>. QED
      BY <1>1, <2>1, <3>1 DEF CellAt
  <2>. QED
    BY <2>2, <2>3
<1>7. Conserved'
  BY <1>1 DEF Conserved
<1>. QED
  BY <1>1, <1>4, <1>5, <1>6, <1>7 DEF Inv

\* close sets the flag.
LEMMA CloseFlagInv == ASSUME Inv, close_flag PROVE Inv'
<1>1. /\ closed' = TRUE /\ closing' = TRUE
      /\ UNCHANGED <<kind, available, outstanding, entries, pc, phase, permit, resource, shut, calls, signals>>
  BY DEF close_flag, cellVars
<1>2. Types' /\ Counted' /\ OutsidersFit'
  BY <1>1 DEF Inv, Types, Counted, Ticketed, OutsidersFit, OutsideAt
<1>3. QueuedFresh' /\ CellsFit'
  BY <1>1 DEF Inv, QueuedFresh, QueuedAt, CellsFit, CellAt
<1>. QED
  BY <1>1, <1>2, <1>3 DEF Inv, Conserved

\* close drains the line.
LEMMA CloseDrainInv == ASSUME Inv, close_drain PROVE Inv'
<1>1. /\ closing /\ closing' = FALSE /\ available' = 0 /\ entries' = <<>>
      /\ shut' = [t \in Tasks |-> shut[t] \/ Contains(entries, t)]
      /\ permit' = [t \in Tasks |-> permit[t] /\ ~Contains(entries, t)]
      /\ phase' = [t \in Tasks |->
                     IF Contains(entries, t) /\ phase[t] = "Active" THEN "Closed" ELSE phase[t]]
      /\ UNCHANGED <<kind, closed, outstanding, pc, resource, calls, signals>>
  BY DEF close_drain
<1>2. Types /\ closed
  BY <1>1 DEF Inv
<1>3. \A t : Contains(entries, t) <=> t \in ToSet(entries)
  BY InLine DEF Inv, Types
<1>4. Counted' /\ OutsidersFit' /\ QueuedFresh' /\ entries' \in LineOf(Tasks)
  BY <1>1, Emptied
<1>5. Types'
  <2>1. /\ shut' \in [Tasks -> BOOLEAN] /\ permit' \in [Tasks -> BOOLEAN] /\ phase' \in [Tasks -> Phases]
    BY <1>1, <1>2 DEF Types, Phases
  <2>2. available' \in Nat /\ available' <= Maximum[kind]
    BY <1>1, <1>2, MaximumFacts DEF Types
  <2>. QED
    BY <1>1, <1>2, <1>4, <2>1, <2>2 DEF Types
<1>6. CellsFit'
  <2>. SUFFICES ASSUME NEW u \in Tasks PROVE CellAt(u)'
    BY DEF CellsFit
  <2>1. CellAt(u) /\ (u \in ToSet(entries) => QueuedAt(u))
    BY DEF Inv, CellsFit, QueuedFresh
  <2>2. /\ shut'[u] = (shut[u] \/ u \in ToSet(entries))
        /\ permit'[u] = (permit[u] /\ u \notin ToSet(entries))
        /\ phase'[u] = IF u \in ToSet(entries) /\ phase[u] = "Active" THEN "Closed" ELSE phase[u]
    BY <1>1, <1>3
  <2>3. CASE u \in ToSet(entries)
    <3>1. QueuedAt(u)
      BY <2>1, <2>3
    <3>. QED
      BY <1>1, <1>2, <2>1, <2>2, <2>3, <3>1 DEF CellAt, QueuedAt, SelectedPlaces
  <2>4. CASE u \notin ToSet(entries)
    BY <1>1, <1>2, <2>1, <2>2, <2>4 DEF CellAt
  <2>. QED
    BY <2>3, <2>4
<1>. QED
  BY <1>1, <1>2, <1>4, <1>5, <1>6 DEF Inv, Conserved

-----------------------------------------------------------------------------
(* The theorems. *)

\* What a gate may see: its own steps, and the entry of a condition variable's
\* wait.
GateStep == Next \/ \E t \in Tasks : Entering(t)

\* The gate starts with its permits and nobody in it.
LEMMA InitInv == Init => Inv
<1>. SUFFICES ASSUME Init PROVE Inv
  OBVIOUS
<1>1. /\ kind \in Kinds /\ available = Initially[kind] /\ entries = <<>> /\ outstanding = 0
      /\ closed = FALSE /\ closing = FALSE
  BY DEF Init
<1>2. <<>> \in LineOf(Tasks) /\ ToSet(<<>>) = {}
  BY NobodyInLine
<1>3. Types
  <2>1. available \in Nat /\ available <= Maximum[kind]
    BY <1>1, MaximumFacts
  <2>2. pc \in [Tasks \cup Outsiders -> Places]
    BY DEF Init, Places
  <2>3. /\ phase \in [Tasks -> Phases] /\ permit \in [Tasks -> BOOLEAN]
        /\ resource \in [Tasks -> Selections] /\ shut \in [Tasks -> BOOLEAN]
    BY DEF Init, Phases, Selections
  <2>4. /\ calls \in [Tasks -> Nat] /\ \A t \in Tasks : calls[t] <= MaxCalls[t]
        /\ signals \in Nat /\ signals <= MaxSignals
    BY GateAssumption DEF Init
  <2>. QED
    BY <1>1, <1>2, <2>1, <2>2, <2>3, <2>4 DEF Types
<1>4. \A u \in Tasks \cup Outsiders : pc[u] = "out"
  BY DEF Init
<1>5. Counted
  <2>1. Ticketed = {}
    BY <1>4 DEF Ticketed, TicketPlaces
  <2>. QED
    BY <1>1, <2>1, FS_EmptySet, GateAssumption DEF Counted
<1>6. QueuedFresh
  BY <1>1, <1>2 DEF QueuedFresh
<1>7. CellsFit
  BY <1>4 DEF Init, CellsFit, CellAt
<1>8. OutsidersFit
  BY <1>4 DEF OutsidersFit, OutsideAt
<1>9. Conserved
  <2>1. Bearers = {}
    BY <1>4 DEF Init, Bearers
  <2>2. kind = "semaphore" => available + 0 = Permits
    BY <1>1, MaximumFacts, GateAssumption
  <2>. QED
    BY <1>1, <2>1, <2>2, FS_EmptySet DEF Conserved
<1>. QED
  BY <1>1, <1>3, <1>5, <1>6, <1>7, <1>8, <1>9 DEF Inv

\* Every step of the gate keeps the invariant.
LEMMA StepInv == Inv /\ [GateStep]_vars => Inv'
<1>. SUFFICES ASSUME Inv, [GateStep]_vars PROVE Inv'
  OBVIOUS
<1>1. CASE UNCHANGED vars
  <2>1. UNCHANGED <<kind, available, closed, closing, outstanding, entries, pc, phase, permit, resource, shut,
                    calls, signals>>
    BY <1>1 DEF vars, gateVars, cellVars
  <2>2. Types' /\ Counted' /\ OutsidersFit'
    BY <2>1 DEF Inv, Types, Counted, Ticketed, OutsidersFit, OutsideAt
  <2>3. QueuedFresh' /\ CellsFit'
    BY <2>1 DEF Inv, QueuedFresh, QueuedAt, CellsFit, CellAt
  <2>4. Conserved'
    BY <2>1 DEF Inv, Conserved, Bearers
  <2>. QED
    BY <2>1, <2>2, <2>3, <2>4 DEF Inv
<1>2. ASSUME NEW t \in Tasks, Proceed(t)
      PROVE  Inv'
  <2>1. CASE try_closed(t) \/ try_take(t) \/ try_empty(t) \/ reserve(t) \/ subscribe(t)
    BY <2>1, LooksInv, TryTakeInv, ReserveInv, SubscribeInv
  <2>2. CASE begin_resident(t) \/ finish(t) \/ resume(t) \/ complete(t)
    BY <2>2, BeginInv, WokenInv, ResumeInv, CompleteInv
  <2>3. CASE drop_ticket(t) \/ drop_release(t) \/ drop_permit(t) \/ signal(t)
    BY <2>3, DropTicketInv, DropReleaseInv, DropPermitInv, SignalInv
  <2>. QED
    BY <1>2, <2>1, <2>2, <2>3 DEF Proceed
<1>3. ASSUME NEW t \in Tasks, call(t) \/ select_cancelled(t) \/ rollback(t) \/ Entering(t)
      PROVE  Inv'
  BY <1>3, CallInv, CancelledInv, WokenInv, LooksInv
<1>4. CASE Others
  BY <1>4, NotifyInv, SignalInv, BroadcastInv, CloseFlagInv, CloseDrainInv DEF Others
<1>. QED
  BY <1>1, <1>2, <1>3, <1>4 DEF GateStep, Next, TaskStep

\* A condition variable takes the steps of its gate.
LEMMA CondvarSteps == [CondvarNext]_allVars => [GateStep]_vars
<1>. SUFFICES ASSUME CondvarNext PROVE GateStep \/ UNCHANGED vars
  BY DEF allVars
<1>1. Waiters \subseteq Tasks
  BY GateAssumption DEF Waiters, Kinds
<1>2. ASSUME NEW t \in Waiters, lock(t) \/ lock_refused(t) \/ drop_guard(t)
      PROVE  UNCHANGED vars
  BY <1>2 DEF lock, lock_refused, drop_guard
<1>3. ASSUME NEW t \in Waiters, look(t)
      PROVE  GateStep \/ UNCHANGED vars
  <2>1. CASE ready
    BY <1>3, <2>1 DEF look, vars
  <2>2. CASE ~ready
    <3>1. Entering(t)
      BY <1>3, <2>2 DEF look, Entering
    <3>. QED
      BY <1>1, <3>1 DEF GateStep
  <2>. QED
    BY <2>1, <2>2
<1>4. ASSUME NEW t \in Waiters, wait(t)
      PROVE  GateStep
  <2>1. TaskStep(t)
    BY <1>4 DEF wait, TaskStep
  <2>. QED
    BY <1>1, <2>1 DEF GateStep, Next
<1>5. CASE change \/ unlock
  BY <1>5 DEF change, unlock
<1>6. CASE notify_all \/ stray
  <2>1. Others
    BY <1>6 DEF notify_all, stray, Others
  <2>. QED
    BY <2>1 DEF GateStep, Next
<1>. QED
  BY <1>2, <1>3, <1>4, <1>5, <1>6 DEF CondvarNext, TaskProgress

\* Every reachable state of a gate satisfies the inductive invariant.
THEOREM GateInvariance == Spec => []Inv
<1>1. [Next]_vars => [GateStep]_vars
  BY DEF GateStep
<1>. QED
  BY InitInv, StepInv, <1>1, PTL DEF Spec

\* So does every reachable state below a condition variable.
THEOREM CondvarInvariance == CondvarSpec => []Inv
<1>1. CondvarInit => Inv
  BY InitInv DEF CondvarInit
<1>. QED
  BY <1>1, StepInv, CondvarSteps, PTL DEF CondvarSpec

\* No permit is lost or made up, and none is stored beside a queued waiter
\* (try_take, subscribe, signal and the Drop of Ticket, gate.rs).
LEMMA InvConserved == Inv => PermitsConserved
BY DEF Inv, Conserved, PermitsConserved

\* The permits of a semaphore are conserved, whoever is granted one while it is
\* about to park, parked, cancelled or unwinding (offer, abandoned).
THEOREM PermitsStayConserved == Spec => []PermitsConserved
BY GateInvariance, InvConserved, PTL

\* No permit is stored beside a condition variable's waiter.
THEOREM CondvarConserved == CondvarSpec => []PermitsConserved
BY CondvarInvariance, InvConserved, PTL

-----------------------------------------------------------------------------
(* The order of service *)

\* What ServedInOrder says of one step.
LeavesInOrder ==
  \A i \in DOMAIN entries : LET t == entries[i] IN
    ~Contains(entries', t) =>
      \/ /\ resource'[t] # "none"
         /\ \A k \in 1..(i - 1) : ~Contains(entries', entries[k])
      \/ phase[t] = "Other" \/ pc[t] = "drop"
      \/ closed

\* Nobody leaves a line that only grows.
LEMMA NobodyLeaves ==
  ASSUME Inv, entries' \in LineOf(Tasks), ToSet(entries) \subseteq ToSet(entries')
  PROVE  LeavesInOrder
<1>1. \A x : Contains(entries', x) <=> x \in ToSet(entries')
  BY InLine
<1>2. \A i \in DOMAIN entries : entries[i] \in ToSet(entries)
  BY InLine DEF Inv, Types
<1>. QED
  BY <1>1, <1>2 DEF LeavesInOrder

\* A dropped ticket is the only one to leave.
LEMMA DropOrder ==
  ASSUME Inv, NEW t \in Tasks, drop_ticket(t)
  PROVE  LeavesInOrder
<1>1. entries \in LineOf(Tasks) /\ pc[t] = "drop"
  BY DEF Inv, Types, drop_ticket, Goto
<1>2. CASE ~Contains(entries, t) /\ UNCHANGED entries
  BY <1>1, <1>2, NobodyLeaves
<1>3. CASE Contains(entries, t) /\ entries' = RemoveFirst(entries, t)
  <2>1. t \in ToSet(entries)
    BY <1>1, <1>3, InLine
  <2>2. entries' \in LineOf(Tasks) /\ ToSet(entries') = ToSet(entries) \ {t}
    BY <1>1, <1>3, <2>1, LeaveLine
  <2>3. \A x : Contains(entries', x) <=> x \in ToSet(entries) /\ x # t
    BY <2>2, InLine
  <2>4. \A i \in DOMAIN entries : entries[i] \in ToSet(entries)
    BY <1>1, InLine
  <2>. QED
    BY <1>1, <2>3, <2>4 DEF LeavesInOrder
<1>. QED
  BY <1>2, <1>3 DEF drop_ticket

\* A signal serves the front, or passes over a cancelled one.
LEMMA SignalOrder ==
  ASSUME Inv, NEW a, signal(a)
  PROVE  LeavesInOrder
<1>1. entries \in LineOf(Tasks)
  BY DEF Inv, Types
<1>2. PICK ends \in BOOLEAN : SignalRound(ends)
  BY DEF signal
<1>3. CASE UNCHANGED entries
  BY <1>1, <1>3, NobodyLeaves
<1>4. CASE /\ ~closed /\ entries # <<>> /\ ends = offerable(Head(entries)) /\ entries' = Tail(entries)
           /\ IF ends THEN offer_resource(Head(entries), "Permit") ELSE UNCHANGED cellVars
  <2>1. /\ Head(entries) \in ToSet(entries) /\ Head(entries) = entries[1] /\ Tail(entries) \in LineOf(Tasks)
        /\ ToSet(Tail(entries)) = ToSet(entries) \ {Head(entries)}
    BY <1>1, <1>4, ServeLine
  <2>2. Head(entries) \in Tasks /\ (offerable(Head(entries)) \/ phase[Head(entries)] = "Other")
    BY <2>1, QueuedOffer
  <2>3. offerable(Head(entries)) => resource'[Head(entries)] = "Permit"
    <3>1. resource \in [Tasks -> Selections]
      BY DEF Inv, Types
    <3>. QED
      BY <1>4, <2>2, <3>1 DEF offer_resource
  <2>4. \A x : Contains(entries', x) <=> x \in ToSet(entries) /\ x # Head(entries)
    BY <1>4, <2>1, InLine
  <2>5. /\ DOMAIN entries = 1..Len(entries) /\ Len(entries) \in Nat
        /\ \A i \in DOMAIN entries : entries[i] \in ToSet(entries)
        /\ \A i \in DOMAIN entries : entries[i] = entries[1] => i = 1
    BY <1>1, InLine
  <2>. SUFFICES ASSUME NEW i \in DOMAIN entries, ~Contains(entries', entries[i])
                PROVE  \/ /\ resource'[entries[i]] # "none"
                          /\ \A k \in 1..(i - 1) : ~Contains(entries', entries[k])
                       \/ phase[entries[i]] = "Other"
    BY DEF LeavesInOrder
  <2>6. entries[i] = Head(entries) /\ i = 1
    BY <2>1, <2>4, <2>5
  <2>7. \A k \in 1..(i - 1) : FALSE
    BY <2>6
  <2>. QED
    BY <2>2, <2>3, <2>6, <2>7
<1>. QED
  BY <1>2, <1>3, <1>4 DEF SignalRound

\* A broadcast serves everybody but the cancelled.
LEMMA BroadcastOrder ==
  ASSUME Inv, broadcast
  PROVE  LeavesInOrder
<1>1. entries \in LineOf(Tasks) /\ entries' = <<>>
  BY DEF Inv, Types, broadcast
<1>2. \A x : ~Contains(entries', x)
  BY <1>1, InLine, NobodyInLine
<1>3. \A t \in ToSet(entries) : offerable(t) => resource'[t] = "Broadcast"
  BY QueuedOffer DEF broadcast
<1>4. \A t \in ToSet(entries) : offerable(t) \/ phase[t] = "Other"
  BY QueuedOffer
<1>5. \A i \in DOMAIN entries : entries[i] \in ToSet(entries)
  BY <1>1, InLine
<1>. QED
  BY <1>2, <1>3, <1>4, <1>5 DEF LeavesInOrder

\* Every step of a gate serves its line in order.
LEMMA StepOrder == Inv /\ [GateStep]_vars => [LeavesInOrder]_vars
<1>. SUFFICES ASSUME Inv, GateStep PROVE LeavesInOrder
  BY DEF vars
<1>0. entries \in LineOf(Tasks)
  BY DEF Inv, Types
<1>1. ASSUME UNCHANGED entries
      PROVE  LeavesInOrder
  BY <1>0, <1>1, NobodyLeaves
<1>2. ASSUME NEW t \in Tasks, subscribe(t)
      PROVE  LeavesInOrder
  <2>1. CASE entries' = entries
    BY <1>1, <2>1
  <2>2. CASE entries' = Append(entries, t) /\ pc[t] = "reserved"
    <3>1. t \notin ToSet(entries)
      BY <2>2 DEF Inv, QueuedFresh, QueuedAt
    <3>2. entries' \in LineOf(Tasks) /\ ToSet(entries') = ToSet(entries) \cup {t}
      BY <1>0, <2>2, <3>1, JoinLine
    <3>. QED
      BY <3>2, NobodyLeaves
  <2>. QED
    BY <1>2, <2>1, <2>2 DEF subscribe, Goto
<1>3. ASSUME NEW t \in Tasks, TaskStep(t)
      PROVE  LeavesInOrder
  <2>1. CASE call(t) \/ try_closed(t) \/ try_take(t) \/ try_empty(t) \/ reserve(t)
    BY <1>1, <2>1 DEF call, try_closed, try_take, try_empty, reserve, gateVars
  <2>2. CASE begin_resident(t) \/ finish(t) \/ resume(t) \/ complete(t) \/ select_cancelled(t) \/ rollback(t)
    BY <1>1, <2>2 DEF begin_resident, finish, resume, complete, select_cancelled, rollback, gateVars
  <2>3. CASE drop_release(t) \/ drop_permit(t)
    BY <1>1, <2>3 DEF drop_release, drop_permit, gateVars
  <2>. QED
    BY <1>2, <1>3, <2>1, <2>2, <2>3, DropOrder, SignalOrder DEF TaskStep, Proceed
<1>4. CASE Others
  <2>1. ASSUME NEW o \in Outsiders, notify_one(o)
        PROVE  LeavesInOrder
    BY <1>1, <2>1 DEF notify_one, gateVars
  <2>2. CASE close_flag
    BY <1>1, <2>2 DEF close_flag
  <2>3. CASE close_drain
    BY <2>3 DEF close_drain, LeavesInOrder, Inv
  <2>. QED
    BY <1>4, <2>1, <2>2, <2>3, SignalOrder, BroadcastOrder DEF Others
<1>5. ASSUME NEW t \in Tasks, Entering(t)
      PROVE  LeavesInOrder
  BY <1>1, <1>5 DEF Entering, gateVars
<1>. QED
  BY <1>3, <1>4, <1>5 DEF GateStep, Next

\* A waiter leaves the line of an open gate selected with everybody before it,
\* or because it has given up (signal, broadcast, the Drop of Ticket).
THEOREM GateServesInOrder == Spec => ServedInOrder
<1>1. [Next]_vars => [GateStep]_vars
  BY DEF GateStep
<1>2. Inv /\ [Next]_vars => [LeavesInOrder]_vars
  BY <1>1, StepOrder
<1>3. Spec => [][LeavesInOrder]_vars
  BY GateInvariance, <1>2, PTL DEF Spec
<1>. QED
  BY <1>3 DEF ServedInOrder, LeavesInOrder

\* The same of the line of a condition variable.
THEOREM CondvarServesInOrder == CondvarSpec => ServedInOrder
<1>1. Inv /\ [CondvarNext]_allVars => [LeavesInOrder]_vars
  BY CondvarSteps, StepOrder
<1>2. CondvarSpec => [][LeavesInOrder]_vars
  BY CondvarInvariance, <1>1, PTL DEF CondvarSpec
<1>. QED
  BY <1>2 DEF ServedInOrder, LeavesInOrder
=============================================================================
