--------------------------- MODULE ServicesProofs ---------------------------
(***************************************************************************)
(* The services beside the carriers, for every set of readers, callers,    *)
(* workers and runtimes and every capacity: what the reactor and the       *)
(* blocking pool own is charged and given back, and a runtime that is      *)
(* reported complete is complete.  Last, the carrier's thread, which never *)
(* sleeps over what another thread left for it.                            *)
(***************************************************************************)
EXTENDS Services, CarrierThread, LineLemmas, FiniteSetTheorems

-----------------------------------------------------------------------------
(* The reactor *)

\* A key names a registration of a reader.
Keys == Nat \X Readers
OpRec == [pc : {"try", "register", "wake", "parked", "leave", "returned"},
          winner : {"none", "ready", "cancelled", "stopped"}, calls : Nat]
DriverRec == [pc : {"sync", "wait", "events", "exit"}, installed : SUBSET Keys,
              events : SUBSET Keys, taken : SUBSET Keys]

ReactorTypes ==
  /\ waits \subseteq Keys /\ closing \subseteq Keys /\ closed \in BOOLEAN
  /\ driver \in DriverRec /\ op \in [Readers -> OpRec]

\* Entries are those of open waits, within the capacity.
Registered(e) == op[e[2]].calls = e[1] /\ op[e[2]].pc \in {"wake", "parked", "leave"}
ReactorInv ==
  /\ ReactorTypes
  /\ \A e \in waits : Registered(e)
  /\ closed => waits = {}
  /\ IsFiniteSet(waits) /\ Cardinality(waits) <= IoCapacity

\* The sizes that the reactor speaks of.
LEMMA ReactorSizes == \A S : Reactor!Cardinality(S) = Cardinality(S)
BY DEF Reactor!Cardinality, Cardinality

\* The key of a reader.
LEMMA KeyFacts ==
  ASSUME ReactorTypes
  PROVE  /\ \A t \in Readers : /\ Reactor!Key(t) \in Keys /\ Reactor!Key(t)[2] = t
                               /\ Reactor!Key(t)[1] = op[t].calls
         /\ \A e \in Keys : e[1] \in Nat /\ e[2] \in Readers /\ e = <<e[1], e[2]>>
         /\ \A e \in Keys : e = Reactor!Key(e[2]) <=> op[e[2]].calls = e[1]
<1>1. \A t \in Readers : Reactor!Key(t) = <<op[t].calls, t>> /\ op[t].calls \in Nat
  BY DEF ReactorTypes, OpRec, Reactor!Key
<1>2. \A e \in Keys : e[1] \in Nat /\ e[2] \in Readers /\ e = <<e[1], e[2]>>
  BY DEF Keys
<1>3. \A t \in Readers : /\ Reactor!Key(t) \in Keys /\ Reactor!Key(t)[2] = t
                         /\ Reactor!Key(t)[1] = op[t].calls
  BY <1>1 DEF Keys
<1>4. \A e \in Keys : e = Reactor!Key(e[2]) <=> op[e[2]].calls = e[1]
  BY <1>1, <1>2
<1>. QED
  BY <1>2, <1>3, <1>4

\* A step that takes entries away at most, and ends no wait whose entry stays.
LEMMA FewerEntries ==
  ASSUME Reactor!ReadinessAssumption, ReactorInv, ReactorTypes', waits' \subseteq waits, closed' => waits' = {},
         \A e \in waits' : Registered(e)'
  PROVE  ReactorInv'
<1>1. IsFiniteSet(waits) /\ Cardinality(waits) <= IoCapacity
  BY DEF ReactorInv
<1>2. IsFiniteSet(waits') /\ Cardinality(waits') <= Cardinality(waits)
  BY <1>1, FS_Subset
<1>3. Cardinality(waits') \in Nat /\ Cardinality(waits) \in Nat
  BY <1>1, <1>2, FS_CardinalityType
<1>. QED
  BY <1>1, <1>2, <1>3 DEF ReactorInv, Reactor!ReadinessAssumption

\* A selection changes no more than a winner.
LEMMA SelectedFacts ==
  ASSUME ReactorTypes, NEW e \in Keys, NEW cause \in {"ready", "stopped"}, op' = Reactor!Selected(e, cause)
  PROVE  /\ op' \in [Readers -> OpRec]
         /\ \A t \in Readers : op'[t].pc = op[t].pc /\ op'[t].calls = op[t].calls
<1>. DEFINE t == e[2]
<1>1. t \in Readers
  BY KeyFacts
<1>. HIDE DEF t
<1>2. op' = op \/ op' = [op EXCEPT ![t].winner = cause]
  BY DEF Reactor!Selected, t
<1>. QED
  BY <1>1, <1>2 DEF ReactorTypes, OpRec

\* A step of reader t between places, with the reactor as it is: t may only
\* move inside its wait once it has an entry.
LEMMA ReaderMoves ==
  ASSUME Reactor!ReadinessAssumption, ReactorInv, NEW t \in Readers, op' \in [Readers -> OpRec],
         UNCHANGED <<waits, closed, closing, driver>>,
         \A u \in Readers : u # t => op'[u] = op[u],
         \/ op[t].pc \in {"try", "register", "returned"}
         \/ op'[t].pc \in {"wake", "parked", "leave"} /\ op'[t].calls = op[t].calls
  PROVE  ReactorInv'
<1>1. ReactorTypes'
  BY DEF ReactorInv, ReactorTypes
<1>2. \A e \in waits : e \in Keys /\ Registered(e)
  BY DEF ReactorInv, ReactorTypes
<1>3. \A e \in waits : Registered(e)'
  <2>. SUFFICES ASSUME NEW e \in waits PROVE Registered(e)'
    OBVIOUS
  <2>1. e[2] \in Readers
    BY <1>2, KeyFacts DEF ReactorInv
  <2>. QED
    BY <1>2, <2>1 DEF Registered
<1>. QED
  BY <1>1, <1>3, FewerEntries DEF ReactorInv

\* Calls, attempts, resumptions and cancellations of a reader.
LEMMA ReaderInv ==
  ASSUME Reactor!ReadinessAssumption, ReactorInv, NEW t \in Readers,
         \/ Reactor!arrive(t) \/ Reactor!call(t) \/ Reactor!operation(t)
         \/ Reactor!interrupt(t) \/ Reactor!resume(t)
  PROVE  ReactorInv'
<1>1. UNCHANGED <<waits, closed, closing, driver>>
  BY DEF Reactor!arrive, Reactor!call, Reactor!operation, Reactor!interrupt, Reactor!resume, Reactor!reactor
<1>2. op \in [Readers -> OpRec]
  BY DEF ReactorInv, ReactorTypes
<1>3. CASE Reactor!arrive(t)
  <2>1. op' = op
    BY <1>3 DEF Reactor!arrive
  <2>2. ReactorTypes' /\ \A e \in waits' : Registered(e)'
    BY <1>1, <2>1 DEF ReactorInv, ReactorTypes, Registered
  <2>. QED
    BY <1>1, <2>2, FewerEntries DEF ReactorInv
<1>4. CASE Reactor!call(t)
  <2>1. op' = [op EXCEPT ![t].pc = "try", ![t].calls = @ + 1] /\ op[t].pc = "returned"
    BY <1>4 DEF Reactor!call
  <2>2. op' \in [Readers -> OpRec] /\ \A u \in Readers : u # t => op'[u] = op[u]
    BY <1>2, <2>1 DEF OpRec
  <2>. QED
    BY <1>1, <2>1, <2>2, ReaderMoves
<1>5. CASE Reactor!operation(t)
  <2>1. PICK pc \in {"returned", "register"} : op' = [op EXCEPT ![t].pc = pc] /\ op[t].pc = "try"
    BY <1>5 DEF Reactor!operation, Reactor!Go
  <2>2. op' \in [Readers -> OpRec] /\ \A u \in Readers : u # t => op'[u] = op[u]
    BY <1>2, <2>1 DEF OpRec
  <2>. QED
    BY <1>1, <2>1, <2>2, ReaderMoves
<1>6. CASE Reactor!interrupt(t)
  <2>1. op' = [op EXCEPT ![t].winner = "cancelled"] /\ op[t].pc = "parked"
    BY <1>6 DEF Reactor!interrupt
  <2>2. op' \in [Readers -> OpRec] /\ \A u \in Readers : u # t => op'[u] = op[u]
    BY <1>2, <2>1 DEF OpRec
  <2>3. op'[t].pc = "parked" /\ op'[t].calls = op[t].calls
    BY <1>2, <2>1 DEF OpRec
  <2>. QED
    BY <1>1, <2>2, <2>3, ReaderMoves
<1>7. CASE Reactor!resume(t)
  <2>1. op' = [op EXCEPT ![t].pc = "leave"] /\ op[t].pc = "parked"
    BY <1>7 DEF Reactor!resume, Reactor!Go
  <2>2. op' \in [Readers -> OpRec] /\ \A u \in Readers : u # t => op'[u] = op[u]
    BY <1>2, <2>1 DEF OpRec
  <2>3. op'[t].pc = "leave" /\ op'[t].calls = op[t].calls
    BY <1>2, <2>1 DEF OpRec
  <2>. QED
    BY <1>1, <2>2, <2>3, ReaderMoves
<1>. QED
  BY <1>3, <1>4, <1>5, <1>6, <1>7

\* A registration takes a free place, or is refused.
LEMMA RegisterInv ==
  ASSUME Reactor!ReadinessAssumption, ReactorInv, NEW t \in Readers, Reactor!register(t)
  PROVE  ReactorInv'
<1>1. op[t].pc = "register" /\ UNCHANGED <<closed, closing, driver>>
  BY DEF Reactor!register
<1>2. op \in [Readers -> OpRec] /\ ReactorTypes
  BY DEF ReactorInv, ReactorTypes
<1>3. CASE op' = [op EXCEPT ![t].pc = "returned"] /\ UNCHANGED waits
  <2>1. op' \in [Readers -> OpRec] /\ \A u \in Readers : u # t => op'[u] = op[u]
    BY <1>2, <1>3 DEF OpRec
  <2>. QED
    BY <1>1, <1>3, <2>1, ReaderMoves
<1>4. CASE /\ ~closed /\ Cardinality(waits) < IoCapacity /\ waits' = waits \cup {Reactor!Key(t)}
           /\ op' = [op EXCEPT ![t].pc = "wake"]
  <2>. DEFINE k == Reactor!Key(t)
  <2>1. k \in Keys /\ k[2] = t /\ k[1] = op[t].calls
    BY <1>2, KeyFacts
  <2>2. waits' = waits \cup {k}
    BY <1>4
  <2>. HIDE DEF k
  <2>3. /\ op' \in [Readers -> OpRec] /\ \A u \in Readers : u # t => op'[u] = op[u]
        /\ op'[t].pc = "wake" /\ op'[t].calls = op[t].calls
    BY <1>2, <1>4 DEF OpRec
  <2>4. ReactorTypes'
    BY <1>1, <1>2, <2>1, <2>2, <2>3 DEF ReactorTypes
  <2>5. \A e \in waits : e \in Keys /\ Registered(e) /\ e[2] \in Readers /\ e[2] # t
    <3>1. \A e \in waits : e \in Keys /\ Registered(e)
      BY DEF ReactorInv, ReactorTypes
    <3>. QED
      BY <1>1, <1>2, <3>1, KeyFacts DEF Registered
  <2>6. \A e \in waits' : Registered(e)'
    BY <2>1, <2>2, <2>3, <2>5 DEF Registered
  <2>7. k \notin waits
    BY <2>1, <2>5
  <2>8. IsFiniteSet(waits') /\ Cardinality(waits') = Cardinality(waits) + 1 /\ Cardinality(waits) \in Nat
    <3>1. IsFiniteSet(waits)
      BY DEF ReactorInv
    <3>. QED
      BY <2>2, <2>7, <3>1, FS_AddElement, FS_CardinalityType
  <2>. QED
    BY <1>1, <1>4, <2>4, <2>6, <2>8 DEF ReactorInv, Reactor!ReadinessAssumption
<1>. QED
  BY <1>3, <1>4, ReactorSizes DEF Reactor!register, Reactor!Go

\* A reader in its wait goes on to park; or closing the reactor takes every entry.
LEMMA WakeInv ==
  ASSUME Reactor!ReadinessAssumption, ReactorInv, NEW t \in Readers, Reactor!wake(t)
  PROVE  ReactorInv'
<1>1. op[t].pc = "wake" /\ UNCHANGED driver
  BY DEF Reactor!wake
<1>2. op \in [Readers -> OpRec] /\ ReactorTypes
  BY DEF ReactorInv, ReactorTypes
<1>3. CASE op' = [op EXCEPT ![t].pc = "parked"] /\ UNCHANGED Reactor!reactor
  <2>1. /\ op' \in [Readers -> OpRec] /\ \A u \in Readers : u # t => op'[u] = op[u]
        /\ op'[t].pc = "parked" /\ op'[t].calls = op[t].calls
    BY <1>2, <1>3 DEF OpRec
  <2>2. UNCHANGED <<waits, closed, closing, driver>>
    BY <1>1, <1>3 DEF Reactor!reactor
  <2>. QED
    BY <2>1, <2>2, ReaderMoves
<1>4. CASE op' = [op EXCEPT ![t].pc = "leave"] /\ Reactor!Close(waits)
  <2>1. op' \in [Readers -> OpRec]
    BY <1>2, <1>4 DEF OpRec
  <2>2. ReactorTypes' /\ waits' = {}
    BY <1>1, <1>2, <1>4, <2>1 DEF ReactorTypes, Reactor!Close
  <2>. QED
    BY <2>2, FewerEntries
<1>. QED
  BY <1>3, <1>4 DEF Reactor!wake, Reactor!Go

\* The lease goes, and its entry with it.
LEMMA DropLeaseInv ==
  ASSUME Reactor!ReadinessAssumption, ReactorInv, NEW t \in Readers, Reactor!drop_lease(t)
  PROVE  ReactorInv'
<1>. DEFINE k == Reactor!Key(t)
<1>1. /\ waits' = {} \/ waits' = waits \ {k}
      /\ closed' \in {closed, TRUE} /\ closing' \in {closing, closing \cup (waits \ {k})}
      /\ waits' # {} => closed' = closed
      /\ UNCHANGED driver
      /\ op' = [op EXCEPT ![t].pc = Reactor!After(t), ![t].winner = "none"]
  BY DEF Reactor!drop_lease, Reactor!Close
<1>2. op \in [Readers -> OpRec] /\ ReactorTypes /\ Reactor!After(t) \in {"try", "returned"}
  BY DEF ReactorInv, ReactorTypes, Reactor!After
<1>3. op' \in [Readers -> OpRec] /\ \A u \in Readers : u # t => op'[u] = op[u]
  BY <1>1, <1>2 DEF OpRec
<1>4. \A e \in Keys : e = k <=> e[2] = t /\ e[1] = op[t].calls
  BY <1>2, KeyFacts
<1>. HIDE DEF k
<1>5. \A e \in waits' : e \in Keys /\ Registered(e) /\ e[2] \in Readers /\ e[2] # t
  <2>1. \A e \in waits' : e \in Keys /\ Registered(e) /\ e # k
    BY <1>1 DEF ReactorInv, ReactorTypes
  <2>. QED
    BY <1>2, <1>4, <2>1, KeyFacts DEF Registered
<1>6. \A e \in waits' : Registered(e)'
  BY <1>3, <1>5 DEF Registered
<1>7. ReactorTypes'
  BY <1>1, <1>2, <1>3 DEF ReactorTypes
<1>. QED
  BY <1>1, <1>6, <1>7, FewerEntries DEF ReactorInv

\* Selections, and steps of the driver, the closer and stop.
LEMMA DriverInv ==
  ASSUME Reactor!ReadinessAssumption, ReactorInv,
         \/ \E e \in closing : Reactor!select_closed(e)
         \/ Reactor!DriverStep \/ Reactor!stop
  PROVE  ReactorInv'
<1>1. ReactorTypes /\ op \in [Readers -> OpRec] /\ driver \in DriverRec
  BY DEF ReactorInv, ReactorTypes
<1>2. \A e \in waits : e \in Keys /\ Registered(e) /\ e[2] \in Readers
  BY <1>1, KeyFacts DEF ReactorInv, ReactorTypes
<1>3. ASSUME waits' \subseteq waits, closed' => waits' = {}, closing' \subseteq Keys, closed' \in BOOLEAN,
             driver' \in DriverRec, op' \in [Readers -> OpRec],
             \A t \in Readers : op'[t].pc = op[t].pc /\ op'[t].calls = op[t].calls
      PROVE  ReactorInv'
  <2>1. ReactorTypes'
    BY <1>1, <1>3 DEF ReactorTypes
  <2>2. \A e \in waits' : Registered(e)'
    BY <1>2, <1>3 DEF Registered
  <2>. QED
    BY <1>3, <2>1, <2>2, FewerEntries
<1>4. ASSUME NEW e \in closing, Reactor!select_closed(e)
      PROVE  ReactorInv'
  <2>1. /\ closing' = closing \ {e} /\ op' = Reactor!Selected(e, "stopped") /\ UNCHANGED <<waits, closed, driver>>
    BY <1>4 DEF Reactor!select_closed
  <2>2. e \in Keys /\ closing \subseteq Keys /\ closed \in BOOLEAN
    BY <1>1 DEF ReactorTypes
  <2>. QED
    BY <1>1, <1>3, <2>1, <2>2, SelectedFacts DEF ReactorInv
<1>5. ASSUME Reactor!stop
      PROVE  ReactorInv'
  BY <1>1, <1>3, <1>5 DEF Reactor!stop, Reactor!Close, ReactorTypes
<1>6. ASSUME Reactor!sync
      PROVE  ReactorInv'
  <2>1. UNCHANGED <<waits, closed, closing, op>>
    BY <1>6 DEF Reactor!sync, Reactor!reactor
  <2>2. driver' \in DriverRec
    BY <1>1, <1>6 DEF Reactor!sync, DriverRec, ReactorTypes
  <2>. QED
    BY <1>1, <1>3, <2>1, <2>2 DEF ReactorTypes, ReactorInv
<1>7. ASSUME Reactor!wait
      PROVE  ReactorInv'
  <2>. DEFINE seen == {e \in driver.installed : avail[e[2]] > 0}
  <2>0. seen \subseteq Keys
    BY <1>1 DEF DriverRec
  <2>1. CASE driver' = [driver EXCEPT !.pc = "events", !.events = seen] /\ UNCHANGED Reactor!reactor /\ op' = op
    <3>. HIDE DEF seen
    <3>1. driver' \in DriverRec
      BY <1>1, <2>0, <2>1 DEF DriverRec
    <3>2. UNCHANGED <<waits, closed, closing, op>>
      BY <2>1 DEF Reactor!reactor
    <3>. QED
      BY <1>1, <1>3, <3>1, <3>2 DEF ReactorTypes, ReactorInv
  <2>2. CASE Reactor!Close(waits) /\ driver' = [driver EXCEPT !.pc = "exit", !.installed = {}] /\ op' = op
    <3>1. driver' \in DriverRec
      BY <1>1, <2>2 DEF DriverRec
    <3>. QED
      BY <1>1, <1>3, <2>2, <3>1 DEF ReactorTypes, Reactor!Close
  <2>. QED
    BY <1>7, <2>1, <2>2 DEF Reactor!wait
<1>8. ASSUME Reactor!event
      PROVE  ReactorInv'
  <2>1. UNCHANGED <<closed, closing, op>>
    BY <1>8 DEF Reactor!event
  <2>2. waits' \subseteq waits
    BY <1>8 DEF Reactor!event
  <2>3. driver' \in DriverRec
    <3>1. CASE driver' = [driver EXCEPT !.pc = "sync", !.installed = {}]
      BY <1>1, <3>1 DEF DriverRec
    <3>2. ASSUME NEW e \in driver.events,
                 driver' = [driver EXCEPT !.events = @ \ {e}, !.taken = {e} \cap waits]
          PROVE  driver' \in DriverRec
      <4>1. {e} \cap waits \in SUBSET Keys /\ driver.events \ {e} \in SUBSET Keys
        BY <1>1 DEF DriverRec, ReactorTypes
      <4>. QED
        BY <1>1, <3>2, <4>1 DEF DriverRec
    <3>. QED
      BY <1>8, <3>1, <3>2 DEF Reactor!event
  <2>. QED
    BY <1>1, <1>3, <2>1, <2>2, <2>3 DEF ReactorTypes, ReactorInv
<1>9. ASSUME Reactor!select_ready
      PROVE  ReactorInv'
  <2>1. UNCHANGED <<waits, closed, closing>> /\ driver' = [driver EXCEPT !.taken = {}]
    BY <1>9 DEF Reactor!select_ready, Reactor!reactor
  <2>2. PICK e \in driver.taken : op' = Reactor!Selected(e, "ready")
    BY <1>9 DEF Reactor!select_ready
  <2>3. e \in Keys /\ driver' \in DriverRec
    BY <1>1, <2>1, <2>2 DEF DriverRec
  <2>. QED
    BY <1>1, <1>3, <2>1, <2>2, <2>3, SelectedFacts DEF ReactorTypes, ReactorInv
<1>. QED
  BY <1>4, <1>5, <1>6, <1>7, <1>8, <1>9 DEF Reactor!DriverStep

\* An entry never outlives the wait it was made for: a cancelled or woken
\* reader frees its share of the capacity, and a stop leaves nothing that
\* cleanup would wait for (register_owned, Drop of the lease, Inner::close).
THEOREM EntriesStayOwned ==
  ASSUME Reactor!ReadinessAssumption
  PROVE  Reactor!Spec => [](EntriesOwned /\ Cardinality(waits) <= IoCapacity)
<1>1. Reactor!Init => ReactorInv
  <2>. SUFFICES ASSUME Reactor!Init PROVE ReactorInv
    OBVIOUS
  <2>1. /\ waits = {} /\ closing = {} /\ closed = FALSE
        /\ driver = [pc |-> "sync", installed |-> {}, events |-> {}, taken |-> {}]
        /\ op = [t \in Readers |-> [pc |-> "try", winner |-> "none", calls |-> 1]]
    BY DEF Reactor!Init
  <2>2. ReactorTypes
    BY <2>1 DEF ReactorTypes, DriverRec, OpRec
  <2>. QED
    BY <2>1, <2>2, FS_EmptySet DEF ReactorInv, Reactor!ReadinessAssumption
<1>2. ReactorInv /\ [Reactor!Next]_Reactor!vars => ReactorInv'
  <2>. SUFFICES ASSUME ReactorInv, [Reactor!Next]_Reactor!vars PROVE ReactorInv'
    OBVIOUS
  <2>1. CASE UNCHANGED Reactor!vars
    BY <2>1 DEF Reactor!vars, Reactor!reactor, ReactorInv, ReactorTypes, Registered
  <2>2. CASE Reactor!Next
    BY <2>2, ReaderInv, RegisterInv, WakeInv, DropLeaseInv, DriverInv DEF Reactor!Next, Reactor!TaskStep
  <2>. QED
    BY <2>1, <2>2
<1>3. ReactorInv => EntriesOwned /\ Cardinality(waits) <= IoCapacity
  <2>. SUFFICES ASSUME ReactorInv PROVE EntriesOwned /\ Cardinality(waits) <= IoCapacity
    OBVIOUS
  <2>1. \A e \in waits : e \in Keys /\ Registered(e)
    BY DEF ReactorInv, ReactorTypes
  <2>2. \A e \in waits : e = Reactor!Key(e[2])
    BY <2>1, KeyFacts DEF Registered, ReactorInv
  <2>. QED
    BY <2>1, <2>2 DEF EntriesOwned, Reactor!EntriesOwned, Registered, ReactorInv
<1>. QED
  BY <1>1, <1>2, <1>3, PTL DEF Reactor!Spec

-----------------------------------------------------------------------------
(* The blocking pool *)

WithJob == {"execute", "ready", "settle", "destroy", "uncharge"}
WorkerRec == [pc : WithJob \cup {"take", "exit"}, job : Callers \cup {"none"}, discard : BOOLEAN,
              failing : BOOLEAN, drain : Nat]
PoolTypes ==
  /\ queue \in LineOf(Callers) /\ completed \in LineOf(Callers)
  /\ running \in Nat /\ discarding \in Nat
  /\ abandoned \in [Callers -> BOOLEAN] /\ call \in [Callers -> {"idle", "refused", "parked", "leaving", "done"}]
  /\ output \in [Callers -> {"empty", "stored", "taken", "lost"}]
  /\ winner \in [Callers -> {"none", "ready", "cancelled", "closed"}]
  /\ worker \in [Workers -> WorkerRec]

\* The counters count the workers that run or discard a job.
Busy(w) == worker[w].pc \in WithJob
Running == {w \in Workers : Busy(w) /\ ~worker[w].discard}
Discarding == {w \in Workers : Busy(w) /\ worker[w].discard}
PoolCounted ==
  /\ IsFiniteSet(Running) /\ running = Cardinality(Running)
  /\ IsFiniteSet(Discarding) /\ discarding = Cardinality(Discarding)
PoolCharged == Len(queue) + Len(completed) + running + discarding <= PoolCapacity

\* A job is in one place, and one worker has it.
Alone == \A v, w \in Workers : Busy(v) /\ Busy(w) /\ worker[v].job = worker[w].job => v = w
Waits(c) == c \in ToSet(queue) \/ c \in ToSet(completed)

\* A call, and whether its result can be won.
CallFits(c) ==
  /\ c \in ToSet(queue) => c \notin ToSet(completed) /\ winner[c] # "ready"
  /\ call[c] = "idle" => ~Waits(c) /\ winner[c] # "ready"
  /\ abandoned[c] => call[c] \in {"leaving", "done"}
  /\ call[c] = "parked" /\ winner[c] = "ready" => output[c] = "stored"

\* A worker with the job c.
JobFits(w, c) ==
  /\ c \in Callers /\ call[c] # "idle" /\ ~Waits(c)
  /\ worker[w].pc \in {"execute", "ready"} => winner[c] # "ready"
  /\ worker[w].pc = "ready" => output[c] = "stored" /\ ~worker[w].discard
  /\ worker[w].pc = "settle" /\ worker[w].discard => winner[c] # "ready"
  /\ worker[w].pc = "destroy" => abandoned[c] \/ winner[c] # "ready"
WorkerFits(w) == IF Busy(w) THEN JobFits(w, worker[w].job) ELSE worker[w].job = "none"

PoolInv == /\ PoolTypes /\ PoolCounted /\ PoolCharged /\ Alone
           /\ \A c \in Callers : CallFits(c)
           /\ \A w \in Workers : WorkerFits(w)

\* The sizes that the pool speaks of.
LEMMA PoolSizes == \A S : Pool!Cardinality(S) = Cardinality(S)
BY DEF Pool!Cardinality, Cardinality

\* What a step does that is about the call c alone, with the workers as they are.
LEMMA CallMoves ==
  ASSUME PoolInv, NEW c \in Callers, PoolTypes', PoolCharged', UNCHANGED <<worker, running, discarding>>,
         \A d \in Callers : d # c =>
           /\ call'[d] = call[d] /\ abandoned'[d] = abandoned[d]
           /\ output'[d] = output[d] /\ winner'[d] = winner[d]
           /\ d \in ToSet(queue') <=> d \in ToSet(queue)
           /\ d \in ToSet(completed') <=> d \in ToSet(completed),
         CallFits(c)',
         \A w \in Workers : Busy(w) /\ worker[w].job = c => JobFits(w, c)'
  PROVE  PoolInv'
<1>1. PoolCounted'
  BY DEF PoolInv, PoolCounted, Running, Discarding, Busy
<1>2. Alone'
  BY DEF PoolInv, Alone, Busy
<1>3. \A d \in Callers : CallFits(d)'
  BY DEF PoolInv, CallFits, Waits
<1>4. \A w \in Workers : WorkerFits(w)'
  <2>. SUFFICES ASSUME NEW w \in Workers PROVE WorkerFits(w)'
    OBVIOUS
  <2>1. Busy(w)' <=> Busy(w)
    BY DEF Busy
  <2>2. WorkerFits(w)
    BY DEF PoolInv
  <2>3. CASE ~Busy(w)
    BY <2>1, <2>2, <2>3 DEF WorkerFits
  <2>4. CASE Busy(w) /\ worker[w].job = c
    BY <2>1, <2>4 DEF WorkerFits
  <2>5. CASE Busy(w) /\ worker[w].job # c
    <3>1. JobFits(w, worker[w].job)
      BY <2>2, <2>5 DEF WorkerFits
    <3>2. JobFits(w, worker[w].job)'
      BY <2>5, <3>1 DEF JobFits, Waits
    <3>. QED
      BY <2>1, <2>5, <3>2 DEF WorkerFits
  <2>. QED
    BY <2>3, <2>4, <2>5
<1>. QED
  BY <1>1, <1>2, <1>3, <1>4 DEF PoolInv

\* What a step of worker w does that is about its job c alone.
LEMMA WorkerMoves ==
  ASSUME PoolInv, NEW w \in Workers, NEW c \in Callers, PoolTypes', PoolCounted', PoolCharged',
         UNCHANGED <<call, abandoned>>,
         \A v \in Workers : v # w => worker'[v] = worker[v],
         \A v \in Workers : v # w /\ Busy(v) => worker[v].job # c,
         \A d \in Callers : d # c =>
           /\ output'[d] = output[d] /\ winner'[d] = winner[d]
           /\ d \in ToSet(queue') <=> d \in ToSet(queue)
           /\ d \in ToSet(completed') <=> d \in ToSet(completed),
         CallFits(c)', WorkerFits(w)', Busy(w)' => worker'[w].job = c
  PROVE  PoolInv'
<1>1. Alone'
  BY DEF PoolInv, Alone, Busy
<1>2. \A d \in Callers : CallFits(d)'
  BY DEF PoolInv, CallFits, Waits
<1>3. \A v \in Workers : WorkerFits(v)'
  <2>. SUFFICES ASSUME NEW v \in Workers, v # w PROVE WorkerFits(v)'
    OBVIOUS
  <2>1. worker'[v] = worker[v] /\ (Busy(v)' <=> Busy(v))
    BY DEF Busy
  <2>2. WorkerFits(v)
    BY DEF PoolInv
  <2>3. CASE ~Busy(v)
    BY <2>1, <2>2, <2>3 DEF WorkerFits
  <2>4. CASE Busy(v)
    <3>1. JobFits(v, worker[v].job) /\ worker[v].job # c
      BY <2>2, <2>4 DEF WorkerFits
    <3>2. JobFits(v, worker[v].job)'
      BY <2>1, <3>1 DEF JobFits, Waits
    <3>. QED
      BY <2>1, <2>4, <3>2 DEF WorkerFits
  <2>. QED
    BY <2>3, <2>4
<1>. QED
  BY <1>1, <1>2, <1>3 DEF PoolInv

\* A worker that keeps its job, takes one or gives one back.
LEMMA CountsMove ==
  ASSUME PoolInv, NEW w \in Workers, \A v \in Workers : v # w => worker'[v] = worker[v]
  PROVE  /\ (Busy(w)' <=> Busy(w)) /\ (Busy(w) => worker'[w].discard = worker[w].discard)
            /\ UNCHANGED <<running, discarding>> => PoolCounted'
         /\ ~Busy(w) /\ Busy(w)' /\ ~worker'[w].discard
            /\ running' = running + 1 /\ discarding' = discarding => PoolCounted'
         /\ ~Busy(w) /\ Busy(w)' /\ worker'[w].discard
            /\ running' = running /\ discarding' = discarding + 1 => PoolCounted'
         /\ Busy(w) /\ ~Busy(w)' /\ ~worker[w].discard
            /\ running' = running - 1 /\ discarding' = discarding => PoolCounted' /\ running > 0
         /\ Busy(w) /\ ~Busy(w)' /\ worker[w].discard
            /\ running' = running /\ discarding' = discarding - 1 => PoolCounted' /\ discarding > 0
<1>0. PoolCounted
  BY DEF PoolInv
<1>1. \A v \in Workers : v # w => /\ v \in Running' <=> v \in Running
                                  /\ v \in Discarding' <=> v \in Discarding
  BY DEF Running, Discarding, Busy
<1>2. Running' \subseteq Workers /\ Discarding' \subseteq Workers /\ Running \subseteq Workers /\ Discarding \subseteq Workers
  BY DEF Running, Discarding
<1>3. /\ w \in Running <=> Busy(w) /\ ~worker[w].discard
      /\ w \in Discarding <=> Busy(w) /\ worker[w].discard
      /\ w \in Running' <=> Busy(w)' /\ ~worker'[w].discard
      /\ w \in Discarding' <=> Busy(w)' /\ worker'[w].discard
  BY DEF Running, Discarding
<1>4. ASSUME (Busy(w)' <=> Busy(w)) /\ (Busy(w) => worker'[w].discard = worker[w].discard)
             /\ UNCHANGED <<running, discarding>>
      PROVE  PoolCounted'
  <2>1. Running' = Running /\ Discarding' = Discarding
    BY <1>1, <1>2, <1>3, <1>4
  <2>. QED
    BY <1>0, <1>4, <2>1 DEF PoolCounted
<1>5. ASSUME ~Busy(w) /\ Busy(w)' /\ ~worker'[w].discard /\ running' = running + 1 /\ discarding' = discarding
      PROVE  PoolCounted'
  <2>1. Running' = Running \cup {w} /\ Discarding' = Discarding /\ w \notin Running
    BY <1>1, <1>2, <1>3, <1>5
  <2>. QED
    BY <1>0, <1>5, <2>1, FS_AddElement DEF PoolCounted
<1>6. ASSUME ~Busy(w) /\ Busy(w)' /\ worker'[w].discard /\ running' = running /\ discarding' = discarding + 1
      PROVE  PoolCounted'
  <2>1. Running' = Running /\ Discarding' = Discarding \cup {w} /\ w \notin Discarding
    BY <1>1, <1>2, <1>3, <1>6
  <2>. QED
    BY <1>0, <1>6, <2>1, FS_AddElement DEF PoolCounted
<1>7. ASSUME Busy(w) /\ ~Busy(w)' /\ ~worker[w].discard /\ running' = running - 1 /\ discarding' = discarding
      PROVE  PoolCounted' /\ running > 0
  <2>1. Running' = Running \ {w} /\ Discarding' = Discarding /\ w \in Running
    BY <1>1, <1>2, <1>3, <1>7
  <2>2. IsFiniteSet(Running') /\ Cardinality(Running') = Cardinality(Running) - 1
    BY <1>0, <2>1, FS_RemoveElement DEF PoolCounted
  <2>3. Cardinality(Running') \in Nat /\ Cardinality(Running) \in Nat
    BY <1>0, <2>2, FS_CardinalityType DEF PoolCounted
  <2>. QED
    BY <1>0, <1>7, <2>1, <2>2, <2>3 DEF PoolCounted
<1>8. ASSUME Busy(w) /\ ~Busy(w)' /\ worker[w].discard /\ running' = running /\ discarding' = discarding - 1
      PROVE  PoolCounted' /\ discarding > 0
  <2>1. Running' = Running /\ Discarding' = Discarding \ {w} /\ w \in Discarding
    BY <1>1, <1>2, <1>3, <1>8
  <2>2. IsFiniteSet(Discarding') /\ Cardinality(Discarding') = Cardinality(Discarding) - 1
    BY <1>0, <2>1, FS_RemoveElement DEF PoolCounted
  <2>3. Cardinality(Discarding') \in Nat /\ Cardinality(Discarding) \in Nat
    BY <1>0, <2>2, FS_CardinalityType DEF PoolCounted
  <2>. QED
    BY <1>0, <1>8, <2>1, <2>2, <2>3 DEF PoolCounted
<1>. QED
  BY <1>4, <1>5, <1>6, <1>7, <1>8

\* The facts of a pool that the steps start from.
LEMMA PoolFacts ==
  ASSUME Pool!BlockingAssumption, PoolInv
  PROVE  /\ PoolTypes /\ PoolCounted /\ PoolCharged /\ Alone
         /\ PoolCapacity \in Nat /\ "none" \notin Callers
         /\ running \in Nat /\ discarding \in Nat /\ Len(queue) \in Nat /\ Len(completed) \in Nat
         /\ \A c \in Callers : CallFits(c)
         /\ \A w \in Workers : worker[w] \in WorkerRec /\ WorkerFits(w)
         /\ \A w \in Workers : Busy(w) => JobFits(w, worker[w].job)
         /\ \A v, w \in Workers : v # w /\ Busy(v) /\ Busy(w) => worker[v].job # worker[w].job
<1>1. queue \in LineOf(Callers) /\ completed \in LineOf(Callers)
  BY DEF PoolInv, PoolTypes
<1>2. Len(queue) \in Nat /\ Len(completed) \in Nat
  BY <1>1, InLine
<1>. QED
  BY <1>2 DEF PoolInv, PoolTypes, Pool!BlockingAssumption, WorkerFits, Alone

\* A call is submitted, or refused.
LEMMA SubmitInv ==
  ASSUME Pool!BlockingAssumption, PoolInv, NEW c \in Callers, Pool!submit(c)
  PROVE  PoolInv'
<1>1. /\ call[c] = "idle" /\ UNCHANGED <<completed, running, discarding, stopped, failed, abandoned, output, winner, worker>>
  BY DEF Pool!submit, Pool!jobs
<1>2. PoolTypes /\ CallFits(c) /\ PoolCharged
  BY PoolFacts
<1>3. \A w \in Workers : Busy(w) => worker[w].job # c
  BY <1>1, PoolFacts DEF JobFits
<1>4. CASE call' = [call EXCEPT ![c] = "refused"] /\ queue' = queue
  <2>1. PoolTypes'
    BY <1>1, <1>2, <1>4 DEF PoolTypes
  <2>2. CallFits(c)' /\ PoolCharged'
    BY <1>1, <1>2, <1>4 DEF CallFits, Waits, PoolTypes, PoolCharged
  <2>3. \A d \in Callers : d # c => call'[d] = call[d]
    BY <1>2, <1>4 DEF PoolTypes
  <2>. QED
    BY <1>1, <1>3, <1>4, <2>1, <2>2, <2>3, CallMoves
<1>5. CASE call' = [call EXCEPT ![c] = "parked"] /\ queue' = Append(queue, c) /\ Pool!Charged < PoolCapacity
  <2>1. c \notin ToSet(queue) /\ c \notin ToSet(completed) /\ winner[c] # "ready" /\ ~abandoned[c]
    BY <1>1, <1>2 DEF CallFits, Waits
  <2>2. /\ queue' \in LineOf(Callers) /\ ToSet(queue') = ToSet(queue) \cup {c}
        /\ Len(queue') = Len(queue) + 1
    BY <1>2, <1>5, <2>1, JoinLine DEF PoolTypes
  <2>3. PoolTypes'
    BY <1>1, <1>2, <1>5, <2>2 DEF PoolTypes
  <2>4. PoolCharged'
    BY <1>1, <1>5, <2>2, PoolFacts DEF PoolCharged, Pool!Charged
  <2>5. call'[c] = "parked" /\ \A d \in Callers : d # c => call'[d] = call[d]
    BY <1>2, <1>5 DEF PoolTypes
  <2>6. CallFits(c)'
    BY <1>1, <2>1, <2>2, <2>5 DEF CallFits, Waits
  <2>. QED
    BY <1>1, <1>3, <2>2, <2>3, <2>4, <2>5, <2>6, CallMoves
<1>. QED
  BY <1>4, <1>5 DEF Pool!submit

\* The steps of a call that leave the lines alone.
LEMMA CallInv ==
  ASSUME Pool!BlockingAssumption, PoolInv, NEW c \in Callers,
         Pool!interrupt(c) \/ Pool!resume(c) \/ Pool!abandon(c) \/ Pool!drop_lease(c)
  PROVE  PoolInv'
<1>1. PoolTypes /\ CallFits(c) /\ PoolCharged
  BY PoolFacts
<1>2. UNCHANGED <<queue, completed, running, discarding, worker>>
  BY DEF Pool!interrupt, Pool!resume, Pool!abandon, Pool!drop_lease, Pool!pool, Pool!jobs
<1>3. PoolCharged'
  BY <1>1, <1>2 DEF PoolCharged
<1>4. \A w \in Workers : Busy(w) /\ worker[w].job = c => JobFits(w, c)
  BY PoolFacts
<1>5. CASE Pool!interrupt(c)
  <2>1. winner' = [winner EXCEPT ![c] = "cancelled"] /\ UNCHANGED <<abandoned, output, call>> /\ call[c] = "parked"
    BY <1>5 DEF Pool!interrupt
  <2>2. PoolTypes'
    BY <1>1, <1>2, <2>1 DEF PoolTypes
  <2>3. winner'[c] = "cancelled" /\ \A d \in Callers : d # c => winner'[d] = winner[d]
    BY <1>1, <2>1 DEF PoolTypes
  <2>4. CallFits(c)' /\ \A w \in Workers : Busy(w) /\ worker[w].job = c => JobFits(w, c)'
    BY <1>1, <1>2, <1>4, <2>1, <2>3 DEF CallFits, Waits, JobFits
  <2>. QED
    BY <1>2, <1>3, <2>1, <2>2, <2>3, <2>4, CallMoves
<1>6. CASE Pool!resume(c)
  <2>1. /\ call' = [call EXCEPT ![c] = "leaving"] /\ UNCHANGED <<abandoned, winner>> /\ call[c] = "parked"
        /\ output' = IF winner[c] = "ready" THEN Pool!Emptied(c, "taken") ELSE output
    BY <1>6 DEF Pool!resume
  <2>2. /\ output' \in [Callers -> {"empty", "stored", "taken", "lost"}]
        /\ \A d \in Callers : d # c => output'[d] = output[d]
        /\ winner[c] # "ready" => output' = output
    BY <1>1, <2>1 DEF PoolTypes, Pool!Emptied
  <2>3. PoolTypes'
    BY <1>1, <1>2, <2>1, <2>2 DEF PoolTypes
  <2>4. call'[c] = "leaving" /\ \A d \in Callers : d # c => call'[d] = call[d]
    BY <1>1, <2>1 DEF PoolTypes
  <2>5. CallFits(c)'
    BY <1>1, <1>2, <2>1, <2>4 DEF CallFits, Waits
  <2>6. \A w \in Workers : Busy(w) /\ worker[w].job = c => JobFits(w, c)'
    BY <1>2, <1>4, <2>1, <2>2, <2>4 DEF JobFits, Waits
  <2>. QED
    BY <1>2, <1>3, <2>1, <2>2, <2>3, <2>4, <2>5, <2>6, CallMoves
<1>7. CASE Pool!abandon(c)
  <2>1. abandoned' = [abandoned EXCEPT ![c] = TRUE] /\ UNCHANGED <<output, winner, call>> /\ call[c] = "leaving"
    BY <1>7 DEF Pool!abandon
  <2>2. PoolTypes'
    BY <1>1, <1>2, <2>1 DEF PoolTypes
  <2>3. abandoned'[c] = TRUE /\ \A d \in Callers : d # c => abandoned'[d] = abandoned[d]
    BY <1>1, <2>1 DEF PoolTypes
  <2>4. CallFits(c)' /\ \A w \in Workers : Busy(w) /\ worker[w].job = c => JobFits(w, c)'
    BY <1>1, <1>2, <1>4, <2>1, <2>3 DEF CallFits, Waits, JobFits
  <2>. QED
    BY <1>2, <1>3, <2>1, <2>2, <2>3, <2>4, CallMoves
<1>8. CASE Pool!drop_lease(c)
  <2>1. call' = [call EXCEPT ![c] = "done"] /\ UNCHANGED <<abandoned, output, winner>>
    BY <1>8 DEF Pool!drop_lease, Pool!jobs
  <2>2. PoolTypes'
    BY <1>1, <1>2, <2>1 DEF PoolTypes
  <2>3. call'[c] = "done" /\ \A d \in Callers : d # c => call'[d] = call[d]
    BY <1>1, <2>1 DEF PoolTypes
  <2>4. CallFits(c)' /\ \A w \in Workers : Busy(w) /\ worker[w].job = c => JobFits(w, c)'
    BY <1>1, <1>2, <1>4, <2>1, <2>3 DEF CallFits, Waits, JobFits
  <2>. QED
    BY <1>2, <1>3, <2>1, <2>2, <2>3, <2>4, CallMoves
<1>. QED
  BY <1>5, <1>6, <1>7, <1>8

\* A worker goes on with its job, or is free again.
LEMMA GoFacts ==
  ASSUME PoolTypes, NEW w \in Workers, NEW pc \in WithJob \cup {"take", "exit"}, Pool!Go(w, pc)
  PROVE  /\ worker' \in [Workers -> WorkerRec] /\ \A v \in Workers : v # w => worker'[v] = worker[v]
         /\ worker'[w].pc = pc /\ worker'[w].job = worker[w].job /\ worker'[w].discard = worker[w].discard
<1>1. worker \in [Workers -> WorkerRec] /\ worker[w] \in WorkerRec
  BY DEF PoolTypes
<1>2. worker' = [worker EXCEPT ![w].pc = pc]
  BY DEF Pool!Go
<1>. QED
  BY <1>1, <1>2 DEF WorkerRec

\* A worker that has settled its job is free.
LEMMA FreeFacts ==
  ASSUME PoolTypes, NEW w \in Workers, Pool!Free(w)
  PROVE  /\ worker' \in [Workers -> WorkerRec] /\ \A v \in Workers : v # w => worker'[v] = worker[v]
         /\ worker'[w].job = "none" /\ ~Busy(w)'
<1>1. worker \in [Workers -> WorkerRec] /\ worker[w] \in WorkerRec
  BY DEF PoolTypes
<1>2. worker' = [worker EXCEPT ![w].pc = "take", ![w].job = "none", ![w].discard = FALSE]
  BY DEF Pool!Free
<1>3. /\ worker' \in [Workers -> WorkerRec] /\ \A v \in Workers : v # w => worker'[v] = worker[v]
      /\ worker'[w].job = "none" /\ worker'[w].pc = "take"
  BY <1>1, <1>2 DEF WorkerRec
<1>. QED
  BY <1>3 DEF Busy, WithJob

\* A worker takes the job c, that waited in a line: the counter it is charged
\* to takes over from the line.
LEMMA TakenFacts ==
  ASSUME Pool!BlockingAssumption, PoolInv, NEW w \in Workers, NEW c \in Callers, NEW discard \in BOOLEAN,
         NEW pc \in {"execute", "destroy"},
         ~Busy(w), ~worker[w].failing \/ worker[w].drain > 0, Pool!Taken(w, pc, c, discard)
  PROVE  /\ worker' \in [Workers -> WorkerRec] /\ \A v \in Workers : v # w => worker'[v] = worker[v]
         /\ worker'[w].pc = pc /\ worker'[w].job = c /\ worker'[w].discard = discard
         /\ Busy(w)'
<1>. DEFINE drain == IF worker[w].failing THEN worker[w].drain - 1 ELSE worker[w].drain
<1>1. worker[w] \in WorkerRec /\ PoolTypes
  BY PoolFacts
<1>2. worker[w].drain \in Nat
  BY <1>1 DEF WorkerRec
<1>3. drain \in Nat
  BY <1>2
<1>4. worker' = [worker EXCEPT ![w].pc = pc, ![w].job = c, ![w].discard = discard, ![w].drain = drain]
  BY DEF Pool!Taken
<1>. HIDE DEF drain
<1>5. worker \in [Workers -> WorkerRec] /\ pc \in WithJob
  BY <1>1 DEF PoolTypes, WithJob
<1>6. /\ worker' \in [Workers -> WorkerRec] /\ \A v \in Workers : v # w => worker'[v] = worker[v]
      /\ worker'[w].pc = pc /\ worker'[w].job = c /\ worker'[w].discard = discard
  BY <1>1, <1>3, <1>4, <1>5 DEF WorkerRec
<1>. QED
  BY <1>5, <1>6 DEF Busy

\* An abandoned result is taken first, to be destroyed.
LEMMA TakeAbandoned ==
  ASSUME Pool!BlockingAssumption, PoolInv, NEW w \in Workers, Pool!take(w), Pool!Abandoned(completed) # {}
  PROVE  PoolInv'
<1>. DEFINE gone == Pool!Abandoned(completed)
            first == CHOOSE i \in gone : \A k \in gone : i <= k
<1>1. /\ worker[w].pc = "take" /\ (~worker[w].failing \/ worker[w].drain > 0)
      /\ completed' = Pool!Without(completed, first) /\ discarding' = discarding + 1
      /\ Pool!Taken(w, "destroy", completed[first], TRUE)
      /\ UNCHANGED <<queue, running, abandoned, output, winner, call>>
  BY DEF Pool!take, Pool!At, Pool!jobs
<1>2. completed \in LineOf(Callers) /\ PoolTypes
  BY PoolFacts DEF PoolTypes
<1>3. first \in 1..Len(completed) /\ abandoned[completed[first]]
  <2>1. gone \in SUBSET Nat /\ \A i \in gone : i \in 1..Len(completed) /\ abandoned[completed[i]]
    BY <1>2, InLine DEF Pool!Abandoned
  <2>2. \E i \in gone : \A k \in gone : i <= k
    BY <2>1, LeastNat
  <2>3. first \in gone
    BY <2>2
  <2>. QED
    BY <2>1, <2>3
<1>. HIDE DEF gone, first
<1>4. PICK c \in Callers : c = completed[first] /\ c \in ToSet(completed) /\ abandoned[c]
  BY <1>2, <1>3, InLine
<1>5. /\ completed' \in LineOf(Callers) /\ ToSet(completed') = ToSet(completed) \ {c}
      /\ Len(completed') = Len(completed) - 1
  <2>1. Pool!Without(completed, first) = RemoveAt(completed, first)
    BY DEF Pool!Without, RemoveAt
  <2>2. RemoveAt(completed, first) = RemoveFirst(completed, c)
    BY <1>2, <1>3, <1>4, RemoveFirstIsRemoveAt
  <2>. QED
    BY <1>1, <1>2, <1>4, <2>1, <2>2, LeaveLine
<1>6. ~Busy(w)
  BY <1>1 DEF Busy, WithJob
<1>7. /\ worker' \in [Workers -> WorkerRec] /\ \A v \in Workers : v # w => worker'[v] = worker[v]
      /\ worker'[w].pc = "destroy" /\ worker'[w].job = c /\ worker'[w].discard = TRUE /\ Busy(w)'
  BY <1>1, <1>4, <1>6, TakenFacts
<1>8. PoolTypes'
  BY <1>1, <1>2, <1>5, <1>7 DEF PoolTypes
<1>9. PoolCounted'
  BY <1>1, <1>6, <1>7, CountsMove
<1>10. PoolCharged'
  BY <1>1, <1>5, PoolFacts DEF PoolCharged
<1>11. CallFits(c) /\ c \notin ToSet(queue) /\ call[c] # "idle"
  BY <1>4, PoolFacts DEF CallFits, Waits
<1>12. \A v \in Workers : v # w /\ Busy(v) => worker[v].job # c
  BY <1>4, PoolFacts DEF JobFits, Waits
<1>13. CallFits(c)' /\ WorkerFits(w)'
  BY <1>1, <1>4, <1>5, <1>7, <1>11 DEF CallFits, WorkerFits, JobFits, Waits
<1>. QED
  BY <1>1, <1>4, <1>5, <1>7, <1>8, <1>9, <1>10, <1>12, <1>13, WorkerMoves

\* The front of the queue is taken, to run or to be discarded.
LEMMA TakeFront ==
  ASSUME Pool!BlockingAssumption, PoolInv, NEW w \in Workers, Pool!take(w), Pool!Abandoned(completed) = {}, queue # <<>>
  PROVE  PoolInv'
<1>. DEFINE discard == stopped \/ abandoned[Head(queue)]
<1>1. /\ worker[w].pc = "take" /\ (~worker[w].failing \/ worker[w].drain > 0)
      /\ queue' = Tail(queue)
      /\ IF discard THEN discarding' = discarding + 1 /\ UNCHANGED running
                    ELSE running' = running + 1 /\ UNCHANGED discarding
      /\ Pool!Taken(w, "execute", Head(queue), discard)
      /\ UNCHANGED <<completed, abandoned, output, winner, call>>
  BY DEF Pool!take, Pool!At, Pool!jobs
<1>2. queue \in LineOf(Callers) /\ PoolTypes
  BY PoolFacts DEF PoolTypes
<1>3. PICK c \in Callers : /\ c = Head(queue) /\ c \in ToSet(queue) /\ queue' \in LineOf(Callers)
                          /\ ToSet(queue') = ToSet(queue) \ {c} /\ Len(queue') = Len(queue) - 1
  BY <1>1, <1>2, ServeLine
<1>4. PICK d \in BOOLEAN : /\ Pool!Taken(w, "execute", c, d)
                           /\ d => discarding' = discarding + 1 /\ running' = running
                           /\ ~d => running' = running + 1 /\ discarding' = discarding
  <2>1. CASE discard
    <3>1. discard = TRUE
      BY <2>1
    <3>2. Pool!Taken(w, "execute", c, TRUE)
      BY <1>1, <1>3, <3>1
    <3>. QED
      BY <1>1, <2>1, <3>2
  <2>2. CASE ~discard
    <3>1. discard = FALSE
      BY <2>2
    <3>2. Pool!Taken(w, "execute", c, FALSE)
      BY <1>1, <1>3, <3>1
    <3>. QED
      BY <1>1, <2>2, <3>2
  <2>. QED
    BY <2>1, <2>2
<1>. HIDE DEF discard
<1>6. ~Busy(w)
  BY <1>1 DEF Busy, WithJob
<1>7. /\ worker' \in [Workers -> WorkerRec] /\ \A v \in Workers : v # w => worker'[v] = worker[v]
      /\ worker'[w].pc = "execute" /\ worker'[w].job = c /\ worker'[w].discard = d /\ Busy(w)'
  BY <1>1, <1>3, <1>4, <1>6, TakenFacts
<1>8. PoolTypes'
  BY <1>1, <1>2, <1>3, <1>4, <1>7 DEF PoolTypes
<1>9. PoolCounted'
  BY <1>4, <1>6, <1>7, CountsMove
<1>10. PoolCharged'
  BY <1>1, <1>3, <1>4, PoolFacts DEF PoolCharged
<1>11. CallFits(c) /\ c \notin ToSet(completed) /\ call[c] # "idle" /\ winner[c] # "ready"
  BY <1>3, PoolFacts DEF CallFits, Waits
<1>12. \A v \in Workers : v # w /\ Busy(v) => worker[v].job # c
  BY <1>3, PoolFacts DEF JobFits, Waits
<1>13. CallFits(c)' /\ WorkerFits(w)'
  BY <1>1, <1>3, <1>7, <1>11 DEF CallFits, WorkerFits, JobFits, Waits
<1>. QED
  BY <1>1, <1>3, <1>7, <1>8, <1>9, <1>10, <1>12, <1>13, WorkerMoves

\* A worker without a job exits, waits or starts to drain; the pool is stopped.
LEMMA IdleInv ==
  ASSUME Pool!BlockingAssumption, PoolInv, UNCHANGED <<queue, completed, running, discarding, abandoned, output, call>>,
         \/ worker' = worker
         \/ \E w \in Workers : worker[w].pc = "take" /\ worker' = [worker EXCEPT ![w].pc = "exit"]
         \/ \E w \in Workers : worker[w].pc = "take" /\
               worker' = [worker EXCEPT ![w].failing = TRUE, ![w].drain = PoolCapacity],
         winner' \in [Callers -> {"none", "ready", "cancelled", "closed"}],
         \A c \in Callers : winner'[c] = "ready" => winner[c] = "ready"
  PROVE  PoolInv'
<1>1. worker \in [Workers -> WorkerRec] /\ PoolTypes /\ PoolCapacity \in Nat
  BY PoolFacts DEF PoolTypes
<1>. DEFINE Kept == /\ worker' \in [Workers -> WorkerRec]
                    /\ \A v \in Workers : Busy(v)' <=> Busy(v)
                    /\ \A v \in Workers : worker'[v].job = worker[v].job
                    /\ \A v \in Workers : Busy(v) => worker'[v] = worker[v]
<1>2. Kept
  <2>1. CASE worker' = worker
    BY <1>1, <2>1 DEF Busy
  <2>2. ASSUME NEW w \in Workers, worker[w].pc = "take", worker' = [worker EXCEPT ![w].pc = "exit"]
        PROVE  Kept
    BY <1>1, <2>2 DEF Busy, WithJob, WorkerRec
  <2>3. ASSUME NEW w \in Workers, worker[w].pc = "take",
               worker' = [worker EXCEPT ![w].failing = TRUE, ![w].drain = PoolCapacity]
        PROVE  Kept
    <3>0. worker[w] \in WorkerRec
      BY <1>1
    <3>1. worker' \in [Workers -> WorkerRec]
      BY <1>1, <2>3, <3>0 DEF WorkerRec
    <3>2. /\ \A v \in Workers : v # w => worker'[v] = worker[v]
          /\ worker'[w].pc = worker[w].pc /\ worker'[w].job = worker[w].job
      BY <1>1, <2>3, <3>0 DEF WorkerRec
    <3>. QED
      BY <2>3, <3>1, <3>2 DEF Busy, WithJob
  <2>. QED
    BY <2>1, <2>2, <2>3
<1>3. PoolTypes'
  BY <1>1, <1>2 DEF PoolTypes
<1>4. PoolCounted' /\ PoolCharged'
  <2>1. Running' = Running /\ Discarding' = Discarding
    BY <1>2 DEF Running, Discarding
  <2>. QED
    BY <2>1, PoolFacts DEF PoolCounted, PoolCharged
<1>5. Alone'
  BY <1>2, PoolFacts DEF Alone
<1>6. \A c \in Callers : CallFits(c)'
  BY PoolFacts DEF CallFits, Waits
<1>7. \A v \in Workers : WorkerFits(v)'
  <2>. SUFFICES ASSUME NEW v \in Workers PROVE WorkerFits(v)'
    OBVIOUS
  <2>1. WorkerFits(v)
    BY PoolFacts
  <2>2. CASE ~Busy(v)
    BY <1>2, <2>1, <2>2 DEF WorkerFits
  <2>3. CASE Busy(v)
    <3>1. JobFits(v, worker[v].job)
      BY <2>1, <2>3 DEF WorkerFits
    <3>2. worker'[v] = worker[v] /\ Busy(v)'
      BY <1>2, <2>3
    <3>3. JobFits(v, worker[v].job)'
      BY <3>1, <3>2 DEF JobFits, Waits
    <3>. QED
      BY <3>2, <3>3 DEF WorkerFits
  <2>. QED
    BY <2>2, <2>3
<1>. QED
  BY <1>3, <1>4, <1>5, <1>6, <1>7 DEF PoolInv

\* The steps of a worker with its job c: it keeps the job, and the lines stay.
LEMMA JobKept ==
  ASSUME Pool!BlockingAssumption, PoolInv, NEW w \in Workers, Busy(w), NEW pc \in WithJob, Pool!Go(w, pc),
         UNCHANGED <<queue, completed, running, discarding, abandoned, call>>,
         NEW c \in Callers, c = worker[w].job,
         output' \in [Callers -> {"empty", "stored", "taken", "lost"}],
         winner' \in [Callers -> {"none", "ready", "cancelled", "closed"}],
         \A d \in Callers : d # c => output'[d] = output[d] /\ winner'[d] = winner[d],
         call[c] = "parked" /\ winner'[c] = "ready" => output'[c] = "stored",
         pc \in {"execute", "ready"} => winner'[c] # "ready",
         pc = "ready" => output'[c] = "stored" /\ ~worker[w].discard,
         pc = "settle" /\ worker[w].discard => winner'[c] # "ready",
         pc = "destroy" => abandoned[c] \/ winner'[c] # "ready"
  PROVE  PoolInv'
<1>1. PoolTypes /\ CallFits(c) /\ JobFits(w, c)
  BY PoolFacts
<1>2. /\ worker' \in [Workers -> WorkerRec] /\ \A v \in Workers : v # w => worker'[v] = worker[v]
      /\ worker'[w].pc = pc /\ worker'[w].job = c /\ worker'[w].discard = worker[w].discard
  BY <1>1, GoFacts
<1>3. PoolTypes'
  BY <1>1, <1>2 DEF PoolTypes
<1>4. Busy(w)'
  BY <1>2 DEF Busy
<1>5. PoolCounted' /\ PoolCharged'
  <2>1. PoolCounted'
    BY <1>2, <1>4, CountsMove
  <2>. QED
    BY <2>1, PoolFacts DEF PoolCharged
<1>6. CallFits(c)'
  BY <1>1 DEF CallFits, JobFits, Waits
<1>7. WorkerFits(w)'
  BY <1>1, <1>2, <1>4 DEF WorkerFits, JobFits, Waits
<1>8. \A v \in Workers : v # w /\ Busy(v) => worker[v].job # c
  BY PoolFacts
<1>. QED
  BY <1>2, <1>3, <1>5, <1>6, <1>7, <1>8, WorkerMoves

\* What is selected for a caller: the first winner stays.
LEMMA SelectFacts ==
  ASSUME PoolTypes, NEW c \in Callers, NEW cause \in {"ready", "closed"}, winner' = Pool!Select(c, cause)
  PROVE  /\ winner' \in [Callers -> {"none", "ready", "cancelled", "closed"}]
         /\ \A d \in Callers : d # c => winner'[d] = winner[d]
         /\ cause = "closed" => (winner'[c] = "ready" <=> winner[c] = "ready")
BY DEF PoolTypes, Pool!Select

\* The body runs or is discarded, and the caller's wait is settled.
LEMMA RunInv ==
  ASSUME Pool!BlockingAssumption, PoolInv, NEW w \in Workers,
         Pool!execute(w) \/ Pool!select_ready(w) \/ Pool!destroy(w)
         \/ (Pool!settle(w) /\ ~Pool!retain(w))
  PROVE  PoolInv'
<1>1. UNCHANGED <<queue, completed, running, discarding, abandoned, call>>
  BY DEF Pool!execute, Pool!select_ready, Pool!destroy, Pool!settle, Pool!pool, Pool!jobs
<1>2. worker[w].pc \in {"execute", "ready", "destroy", "settle"}
  BY DEF Pool!execute, Pool!select_ready, Pool!destroy, Pool!settle, Pool!At
<1>3. Busy(w)
  BY <1>2 DEF Busy, WithJob
<1>4. PICK c \in Callers : c = worker[w].job /\ JobFits(w, c)
  BY <1>3, PoolFacts DEF JobFits
<1>5. PoolTypes /\ CallFits(c)
  BY PoolFacts
<1>6. /\ output \in [Callers -> {"empty", "stored", "taken", "lost"}]
      /\ winner \in [Callers -> {"none", "ready", "cancelled", "closed"}]
  BY <1>5 DEF PoolTypes
<1>7. ASSUME Pool!execute(w), worker[w].discard
      PROVE  PoolInv'
  <2>1. worker[w].pc = "execute" /\ winner' = Pool!Select(c, "closed") /\ Pool!Go(w, "settle") /\ output' = output
    BY <1>4, <1>7 DEF Pool!execute, Pool!At
  <2>2. "settle" \in WithJob /\ winner[c] # "ready"
    BY <1>4, <2>1 DEF WithJob, JobFits
  <2>. QED
    BY <1>1, <1>3, <1>4, <1>5, <1>6, <2>1, <2>2, SelectFacts, JobKept
<1>8. ASSUME Pool!execute(w), ~worker[w].discard, abandoned[c]
      PROVE  PoolInv'
  <2>1. worker[w].pc = "execute" /\ UNCHANGED <<winner, output>> /\ Pool!Go(w, "settle")
    BY <1>4, <1>8 DEF Pool!execute, Pool!At
  <2>2. "settle" \in WithJob /\ winner[c] # "ready"
    BY <1>4, <2>1 DEF WithJob, JobFits
  <2>. QED
    BY <1>1, <1>3, <1>4, <1>5, <1>6, <2>1, <2>2, JobKept
<1>9. ASSUME Pool!execute(w), ~worker[w].discard, ~abandoned[c]
      PROVE  PoolInv'
  <2>1. /\ worker[w].pc = "execute" /\ output' = [output EXCEPT ![c] = "stored"] /\ winner' = winner
        /\ Pool!Go(w, "ready")
    BY <1>4, <1>9 DEF Pool!execute, Pool!At
  <2>2. "ready" \in WithJob /\ winner[c] # "ready"
    BY <1>4, <2>1 DEF WithJob, JobFits
  <2>3. /\ output' \in [Callers -> {"empty", "stored", "taken", "lost"}] /\ output'[c] = "stored"
        /\ \A d \in Callers : d # c => output'[d] = output[d]
    BY <1>6, <2>1
  <2>. QED
    BY <1>1, <1>3, <1>4, <1>6, <1>9, <2>1, <2>2, <2>3, JobKept
<1>10. ASSUME Pool!select_ready(w)
       PROVE  PoolInv'
  <2>1. /\ worker[w].pc = "ready" /\ winner' = Pool!Select(c, "ready") /\ Pool!Go(w, "settle") /\ output' = output
    BY <1>4, <1>10 DEF Pool!select_ready, Pool!At
  <2>2. "settle" \in WithJob /\ output[c] = "stored" /\ ~worker[w].discard
    BY <1>4, <2>1 DEF WithJob, JobFits
  <2>. QED
    BY <1>1, <1>3, <1>4, <1>5, <1>6, <2>1, <2>2, SelectFacts, JobKept
<1>11. ASSUME Pool!destroy(w)
       PROVE  PoolInv'
  <2>1. /\ worker[w].pc = "destroy" /\ winner' = Pool!Select(c, "closed") /\ Pool!Go(w, "uncharge")
        /\ output' = Pool!Emptied(c, "lost")
    BY <1>4, <1>11 DEF Pool!destroy, Pool!At
  <2>2. "uncharge" \in WithJob /\ (abandoned[c] \/ winner[c] # "ready")
    BY <1>4, <2>1 DEF WithJob, JobFits
  <2>3. /\ output' \in [Callers -> {"empty", "stored", "taken", "lost"}]
        /\ \A d \in Callers : d # c => output'[d] = output[d]
    BY <1>6, <2>1 DEF Pool!Emptied
  <2>4. call[c] = "parked" => winner[c] # "ready"
    BY <1>5, <2>2 DEF CallFits
  <2>. QED
    BY <1>1, <1>3, <1>4, <1>5, <1>6, <2>1, <2>2, <2>3, <2>4, SelectFacts, JobKept
<1>12. ASSUME Pool!settle(w), ~Pool!retain(w)
       PROVE  PoolInv'
  <2>1. /\ worker[w].pc = "settle" /\ UNCHANGED <<winner, output>> /\ Pool!Go(w, "destroy")
        /\ worker[w].discard \/ abandoned[c]
    BY <1>4, <1>12 DEF Pool!settle, Pool!At, Pool!retain, Pool!jobs
  <2>2. "destroy" \in WithJob /\ (abandoned[c] \/ winner[c] # "ready")
    BY <1>4, <2>1 DEF WithJob, JobFits
  <2>. QED
    BY <1>1, <1>3, <1>4, <1>5, <1>6, <2>1, <2>2, JobKept DEF CallFits
<1>. QED
  BY <1>7, <1>8, <1>9, <1>10, <1>11, <1>12

\* A job leaves its worker: it is retained for its caller, or destroyed.
LEMMA JobLeft ==
  ASSUME Pool!BlockingAssumption, PoolInv, NEW w \in Workers,
         (Pool!settle(w) /\ Pool!retain(w)) \/ Pool!uncharge(w)
  PROVE  PoolInv'
<1>1. UNCHANGED <<queue, abandoned, output, winner, call>> /\ Pool!Free(w)
  BY DEF Pool!settle, Pool!uncharge, Pool!jobs
<1>2. Busy(w)
  BY DEF Busy, WithJob, Pool!settle, Pool!uncharge, Pool!At
<1>3. PICK c \in Callers : c = worker[w].job /\ JobFits(w, c)
  BY <1>2, PoolFacts DEF JobFits
<1>4. PoolTypes /\ CallFits(c) /\ completed \in LineOf(Callers)
  BY PoolFacts DEF PoolTypes
<1>5. /\ worker' \in [Workers -> WorkerRec] /\ \A v \in Workers : v # w => worker'[v] = worker[v]
      /\ worker'[w].job = "none" /\ ~Busy(w)'
  BY <1>1, <1>4, FreeFacts
<1>6. \A v \in Workers : v # w /\ Busy(v) => worker[v].job # c
  BY <1>2, <1>3, PoolFacts
<1>7. WorkerFits(w)'
  BY <1>5 DEF WorkerFits
<1>8. CASE Pool!settle(w) /\ Pool!retain(w)
  <2>1. /\ running' = running - 1 /\ discarding' = discarding /\ ~worker[w].discard
        /\ completed' = Append(completed, c)
    BY <1>3, <1>8 DEF Pool!settle, Pool!retain
  <2>2. c \notin ToSet(completed) /\ c \notin ToSet(queue) /\ call[c] # "idle"
    BY <1>3 DEF JobFits, Waits
  <2>3. /\ completed' \in LineOf(Callers) /\ ToSet(completed') = ToSet(completed) \cup {c}
        /\ Len(completed') = Len(completed) + 1
    BY <1>4, <2>1, <2>2, JoinLine
  <2>4. PoolCounted' /\ running > 0
    BY <1>2, <1>5, <2>1, CountsMove
  <2>5. PoolTypes'
    BY <1>1, <1>4, <1>5, <2>1, <2>3, <2>4 DEF PoolTypes
  <2>6. PoolCharged'
    BY <1>1, <2>1, <2>3, <2>4, PoolFacts DEF PoolCharged
  <2>7. CallFits(c)'
    BY <1>1, <1>4, <2>2 DEF CallFits, Waits
  <2>. QED
    BY <1>1, <1>5, <1>6, <1>7, <2>3, <2>4, <2>5, <2>6, <2>7, WorkerMoves
<1>9. CASE Pool!uncharge(w)
  <2>1. /\ worker[w].discard => discarding' = discarding - 1 /\ running' = running
        /\ ~worker[w].discard => discarding' = discarding /\ running' = running - 1
        /\ completed' = completed
    BY <1>9 DEF Pool!uncharge
  <2>2. /\ PoolCounted'
        /\ worker[w].discard => discarding > 0
        /\ ~worker[w].discard => running > 0
    BY <1>2, <1>5, <2>1, CountsMove
  <2>3. PoolTypes'
    BY <1>1, <1>4, <1>5, <2>1, <2>2 DEF PoolTypes
  <2>4. PoolCharged'
    BY <1>1, <2>1, <2>2, PoolFacts DEF PoolCharged
  <2>5. CallFits(c)'
    BY <1>1, <1>4, <2>1 DEF CallFits, Waits
  <2>. QED
    BY <1>1, <1>5, <1>6, <1>7, <2>1, <2>2, <2>3, <2>4, <2>5, WorkerMoves
<1>. QED
  BY <1>8, <1>9

\* A line is as long as the set of its members is large.
LEMMA LineSize ==
  ASSUME NEW T, NEW s \in LineOf(T)
  PROVE  IsFiniteSet(ToSet(s)) /\ Cardinality(ToSet(s)) <= Len(s)
<1>1. s \in Seq(T) /\ Len(s) \in Nat /\ DOMAIN s = 1..Len(s)
  BY InLine
<1>2. \A x : x \in ToSet(s) <=> \E i \in 1..Len(s) : s[i] = x
  BY InLine
<1>3. s \in Surjection(1..Len(s), ToSet(s))
  <2>1. s \in [1..Len(s) -> ToSet(s)]
    BY <1>1, <1>2
  <2>. QED
    BY <1>2, <2>1 DEF Surjection
<1>4. IsFiniteSet(1..Len(s)) /\ Cardinality(1..Len(s)) = Len(s)
  BY <1>1, FS_Interval, SMTT(30)
<1>. QED
  BY <1>3, <1>4, FS_Surjection

\* Two sets together are no larger than the sum of their sizes.
LEMMA UnionSize ==
  ASSUME NEW S, NEW T, IsFiniteSet(S), IsFiniteSet(T)
  PROVE  /\ IsFiniteSet(S \cup T) /\ Cardinality(S \cup T) <= Cardinality(S) + Cardinality(T)
         /\ Cardinality(S) \in Nat /\ Cardinality(T) \in Nat /\ Cardinality(S \cup T) \in Nat
<1>1. /\ IsFiniteSet(S \cup T)
      /\ Cardinality(S \cup T) = Cardinality(S) + Cardinality(T) - Cardinality(S \cap T)
  BY FS_Union
<1>2. IsFiniteSet(S \cap T)
  <2>1. S \cap T \subseteq S
    OBVIOUS
  <2>. QED
    BY <2>1, FS_Subset
<1>3. /\ Cardinality(S) \in Nat /\ Cardinality(T) \in Nat /\ Cardinality(S \cup T) \in Nat
      /\ Cardinality(S \cap T) \in Nat
  BY <1>1, <1>2, FS_CardinalityType
<1>. QED
  BY <1>1, <1>3

\* What the pool owns is charged.
LEMMA OwnedIsCharged ==
  ASSUME Pool!BlockingAssumption, PoolInv
  PROVE  Pool!CapacityHeld
<1>. DEFINE busy == Running \cup Discarding
            job == [w \in busy |-> worker[w].job]
            held == {worker[w].job : w \in busy}
<1>1. IsFiniteSet(busy) /\ Cardinality(busy) <= running + discarding
  BY UnionSize, PoolFacts DEF PoolCounted
<1>2. IsFiniteSet(held) /\ Cardinality(held) <= Cardinality(busy)
  <2>1. job \in Surjection(busy, held)
    BY DEF Surjection
  <2>. HIDE DEF busy, job, held
  <2>. QED
    BY <1>1, <2>1, FS_Surjection
<1>3. Pool!Held \subseteq held
  <2>. SUFFICES ASSUME NEW c \in Callers, NEW w \in Workers, worker[w].job = c PROVE w \in busy
    BY DEF Pool!Held
  <2>1. Busy(w)
    BY PoolFacts DEF WorkerFits
  <2>2. worker[w].discard \in BOOLEAN
    BY PoolFacts DEF WorkerRec
  <2>. QED
    BY <2>1, <2>2 DEF Running, Discarding
<1>4. IsFiniteSet(Pool!Held) /\ Cardinality(Pool!Held) <= Cardinality(held)
  BY <1>2, <1>3, FS_Subset
<1>. HIDE DEF held, busy
<1>5. /\ {queue[i] : i \in 1..Len(queue)} = ToSet(queue)
      /\ {completed[i] : i \in 1..Len(completed)} = ToSet(completed)
  <2>1. DOMAIN queue = 1..Len(queue) /\ DOMAIN completed = 1..Len(completed)
    BY PoolFacts, InLine DEF PoolTypes
  <2>. QED
    BY <2>1 DEF ToSet
<1>6. /\ IsFiniteSet(ToSet(queue)) /\ Cardinality(ToSet(queue)) <= Len(queue)
      /\ IsFiniteSet(ToSet(completed)) /\ Cardinality(ToSet(completed)) <= Len(completed)
  BY PoolFacts, LineSize DEF PoolTypes
<1>. DEFINE some == Pool!Held \cup ToSet(queue)
<1>7. /\ IsFiniteSet(some) /\ Cardinality(some) <= Cardinality(Pool!Held) + Cardinality(ToSet(queue))
      /\ Cardinality(Pool!Held) \in Nat /\ Cardinality(ToSet(queue)) \in Nat /\ Cardinality(some) \in Nat
  BY <1>4, <1>6, UnionSize
<1>8. Pool!Owned = some \cup ToSet(completed)
  BY <1>5 DEF Pool!Owned
<1>. HIDE DEF some
<1>9. /\ Cardinality(Pool!Owned) <= Cardinality(some) + Cardinality(ToSet(completed))
      /\ Cardinality(ToSet(completed)) \in Nat /\ Cardinality(Pool!Owned) \in Nat
  BY <1>6, <1>7, <1>8, UnionSize
<1>10. Cardinality(busy) \in Nat /\ Cardinality(held) \in Nat
  BY <1>1, <1>2, FS_CardinalityType
<1>11. Cardinality(Pool!Owned) <= Len(queue) + Len(completed) + running + discarding
  BY <1>1, <1>2, <1>4, <1>6, <1>7, <1>9, <1>10, PoolFacts, SMTT(30)
<1>. QED
  BY <1>11, PoolSizes, PoolFacts DEF Pool!CapacityHeld, Pool!Charged, PoolCharged

\* What a worker without a job does, and stop.
LEMMA RestInv ==
  ASSUME Pool!BlockingAssumption, PoolInv,
         \/ Pool!stop
         \/ \E w \in Workers : \/ Pool!drained(w) \/ Pool!fail(w)
                              \/ (Pool!take(w) /\ Pool!Abandoned(completed) = {} /\ queue = <<>>)
  PROVE  PoolInv'
<1>1. PoolTypes /\ winner \in [Callers -> {"none", "ready", "cancelled", "closed"}]
  BY PoolFacts DEF PoolTypes
<1>2. CASE Pool!stop
  BY <1>1, <1>2, IdleInv DEF Pool!stop, Pool!jobs
<1>3. ASSUME NEW w \in Workers, Pool!drained(w)
      PROVE  PoolInv'
  BY <1>1, <1>3, IdleInv DEF Pool!drained, Pool!pool, Pool!jobs, Pool!At
<1>4. ASSUME NEW w \in Workers, Pool!fail(w)
      PROVE  PoolInv'
  <2>1. /\ winner' \in [Callers -> {"none", "ready", "cancelled", "closed"}]
        /\ \A c \in Callers : winner'[c] = "ready" => winner[c] = "ready"
    <3>1. /\ winner' = [c \in Callers |-> IF \E i \in 1..Len(queue) : queue[i] = c
                                         THEN Pool!Select(c, "closed")[c] ELSE winner[c]]
      BY <1>4 DEF Pool!fail
    <3>2. \A c \in Callers : Pool!Select(c, "closed")[c] \in {winner[c], "closed"}
      BY <1>1 DEF Pool!Select
    <3>. QED
      BY <1>1, <3>1, <3>2
  <2>2. UNCHANGED <<queue, completed, running, discarding, abandoned, output, call>>
    BY <1>4 DEF Pool!fail
  <2>3. worker[w].pc = "take" /\ worker' = [worker EXCEPT ![w].failing = TRUE, ![w].drain = PoolCapacity]
    BY <1>4 DEF Pool!fail, Pool!At
  <2>. QED
    BY <2>1, <2>2, <2>3, IdleInv
<1>5. ASSUME NEW w \in Workers, Pool!take(w), Pool!Abandoned(completed) = {}, queue = <<>>
      PROVE  PoolInv'
  <2>1. UNCHANGED <<queue, completed, running, discarding, abandoned, output, winner, call>>
    BY <1>5 DEF Pool!take, Pool!jobs
  <2>2. worker' = worker \/ (worker[w].pc = "take" /\ worker' = [worker EXCEPT ![w].pc = "exit"])
    <3>1. worker[w].pc = "take"
      BY <1>5 DEF Pool!take, Pool!At
    <3>2. worker' = worker \/ worker' = [worker EXCEPT ![w].pc = "exit"]
      BY <1>5, Zenon DEF Pool!take
    <3>. QED
      BY <3>1, <3>2
  <2>. QED
    BY <1>1, <2>1, <2>2, IdleInv
<1>. QED
  BY <1>2, <1>3, <1>4, <1>5

\* The invariant of the pool.
LEMMA PoolInvariance ==
  ASSUME Pool!BlockingAssumption
  PROVE  Pool!Spec => []PoolInv
<1>1. Pool!Init => PoolInv
  <2>. SUFFICES ASSUME Pool!Init PROVE PoolInv
    OBVIOUS
  <2>1. /\ queue = <<>> /\ completed = <<>> /\ running = 0 /\ discarding = 0
        /\ abandoned = [c \in Callers |-> FALSE] /\ output = [c \in Callers |-> "empty"]
        /\ winner = [c \in Callers |-> "none"] /\ call = [c \in Callers |-> "idle"]
        /\ worker = [w \in Workers |-> [pc |-> "take", job |-> "none", discard |-> FALSE,
                                       failing |-> FALSE, drain |-> 0]]
    BY DEF Pool!Init, Pool!Fresh
  <2>2. queue \in LineOf(Callers) /\ completed \in LineOf(Callers) /\ ToSet(queue) = {} /\ ToSet(completed) = {}
    BY <2>1, NobodyInLine
  <2>3. PoolTypes
    BY <2>1, <2>2 DEF PoolTypes, WorkerRec
  <2>4. \A w \in Workers : ~Busy(w) /\ worker[w].job = "none"
    BY <2>1 DEF Busy, WithJob
  <2>5. PoolCounted
    <3>1. Running = {} /\ Discarding = {}
      BY <2>4 DEF Running, Discarding
    <3>. QED
      BY <2>1, <3>1, FS_EmptySet DEF PoolCounted
  <2>6. PoolCharged
    <3>1. Len(queue) = 0 /\ Len(completed) = 0
      BY <2>1
    <3>. QED
      BY <2>1, <3>1 DEF PoolCharged, Pool!BlockingAssumption
  <2>7. Alone /\ \A w \in Workers : WorkerFits(w)
    BY <2>4 DEF Alone, WorkerFits
  <2>8. \A c \in Callers : CallFits(c)
    BY <2>1, <2>2 DEF CallFits, Waits
  <2>. QED
    BY <2>3, <2>5, <2>6, <2>7, <2>8 DEF PoolInv
<1>2. PoolInv /\ [Pool!Next]_Pool!vars => PoolInv'
  <2>. SUFFICES ASSUME PoolInv, [Pool!Next]_Pool!vars PROVE PoolInv'
    OBVIOUS
  <2>1. CASE UNCHANGED Pool!vars
    <3>1. UNCHANGED <<queue, completed, running, discarding, abandoned, output, winner, call, worker>>
      BY <2>1 DEF Pool!vars, Pool!pool, Pool!jobs
    <3>2. winner \in [Callers -> {"none", "ready", "cancelled", "closed"}]
      BY PoolFacts DEF PoolTypes
    <3>. QED
      BY <3>1, <3>2, IdleInv
  <2>2. ASSUME NEW c \in Callers, Pool!submit(c) \/ Pool!interrupt(c) \/ Pool!CallerStep(c)
        PROVE  PoolInv'
    BY <2>2, SubmitInv, CallInv DEF Pool!CallerStep
  <2>3. ASSUME NEW w \in Workers, Pool!take(w)
        PROVE  PoolInv'
    BY <2>3, TakeAbandoned, TakeFront, RestInv
  <2>4. ASSUME NEW w \in Workers, Pool!settle(w)
        PROVE  PoolInv'
    BY <2>4, RunInv, JobLeft
  <2>5. ASSUME NEW w \in Workers,
               Pool!execute(w) \/ Pool!select_ready(w) \/ Pool!destroy(w) \/ Pool!uncharge(w)
        PROVE  PoolInv'
    BY <2>5, RunInv, JobLeft
  <2>6. ASSUME NEW w \in Workers, Pool!drained(w) \/ Pool!fail(w)
        PROVE  PoolInv'
    BY <2>6, RestInv
  <2>7. ASSUME NEW w \in Workers, Pool!WorkerStep(w) \/ Pool!fail(w)
        PROVE  PoolInv'
    BY <2>3, <2>4, <2>5, <2>6, <2>7 DEF Pool!WorkerStep
  <2>8. ASSUME Pool!stop
        PROVE  PoolInv'
    BY <2>8, RestInv
  <2>. QED
    BY <2>1, <2>2, <2>7, <2>8 DEF Pool!Next
<1>. QED
  BY <1>1, <1>2, PTL DEF Pool!Spec

\* What the pool owns, wherever a worker, an abandoned caller or a failure has
\* brought it, is charged and within the capacity (pool.rs:116).
THEOREM CapacityStaysHeld ==
  ASSUME Pool!BlockingAssumption
  PROVE  Pool!Spec => []CapacityHeld
<1>1. PoolInv => CapacityHeld
  BY OwnedIsCharged DEF CapacityHeld
<1>. QED
  BY <1>1, PoolInvariance, PTL

\* A caller that Ready won finds its result, however late it resumes and
\* whatever the workers reclaim meanwhile (blocking.rs:11).
THEOREM ResultStaysCommitted ==
  ASSUME Pool!BlockingAssumption
  PROVE  Pool!Spec => []ResultCommitted
<1>1. PoolInv => ResultCommitted
  BY DEF PoolInv, CallFits, ResultCommitted, Pool!ResultCommitted
<1>. QED
  BY <1>1, PoolInvariance, PTL

-----------------------------------------------------------------------------
(* The life of a runtime *)

Done(r) == phase[r] \in {Complete, Failed}
Ending == {"carriers", "reclaimed", "readiness", "native"}
CoordinatorAt == Ending \cup {"none", "gate", "version", "look", "asleep", "returned", "dead"}
CallerAt == {"reserve", "install", "services", "publish", "carriers", "check", "ready", "abandon",
             "refused", "open", "version", "look", "health", "asleep", "complete", "failed"}
OwnerAt == {"reap", "join", "drained", "release", "advance", "fail", "record", "dead"}
OwnerRec == [pc : OwnerAt, claim : SUBSET Runtimes, verdict : 0..6, targets : SUBSET Runtimes]
ThreadAt == {"none", "live", "failing", "exited", "unwound", "joined"}
LifeTypes ==
  /\ entries \subseteq Runtimes /\ occupied \in Nat /\ owner \in OwnerRec
  /\ caller \in [Runtimes -> CallerAt] /\ coordinator \in [Runtimes -> CoordinatorAt]
  /\ thread \in [Runtimes -> [Parts -> ThreadAt]]
  /\ reclaimed \in [Runtimes -> SUBSET Parts] /\ failures \in [Runtimes -> BOOLEAN]
  /\ phase \in [Runtimes -> 0..6]

\* A runtime under construction has no entry, and one whose coordinator went
\* past the start of a shutdown is constructed: its threads are all it ever has.
Starting(r) ==
  /\ caller[r] \in {"reserve", "install"} => r \notin entries /\ r \notin owner.claim
  /\ caller[r] = "reserve" => coordinator[r] = "none"
  /\ caller[r] = "install" => coordinator[r] = "gate"
Built(r) == coordinator[r] \in Ending \cup {"returned"} => constructed(r)
Verdict(r) == IF failures[r] THEN Failed ELSE Complete
RuntimeFits(r) ==
  /\ Starting(r) /\ Built(r)
  /\ Done(r) => drained(r) /\ phase[r] = Verdict(r)
  /\ r \in entries \/ r \in owner.claim => coordinator[r] # "none" /\ ~Done(r)

\* The owner has one claim at most, which is not an entry; from confirm on it
\* is drained and what is to be published of it stays true.
ClaimFits(r) ==
  /\ r \notin entries /\ coordinator[r] \in {"returned", "dead"}
  /\ owner.pc \in {"release", "advance"} => drained(r) /\ owner.verdict = Verdict(r)
OwnerFits ==
  /\ owner.claim # {} <=> owner.pc \in {"join", "drained", "release", "advance"}
  /\ \A q, r \in owner.claim : q = r
  /\ \A r \in owner.claim : ClaimFits(r)

\* A place in the process table is held from the reservation to the release.
HasPlace(r) == /\ coordinator[r] # "none" /\ ~Done(r)
               /\ ~(r \in owner.claim /\ owner.pc = "advance")
Places == {r \in Runtimes : HasPlace(r)}
PlacesCounted == IsFiniteSet(Places) /\ occupied = Cardinality(Places)

LifeInv == /\ LifeTypes /\ PlacesCounted /\ OwnerFits
           /\ \A r \in Runtimes : RuntimeFits(r)

\* The phases of a shutdown.
LEMMA PhaseFacts ==
  ASSUME LifeTypes, NEW r \in Runtimes, NEW p \in 0..6
  PROVE  /\ Greater(phase[r], p) \in 0..6 /\ phase[r] \in 0..6
         /\ Done(r) <=> phase[r] > 4
         /\ p <= 4 => Greater(phase[r], p) > 4 <=> Done(r)
         /\ p > 4 /\ ~Done(r) => Greater(phase[r], p) = p
<1>1. phase[r] \in 0..6
  BY DEF LifeTypes
<1>2. Done(r) <=> phase[r] > 4
  BY <1>1 DEF Done, Complete, Failed
<1>. QED
  BY <1>1, <1>2 DEF Greater

\* What a step starts from.
LEMMA LifeFacts ==
  ASSUME LifeInv
  PROVE  /\ LifeTypes /\ PlacesCounted /\ OwnerFits
         /\ owner \in OwnerRec /\ owner.claim \subseteq Runtimes /\ entries \subseteq Runtimes
         /\ \A r \in Runtimes : RuntimeFits(r) /\ Starting(r) /\ Built(r)
         /\ \A r \in Runtimes : Done(r) => drained(r) /\ r \notin entries /\ r \notin owner.claim
         /\ \A r \in Runtimes : r \in owner.claim =>
              coordinator[r] \in {"returned", "dead"} /\ (~drained(r) => owner.pc \notin {"release", "advance"})
         /\ \A r \in Runtimes : drained(r) => coordinator[r] = "returned" /\ constructed(r)
<1>1. owner \in OwnerRec /\ owner.claim \subseteq Runtimes
  BY DEF LifeInv, LifeTypes, OwnerRec
<1>2. \A r \in Runtimes : drained(r) => coordinator[r] = "returned"
  BY DEF drained
<1>. QED
  BY <1>1, <1>2 DEF LifeInv, LifeTypes, RuntimeFits, OwnerFits, ClaimFits, Built

\* A step of runtime r that is not over.
LEMMA RuntimeMoves ==
  ASSUME LifeInv, NEW r \in Runtimes, LifeTypes', UNCHANGED <<entries, owner, occupied>>,
         \A q \in Runtimes : q # r =>
           /\ caller'[q] = caller[q] /\ coordinator'[q] = coordinator[q] /\ thread'[q] = thread[q]
           /\ reclaimed'[q] = reclaimed[q] /\ phase'[q] = phase[q] /\ failures'[q] = failures[q],
         ~Done(r), ~Done(r)', Starting(r)', Built(r)',
         coordinator'[r] = "none" <=> coordinator[r] = "none",
         r \in owner.claim => coordinator'[r] = coordinator[r],
         \/ ~drained(r)
         \/ /\ thread'[r] = thread[r] /\ coordinator'[r] = coordinator[r]
            /\ reclaimed'[r] = reclaimed[r] /\ failures'[r] = failures[r]
  PROVE  LifeInv'
<1>1. \A q \in Runtimes : q # r => /\ Done(q)' <=> Done(q)
                                   /\ drained(q)' <=> drained(q)
                                   /\ HasPlace(q)' <=> HasPlace(q)
                                   /\ Verdict(q)' = Verdict(q)
  BY DEF Done, drained, carriers_reclaimed, HasPlace, Verdict
<1>2. HasPlace(r)' <=> HasPlace(r)
  BY DEF HasPlace
<1>3. PlacesCounted'
  <2>1. Places' = Places
    BY <1>1, <1>2 DEF Places
  <2>. QED
    BY <2>1, LifeFacts DEF PlacesCounted
<1>4. \A q \in Runtimes : RuntimeFits(q)'
  <2>1. RuntimeFits(r)'
    BY LifeFacts DEF RuntimeFits
  <2>2. ASSUME NEW q \in Runtimes, q # r
        PROVE  RuntimeFits(q)'
    <3>1. RuntimeFits(q)
      BY LifeFacts
    <3>2. Starting(q)' /\ Built(q)'
      BY <2>2, <3>1 DEF RuntimeFits, Starting, Built, constructed
    <3>. QED
      BY <1>1, <2>2, <3>1, <3>2 DEF RuntimeFits
  <2>. QED
    BY <2>1, <2>2
<1>5. OwnerFits'
  <2>1. OwnerFits /\ owner.claim \subseteq Runtimes
    BY LifeFacts
  <2>2. ASSUME NEW q \in owner.claim
        PROVE  ClaimFits(q)'
    <3>1. ClaimFits(q) /\ q \in Runtimes
      BY <2>1 DEF OwnerFits
    <3>2. CASE q # r
      BY <1>1, <3>1, <3>2 DEF ClaimFits
    <3>3. CASE q = r /\ ~drained(r)
      BY <3>1, <3>3 DEF ClaimFits
    <3>4. CASE q = r /\ drained(r)
      <4>1. drained(r)' /\ Verdict(r)' = Verdict(r)
        BY <3>4 DEF drained, carriers_reclaimed, Verdict
      <4>. QED
        BY <3>1, <3>4, <4>1 DEF ClaimFits
    <3>. QED
      BY <3>2, <3>3, <3>4
  <2>. QED
    BY <2>1, <2>2 DEF OwnerFits
<1>. QED
  BY <1>3, <1>4, <1>5 DEF LifeInv

\* A step of the thread that builds r and shuts it down, and steps about none
\* of this.
LEMMA CallerMoves ==
  ASSUME LifeInv, NEW r \in Runtimes, caller' \in [Runtimes -> CallerAt],
         UNCHANGED <<entries, owner, occupied, coordinator, thread, reclaimed, phase, failures>>,
         \A q \in Runtimes : q # r => caller'[q] = caller[q],
         caller'[r] \notin {"reserve", "install"} \/ caller'[r] = caller[r],
         constructed(r) => constructed(r)'
  PROVE  LifeInv'
<1>1. \A q \in Runtimes : /\ Done(q)' <=> Done(q)
                          /\ drained(q)' <=> drained(q)
                          /\ HasPlace(q)' <=> HasPlace(q)
                          /\ Verdict(q)' = Verdict(q)
                          /\ constructed(q) => constructed(q)'
  BY DEF Done, drained, carriers_reclaimed, HasPlace, Verdict, constructed
<1>2. LifeTypes'
  BY LifeFacts DEF LifeTypes
<1>3. PlacesCounted'
  <2>1. Places' = Places
    BY <1>1 DEF Places
  <2>. QED
    BY <2>1, LifeFacts DEF PlacesCounted
<1>4. \A q \in Runtimes : RuntimeFits(q)'
  <2>. SUFFICES ASSUME NEW q \in Runtimes PROVE RuntimeFits(q)'
    OBVIOUS
  <2>1. RuntimeFits(q)
    BY LifeFacts
  <2>2. Starting(q)'
    BY <2>1 DEF RuntimeFits, Starting
  <2>3. Built(q)'
    BY <1>1, <2>1 DEF RuntimeFits, Built
  <2>. QED
    BY <1>1, <2>1, <2>2, <2>3 DEF RuntimeFits
<1>5. OwnerFits'
  <2>1. OwnerFits /\ owner.claim \subseteq Runtimes
    BY LifeFacts
  <2>2. \A q \in owner.claim : ClaimFits(q)'
    BY <1>1, <2>1 DEF OwnerFits, ClaimFits
  <2>. QED
    BY <2>1, <2>2 DEF OwnerFits
<1>. QED
  BY <1>2, <1>3, <1>4, <1>5 DEF LifeInv

\* The calling thread goes from one place to another.
LEMMA CallFacts ==
  ASSUME LifeTypes, NEW r \in Runtimes, NEW pc \in CallerAt, Call(r, pc)
  PROVE  /\ caller' \in [Runtimes -> CallerAt] /\ caller'[r] = pc
         /\ \A q \in Runtimes : q # r => caller'[q] = caller[q]
BY DEF LifeTypes, Call

\* Building and waiting of the calling thread that leaves the threads alone,
\* and the requests that record no failure and no phase.
LEMMA CallerInv ==
  ASSUME LifeInv, NEW r \in Runtimes,
         \/ publish(r) \/ check_health(r) \/ ready(r) \/ shutdown(r) \/ Wait(r) \/ time_out(r)
         \/ request_shutdown(r)
         \/ \E w \in Requesters : stop_pool(r, w) \/ stop_reactor(r, w)
  PROVE  LifeInv'
<1>1. UNCHANGED <<entries, owner, occupied, coordinator, thread, reclaimed, phase, failures>>
  BY DEF publish, check_health, ready, shutdown, Wait, wait_version, wait_look, wait_health, wait_wake,
         time_out, request_shutdown, stop_pool, stop_reactor, slots, shared, threads
<1>2. LifeTypes /\ caller \in [Runtimes -> CallerAt]
  BY LifeFacts DEF LifeTypes
<1>3. \/ caller' = caller
      \/ \E pc \in CallerAt \ {"reserve", "install"} :
           /\ Call(r, pc)
           /\ constructed(r) => pc \in {"open", "version", "look", "health", "asleep", "complete", "failed"}
  <2>1. CASE publish(r)
    <3>1. Call(r, "carriers") /\ ~constructed(r)
      BY <2>1 DEF publish, constructed
    <3>. QED
      BY <3>1 DEF CallerAt
  <2>2. CASE check_health(r)
    <3>1. (Call(r, "abandon") \/ Call(r, "ready")) /\ ~constructed(r)
      BY <2>2 DEF check_health, constructed
    <3>. QED
      BY <3>1 DEF CallerAt
  <2>3. CASE ready(r)
    <3>1. Call(r, "open") \/ Call(r, "version")
      BY <2>3 DEF ready
    <3>. QED
      BY <3>1 DEF CallerAt
  <2>4. CASE shutdown(r)
    <3>1. Call(r, "version")
      BY <2>4 DEF shutdown
    <3>. QED
      BY <3>1 DEF CallerAt
  <2>5. CASE Wait(r)
    <3>1. \E pc \in {"look", "complete", "failed", "health", "asleep", "version"} : Call(r, pc)
      BY <2>5 DEF Wait, wait_version, wait_look, wait_health, wait_wake
    <3>. QED
      BY <3>1 DEF CallerAt
  <2>6. CASE time_out(r)
    <3>1. Call(r, "open")
      BY <2>6 DEF time_out
    <3>. QED
      BY <3>1 DEF CallerAt
  <2>7. CASE request_shutdown(r) \/ \E w \in Requesters : stop_pool(r, w) \/ stop_reactor(r, w)
    BY <2>7 DEF request_shutdown, stop_pool, stop_reactor
  <2>. QED
    BY <2>1, <2>2, <2>3, <2>4, <2>5, <2>6, <2>7
<1>4. CASE caller' = caller
  <2>1. constructed(r) => constructed(r)'
    BY <1>4 DEF constructed
  <2>. QED
    BY <1>1, <1>2, <1>4, <2>1, CallerMoves
<1>5. ASSUME NEW pc \in CallerAt \ {"reserve", "install"}, Call(r, pc),
             constructed(r) => pc \in {"open", "version", "look", "health", "asleep", "complete", "failed"}
      PROVE  LifeInv'
  <2>1. /\ caller' \in [Runtimes -> CallerAt] /\ caller'[r] = pc
        /\ \A q \in Runtimes : q # r => caller'[q] = caller[q]
    BY <1>2, <1>5, CallFacts
  <2>2. constructed(r) => constructed(r)'
    BY <1>5, <2>1 DEF constructed
  <2>. QED
    BY <1>1, <2>1, <2>2, CallerMoves
<1>. QED
  BY <1>3, <1>4, <1>5

\* A stop is announced: the phase goes up, short of an end.
LEMMA StopInboxesInv ==
  ASSUME LifeInv, NEW r \in Runtimes, NEW w \in Requesters, stop_inboxes(r, w)
  PROVE  LifeInv'
<1>1. /\ UNCHANGED <<entries, owner, occupied, caller, coordinator, thread, reclaimed, failures>>
      /\ phase' = [phase EXCEPT ![r] = Greater(phase[r], 1)]
  BY DEF stop_inboxes, slots, threads, Requested
<1>2. LifeTypes /\ phase \in [Runtimes -> 0..6] /\ Starting(r) /\ Built(r)
  BY LifeFacts DEF LifeTypes
<1>3. Greater(phase[r], 1) \in 0..6 /\ (Greater(phase[r], 1) > 4 <=> Done(r))
  BY <1>2, PhaseFacts
<1>4. /\ phase' \in [Runtimes -> 0..6] /\ phase'[r] = Greater(phase[r], 1)
      /\ \A q \in Runtimes : q # r => phase'[q] = phase[q]
  BY <1>1, <1>2, <1>3
<1>5. CASE Done(r)
  <2>1. phase' = phase
    BY <1>1, <1>2, <1>5 DEF Greater, Done, Complete, Failed
  <2>2. constructed(r) => constructed(r)'
    BY <1>1 DEF constructed
  <2>. QED
    BY <1>1, <1>2, <2>1, <2>2, CallerMoves DEF LifeTypes
<1>6. CASE ~Done(r)
  <2>1. LifeTypes'
    BY <1>1, <1>2, <1>4 DEF LifeTypes
  <2>2. ~Done(r)'
    BY <1>3, <1>4, <1>6 DEF Done, Complete, Failed
  <2>3. Starting(r)' /\ Built(r)'
    BY <1>1, <1>2 DEF Starting, Built, constructed
  <2>. QED
    BY <1>1, <1>4, <1>6, <2>1, <2>2, <2>3, RuntimeMoves
<1>. QED
  BY <1>5, <1>6

\* The services and the carriers of a runtime are started.
LEMMA StartInv ==
  ASSUME LifeInv, NEW r \in Runtimes, services(r) \/ carriers(r)
  PROVE  LifeInv'
<1>1. /\ UNCHANGED <<entries, owner, occupied, coordinator, reclaimed, phase, failures>>
      /\ caller[r] \in {"services", "carriers"}
  BY DEF services, carriers, slots, shared
<1>2. LifeTypes /\ Starting(r) /\ Built(r) /\ ~constructed(r)
  BY <1>1, LifeFacts DEF constructed
<1>3. /\ thread' \in [Runtimes -> [Parts -> ThreadAt]]
      /\ \A q \in Runtimes : q # r => thread'[q] = thread[q]
  <2>1. \/ thread' = thread
        \/ thread' = [thread EXCEPT ![r]["reactor"] = "live", ![r]["native"] = "live"]
        \/ thread' = [thread EXCEPT ![r]["carrier"] = "live"]
    BY DEF services, carriers, Thread
  <2>. QED
    BY <1>2, <2>1 DEF LifeTypes, Parts, ThreadAt
<1>4. PICK pc \in CallerAt \ {"reserve", "install"} : Call(r, pc)
  BY DEF services, carriers, CallerAt
<1>5. /\ caller' \in [Runtimes -> CallerAt] /\ caller'[r] = pc
      /\ \A q \in Runtimes : q # r => caller'[q] = caller[q]
  BY <1>2, <1>4, CallFacts
<1>6. ~drained(r) /\ ~Done(r)
  BY <1>2, LifeFacts
<1>7. ~Done(r)' /\ LifeTypes'
  BY <1>1, <1>2, <1>3, <1>5, <1>6 DEF Done, LifeTypes
<1>8. Starting(r)' /\ Built(r)'
  BY <1>1, <1>2, <1>5 DEF Starting, Built
<1>. QED
  BY <1>1, <1>3, <1>5, <1>6, <1>7, <1>8, RuntimeMoves

\* The threads that r owns fail or come to an end.
LEMMA ThreadInv ==
  ASSUME LifeInv, NEW r \in Runtimes,
         \/ Carrier(r) \/ run_reactor(r) \/ run_native(r)
         \/ \E p \in {"reactor", "native"} : fail_service(r, p)
  PROVE  LifeInv'
<1>1. UNCHANGED <<entries, owner, occupied, caller, coordinator, phase>>
  BY DEF Carrier, run_carrier, exit_carrier, run_reactor, run_native, end_service, fail_service,
         slots, shared, threads
<1>2. LifeTypes /\ Starting(r) /\ Built(r)
  BY LifeFacts
<1>3. /\ \E p \in Parts : thread[r][p] \in {"live", "failing"}
      /\ \/ thread' = thread
         \/ \E p \in Parts, to \in ThreadAt : thread' = [thread EXCEPT ![r][p] = to]
  <2>. USE DEF Thread, ThreadAt
  <2>1. CASE Carrier(r)
    BY <2>1 DEF Carrier, run_carrier, exit_carrier, Parts
  <2>2. CASE run_reactor(r) \/ run_native(r)
    BY <2>2 DEF run_reactor, run_native, end_service, Parts
  <2>3. CASE \E p \in {"reactor", "native"} : fail_service(r, p)
    BY <2>3 DEF fail_service, threads, Parts
  <2>. QED
    BY <2>1, <2>2, <2>3
<1>4. /\ thread' \in [Runtimes -> [Parts -> ThreadAt]]
      /\ \A q \in Runtimes : q # r => thread'[q] = thread[q]
  <2>1. thread \in [Runtimes -> [Parts -> ThreadAt]]
    BY <1>2 DEF LifeTypes
  <2>2. ASSUME NEW p \in Parts, NEW to \in ThreadAt, thread' = [thread EXCEPT ![r][p] = to]
        PROVE  /\ thread' \in [Runtimes -> [Parts -> ThreadAt]]
               /\ \A q \in Runtimes : q # r => thread'[q] = thread[q]
    BY <2>1, <2>2
  <2>. QED
    BY <1>3, <2>1, <2>2
<1>5. ~drained(r) /\ ~Done(r)
  <2>1. ~drained(r)
    BY <1>3 DEF drained, carriers_reclaimed, Parts
  <2>. QED
    BY <2>1, LifeFacts
<1>6. /\ reclaimed' \in [Runtimes -> SUBSET Parts] /\ failures' \in [Runtimes -> BOOLEAN]
      /\ \A q \in Runtimes : q # r => reclaimed'[q] = reclaimed[q] /\ failures'[q] = failures[q]
  <2>1. /\ reclaimed' = reclaimed \/ \E p \in Parts : reclaimed' = [reclaimed EXCEPT ![r] = @ \cup {p}]
        /\ failures' = failures \/ failures' = [failures EXCEPT ![r] = TRUE]
    BY DEF Carrier, run_carrier, exit_carrier, run_reactor, run_native, end_service, fail_service,
           Reclaim, shared, threads, Parts
  <2>2. reclaimed \in [Runtimes -> SUBSET Parts] /\ failures \in [Runtimes -> BOOLEAN]
    BY <1>2 DEF LifeTypes
  <2>3. ASSUME NEW p \in Parts, reclaimed' = [reclaimed EXCEPT ![r] = @ \cup {p}]
        PROVE  /\ reclaimed' \in [Runtimes -> SUBSET Parts]
               /\ \A q \in Runtimes : q # r => reclaimed'[q] = reclaimed[q]
    <3>1. reclaimed[r] \cup {p} \in SUBSET Parts
      BY <2>2
    <3>. QED
      BY <2>2, <2>3, <3>1
  <2>4. /\ failures' \in [Runtimes -> BOOLEAN]
        /\ \A q \in Runtimes : q # r => failures'[q] = failures[q]
    BY <2>1, <2>2
  <2>. QED
    BY <2>1, <2>2, <2>3, <2>4
<1>7. ~Done(r)' /\ LifeTypes'
  BY <1>1, <1>2, <1>4, <1>5, <1>6 DEF Done, LifeTypes
<1>8. Starting(r)' /\ Built(r)'
  BY <1>1, <1>2 DEF Starting, Built, constructed
<1>. QED
  BY <1>1, <1>4, <1>5, <1>6, <1>7, <1>8, RuntimeMoves

\* The coordinator goes on: it waits for a shutdown of what is constructed,
\* and joins the threads.
LEMMA CoordinatorInv ==
  ASSUME LifeInv, NEW r \in Runtimes, Coordinator(r) \/ die(r)
  PROVE  LifeInv'
<1>1. UNCHANGED <<entries, owner, occupied, caller, reclaimed>>
  BY DEF Coordinator, await_version, await_look, await_wake, join_carriers, drain_services,
         join_readiness, join_native, die, slots, shared
<1>2. LifeTypes /\ Starting(r) /\ Built(r)
  BY LifeFacts
<1>3. coordinator[r] \in Ending \cup {"version", "look", "asleep"}
  BY DEF Coordinator, await_version, await_look, await_wake, join_carriers, drain_services,
         join_readiness, join_native, die, Ending
<1>4. PICK to \in Ending \cup {"version", "look", "asleep", "returned", "dead"} :
        /\ Coordinate(r, to)
        /\ to \in Ending \cup {"returned"} => coordinator[r] \in Ending \/ constructed(r)
  <2>1. CASE await_version(r) \/ await_wake(r)
    <3>1. Coordinate(r, "look") \/ Coordinate(r, "version")
      BY <2>1 DEF await_version, await_wake
    <3>. QED
      BY <3>1 DEF Ending
  <2>2. CASE await_look(r)
    <3>1. (Coordinate(r, "carriers") /\ constructed(r)) \/ Coordinate(r, "asleep")
      BY <2>2 DEF await_look
    <3>. QED
      BY <3>1 DEF Ending
  <2>3. CASE join_carriers(r) \/ drain_services(r) \/ join_readiness(r) \/ join_native(r) \/ die(r)
    <3>1. /\ coordinator[r] \in Ending
          /\ \E p \in {"reclaimed", "readiness", "returned", "native", "dead"} : Coordinate(r, p)
      BY <2>3 DEF join_carriers, drain_services, join_readiness, join_native, die, Ending
    <3>. QED
      BY <3>1 DEF Ending
  <2>. QED
    BY <2>1, <2>2, <2>3 DEF Coordinator
<1>5. /\ coordinator' \in [Runtimes -> CoordinatorAt] /\ coordinator'[r] = to
      /\ \A q \in Runtimes : q # r => coordinator'[q] = coordinator[q]
  BY <1>2, <1>4 DEF LifeTypes, Coordinate, CoordinatorAt
<1>6. /\ thread' \in [Runtimes -> [Parts -> ThreadAt]]
      /\ \A q \in Runtimes : q # r => thread'[q] = thread[q]
  <2>1. thread' = thread \/ \E p \in Parts : thread' = [thread EXCEPT ![r][p] = "joined"]
    <3>1. \A p : join(r, p) => thread' = thread \/ thread' = [thread EXCEPT ![r][p] = "joined"]
      BY DEF join
    <3>2. thread' = thread \/ \E p \in Parts : join(r, p)
      BY DEF Coordinator, await_version, await_look, await_wake, join_carriers, drain_services,
             join_readiness, join_native, die, Parts
    <3>. QED
      BY <3>1, <3>2
  <2>2. CASE thread' = thread
    BY <1>2, <2>2 DEF LifeTypes
  <2>3. ASSUME NEW p \in Parts, thread' = [thread EXCEPT ![r][p] = "joined"]
        PROVE  /\ thread' \in [Runtimes -> [Parts -> ThreadAt]]
               /\ \A q \in Runtimes : q # r => thread'[q] = thread[q]
    BY <1>2, <2>3 DEF LifeTypes, ThreadAt
  <2>. QED
    BY <2>1, <2>2, <2>3
<1>7. ~drained(r) /\ ~Done(r) /\ r \notin owner.claim
  <2>1. coordinator[r] \notin {"returned", "dead"}
    BY <1>3 DEF Ending
  <2>. QED
    BY <2>1, LifeFacts
<1>. DEFINE Short == /\ phase' \in [Runtimes -> 0..6] /\ ~Done(r)'
                     /\ \A q \in Runtimes : q # r => phase'[q] = phase[q]
<1>8. Short
  <2>1. phase' = phase \/ \E p \in 2..4 : phase' = [phase EXCEPT ![r] = Greater(phase[r], p)]
    <3>1. \A p : Advance(r, p) => phase' = [phase EXCEPT ![r] = Greater(phase[r], p)]
      BY DEF Advance
    <3>2. phase' = phase \/ \E p \in 2..4 : Advance(r, p)
      BY DEF Coordinator, await_version, await_look, await_wake, join_carriers, drain_services,
             join_readiness, join_native, die, shared, JoiningCarriers, JoiningReadiness, JoiningNative
    <3>. QED
      BY <3>1, <3>2
  <2>2. CASE phase' = phase
    BY <1>2, <1>7, <2>2 DEF LifeTypes, Done
  <2>3. ASSUME NEW p \in 2..4, phase' = [phase EXCEPT ![r] = Greater(phase[r], p)]
        PROVE  Short
    <3>1. Greater(phase[r], p) \in 0..6 /\ ~(Greater(phase[r], p) > 4)
      BY <1>2, <1>7, PhaseFacts
    <3>2. /\ phase' \in [Runtimes -> 0..6] /\ phase'[r] = Greater(phase[r], p)
          /\ \A q \in Runtimes : q # r => phase'[q] = phase[q]
      BY <1>2, <2>3, <3>1 DEF LifeTypes
    <3>. QED
      BY <3>1, <3>2 DEF Done, Complete, Failed
  <2>. QED
    BY <2>1, <2>2, <2>3
<1>9. /\ failures' \in [Runtimes -> BOOLEAN]
      /\ \A q \in Runtimes : q # r => failures'[q] = failures[q]
  <2>1. failures' = failures \/ \E b \in BOOLEAN : failures' = [failures EXCEPT ![r] = b]
    <3>1. \A p \in Parts : join(r, p) => \E b \in BOOLEAN : failures' = [failures EXCEPT ![r] = b]
      BY <1>2 DEF join, LifeTypes
    <3>2. failures' = failures \/ \E p \in Parts : join(r, p)
      BY DEF Coordinator, await_version, await_look, await_wake, join_carriers, drain_services,
             join_readiness, join_native, die, shared, Parts
    <3>. QED
      BY <3>1, <3>2
  <2>. QED
    BY <1>2, <2>1 DEF LifeTypes
<1>10. LifeTypes'
  BY <1>1, <1>2, <1>5, <1>6, <1>8, <1>9 DEF LifeTypes
<1>11. Built(r)' /\ Starting(r)'
  <2>1. constructed(r)' <=> constructed(r)
    BY <1>1 DEF constructed
  <2>2. Built(r)'
    BY <1>2, <1>4, <1>5, <2>1 DEF Built
  <2>3. Starting(r)'
    BY <1>1, <1>2, <1>3, <1>5 DEF Starting, Ending
  <2>. QED
    BY <2>2, <2>3
<1>12. coordinator[r] # "none" /\ to # "none"
  BY <1>3, <1>4 DEF Ending
<1>. QED
  BY <1>1, <1>5, <1>6, <1>7, <1>8, <1>9, <1>10, <1>11, <1>12, RuntimeMoves

\* A place is reserved for a coordinator, or refused.
LEMMA ReserveInv ==
  ASSUME LifeInv, NEW r \in Runtimes, reserve(r)
  PROVE  LifeInv'
<1>1. /\ UNCHANGED <<entries, owner, thread, reclaimed, phase, failures>>
      /\ caller[r] = "reserve"
  BY DEF reserve, shared
<1>2. /\ LifeTypes /\ coordinator[r] = "none" /\ r \notin entries /\ r \notin owner.claim
      /\ ~drained(r) /\ ~Done(r)
  BY <1>1, LifeFacts DEF Starting
<1>3. CASE Call(r, "refused") /\ UNCHANGED <<occupied, coordinator>>
  <2>1. /\ caller' \in [Runtimes -> CallerAt] /\ caller'[r] = "refused"
        /\ \A q \in Runtimes : q # r => caller'[q] = caller[q]
    BY <1>2, <1>3, CallFacts DEF CallerAt
  <2>2. ~constructed(r)
    BY <1>1 DEF constructed
  <2>. QED
    BY <1>1, <1>3, <2>1, <2>2, CallerMoves
<1>4. CASE occupied' = occupied + 1 /\ Coordinate(r, "gate") /\ Call(r, "install")
  <2>1. /\ caller' \in [Runtimes -> CallerAt] /\ caller'[r] = "install"
        /\ \A q \in Runtimes : q # r => caller'[q] = caller[q]
    BY <1>2, <1>4, CallFacts DEF CallerAt
  <2>2. /\ coordinator' \in [Runtimes -> CoordinatorAt] /\ coordinator'[r] = "gate"
        /\ \A q \in Runtimes : q # r => coordinator'[q] = coordinator[q]
    BY <1>2, <1>4 DEF LifeTypes, Coordinate, CoordinatorAt
  <2>3. LifeTypes'
    BY <1>1, <1>2, <1>4, <2>1, <2>2 DEF LifeTypes
  <2>4. \A q \in Runtimes : q # r => /\ Done(q)' <=> Done(q)
                                     /\ drained(q)' <=> drained(q)
                                     /\ HasPlace(q)' <=> HasPlace(q)
                                     /\ Verdict(q)' = Verdict(q)
    BY <1>1, <2>2 DEF Done, drained, carriers_reclaimed, HasPlace, Verdict
  <2>5. ~HasPlace(r) /\ HasPlace(r)' /\ ~Done(r)'
    BY <1>1, <1>2, <2>2 DEF HasPlace, Done
  <2>6. PlacesCounted'
    <3>1. Places' = Places \cup {r} /\ r \notin Places
      BY <2>4, <2>5 DEF Places
    <3>2. PlacesCounted
      BY LifeFacts
    <3>. QED
      BY <1>4, <3>1, <3>2, FS_AddElement DEF PlacesCounted
  <2>7. \A q \in Runtimes : RuntimeFits(q)'
    <3>1. RuntimeFits(r)'
      BY <1>1, <1>2, <2>1, <2>2, <2>5 DEF RuntimeFits, Starting, Built, Ending
    <3>2. ASSUME NEW q \in Runtimes, q # r
          PROVE  RuntimeFits(q)'
      <4>1. RuntimeFits(q)
        BY LifeFacts
      <4>2. Starting(q)' /\ Built(q)'
        BY <1>1, <2>1, <2>2, <3>2, <4>1 DEF RuntimeFits, Starting, Built, constructed
      <4>. QED
        BY <1>1, <2>2, <2>4, <3>2, <4>1, <4>2 DEF RuntimeFits
    <3>. QED
      BY <3>1, <3>2
  <2>8. OwnerFits'
    <3>1. OwnerFits /\ owner.claim \subseteq Runtimes
      BY LifeFacts
    <3>2. \A q \in owner.claim : ClaimFits(q)'
      BY <1>1, <1>2, <2>2, <2>4, <3>1 DEF OwnerFits, ClaimFits
    <3>. QED
      BY <1>1, <3>1, <3>2 DEF OwnerFits
  <2>. QED
    BY <2>3, <2>6, <2>7, <2>8 DEF LifeInv
<1>. QED
  BY <1>3, <1>4 DEF reserve

\* The coordinator's entry is installed, its gate is opened or closed.
LEMMA InstallInv ==
  ASSUME LifeInv, NEW r \in Runtimes, install(r)
  PROVE  LifeInv'
<1>1. /\ UNCHANGED <<occupied, owner, thread, reclaimed, phase>>
      /\ caller[r] = "install" /\ entries' = entries \cup {r}
  BY DEF install, shared
<1>2. /\ LifeTypes /\ coordinator[r] = "gate" /\ r \notin entries /\ r \notin owner.claim
      /\ ~drained(r) /\ ~Done(r)
  BY <1>1, LifeFacts DEF Starting
<1>3. PICK pc \in {"services", "refused"}, to \in {"version", "dead"} : Call(r, pc) /\ Coordinate(r, to)
  BY DEF install
<1>4. /\ caller' \in [Runtimes -> CallerAt] /\ caller'[r] = pc
      /\ \A q \in Runtimes : q # r => caller'[q] = caller[q]
  BY <1>2, <1>3, CallFacts DEF CallerAt
<1>5. /\ coordinator' \in [Runtimes -> CoordinatorAt] /\ coordinator'[r] = to
      /\ \A q \in Runtimes : q # r => coordinator'[q] = coordinator[q]
  BY <1>2, <1>3 DEF LifeTypes, Coordinate, CoordinatorAt
<1>6. /\ failures' \in [Runtimes -> BOOLEAN]
      /\ \A q \in Runtimes : q # r => failures'[q] = failures[q]
  <2>1. failures' = failures \/ failures' = [failures EXCEPT ![r] = TRUE]
    BY DEF install, shared
  <2>. QED
    BY <1>2, <2>1 DEF LifeTypes
<1>7. LifeTypes'
  BY <1>1, <1>2, <1>4, <1>5, <1>6 DEF LifeTypes
<1>8. \A q \in Runtimes : q # r => /\ Done(q)' <=> Done(q)
                                   /\ drained(q)' <=> drained(q)
                                   /\ HasPlace(q)' <=> HasPlace(q)
                                   /\ Verdict(q)' = Verdict(q)
  BY <1>1, <1>5, <1>6 DEF Done, drained, carriers_reclaimed, HasPlace, Verdict
<1>9. HasPlace(r) /\ HasPlace(r)' /\ ~Done(r)'
  BY <1>1, <1>2, <1>5 DEF HasPlace, Done
<1>10. PlacesCounted'
  <2>1. Places' = Places
    BY <1>8, <1>9 DEF Places
  <2>. QED
    BY <1>1, <2>1, LifeFacts DEF PlacesCounted
<1>11. \A q \in Runtimes : RuntimeFits(q)'
  <2>1. RuntimeFits(r)'
    BY <1>1, <1>2, <1>4, <1>5, <1>9 DEF RuntimeFits, Starting, Built, Ending
  <2>2. ASSUME NEW q \in Runtimes, q # r
        PROVE  RuntimeFits(q)'
    <3>1. RuntimeFits(q)
      BY LifeFacts
    <3>2. Starting(q)' /\ Built(q)'
      BY <1>1, <1>4, <1>5, <2>2, <3>1 DEF RuntimeFits, Starting, Built, constructed
    <3>. QED
      BY <1>1, <1>5, <1>8, <2>2, <3>1, <3>2 DEF RuntimeFits
  <2>. QED
    BY <2>1, <2>2
<1>12. OwnerFits'
  <2>1. OwnerFits /\ owner.claim \subseteq Runtimes
    BY LifeFacts
  <2>2. \A q \in owner.claim : ClaimFits(q)'
    BY <1>1, <1>2, <1>5, <1>8, <2>1 DEF OwnerFits, ClaimFits
  <2>. QED
    BY <1>1, <2>1, <2>2 DEF OwnerFits
<1>. QED
  BY <1>7, <1>10, <1>11, <1>12 DEF LifeInv

\* A step of the owner that ends nothing: places and runtimes stay as they
\* are, but for the failures it records of runtimes that are not complete.
LEMMA OwnerMoves ==
  ASSUME LifeInv, LifeTypes', OwnerFits',
         UNCHANGED <<occupied, caller, coordinator, thread, reclaimed, phase>>,
         owner.pc # "advance", owner'.pc # "advance",
         \A r \in Runtimes : (r \in entries' \/ r \in owner'.claim) <=> (r \in entries \/ r \in owner.claim),
         \A r \in Runtimes : Done(r) => failures'[r] = failures[r]
  PROVE  LifeInv'
<1>1. \A r \in Runtimes : /\ Done(r)' <=> Done(r)
                          /\ drained(r)' <=> drained(r)
                          /\ HasPlace(r)' <=> HasPlace(r)
                          /\ constructed(r)' <=> constructed(r)
  BY DEF Done, drained, carriers_reclaimed, HasPlace, constructed
<1>2. PlacesCounted'
  <2>1. Places' = Places
    BY <1>1 DEF Places
  <2>. QED
    BY <2>1, LifeFacts DEF PlacesCounted
<1>3. \A r \in Runtimes : RuntimeFits(r)'
  <2>. SUFFICES ASSUME NEW r \in Runtimes PROVE RuntimeFits(r)'
    OBVIOUS
  <2>1. RuntimeFits(r)
    BY LifeFacts
  <2>2. Starting(r)' /\ Built(r)'
    BY <1>1, <2>1 DEF RuntimeFits, Starting, Built
  <2>3. Done(r) => Verdict(r)' = Verdict(r)
    BY DEF Verdict
  <2>. QED
    BY <1>1, <2>1, <2>2, <2>3 DEF RuntimeFits
<1>. QED
  BY <1>2, <1>3 DEF LifeInv

\* A claim is taken, joined, confirmed or put back; the service fails and
\* tells every runtime it still owns.
LEMMA OwnerInv ==
  ASSUME LifeInv,
         \/ \E r \in Runtimes : claim_ready(r)
         \/ join_coordinator \/ confirm \/ unwind \/ fail \/ record_failure
  PROVE  LifeInv'
<1>1. UNCHANGED <<occupied, caller, coordinator, thread, reclaimed, phase>>
  BY DEF claim_ready, join_coordinator, confirm, unwind, fail, record_failure, shared, threads, slots
<1>2. /\ LifeTypes /\ OwnerFits /\ owner \in OwnerRec /\ owner.claim \subseteq Runtimes /\ entries \subseteq Runtimes
      /\ owner.pc \in OwnerAt /\ owner.verdict \in 0..6 /\ owner.targets \subseteq Runtimes
  BY LifeFacts DEF OwnerRec
<1>3. ASSUME owner' \in OwnerRec, entries' \subseteq Runtimes, failures' \in [Runtimes -> BOOLEAN]
      PROVE  LifeTypes'
  BY <1>1, <1>2, <1>3 DEF LifeTypes
<1>4. failures \in [Runtimes -> BOOLEAN]
  BY <1>2 DEF LifeTypes
<1>5. ASSUME NEW r \in Runtimes, claim_ready(r)
      PROVE  LifeInv'
  <2>1. /\ owner.pc = "reap" /\ r \in entries /\ coordinator[r] \in {"returned", "dead"}
        /\ entries' = entries \ {r} /\ owner' = [owner EXCEPT !.pc = "join", !.claim = {r}] /\ failures' = failures
    BY <1>5 DEF claim_ready, shared
  <2>2. owner' \in OwnerRec /\ owner'.pc = "join" /\ owner'.claim = {r}
    BY <1>2, <2>1 DEF OwnerRec, OwnerAt
  <2>3. owner.claim = {}
    BY <1>2, <2>1 DEF OwnerFits
  <2>4. OwnerFits'
    BY <1>1, <2>1, <2>2 DEF OwnerFits, ClaimFits
  <2>. QED
    BY <1>1, <1>2, <1>3, <1>4, <2>1, <2>2, <2>3, <2>4, OwnerMoves
<1>6. ASSUME join_coordinator
      PROVE  LifeInv'
  <2>1. owner.pc = "join" /\ owner' = [owner EXCEPT !.pc = "drained"] /\ entries' = entries
    BY <1>6 DEF join_coordinator, slots
  <2>2. owner' \in OwnerRec /\ owner'.pc = "drained" /\ owner'.claim = owner.claim
    BY <1>2, <2>1 DEF OwnerRec, OwnerAt
  <2>3. OwnerFits'
    BY <1>1, <1>2, <2>1, <2>2 DEF OwnerFits, ClaimFits
  <2>4. /\ failures' \in [Runtimes -> BOOLEAN]
        /\ \A q \in Runtimes : Done(q) => failures'[q] = failures[q]
    <3>1. PICK r \in owner.claim : failures' = failures \/ failures' = [failures EXCEPT ![r] = TRUE]
      BY <1>6 DEF join_coordinator
    <3>2. r \in Runtimes /\ ~Done(r)
      BY <1>2, <3>1, LifeFacts
    <3>. QED
      BY <1>4, <3>1, <3>2
  <2>. QED
    BY <1>1, <1>2, <1>3, <2>1, <2>2, <2>3, <2>4, OwnerMoves
<1>7. ASSUME NEW r \in owner.claim, owner.pc = "drained", drained(r), entries' = entries, failures' = failures,
             owner' = [owner EXCEPT !.pc = "release", !.verdict = Verdict(r)]
      PROVE  LifeInv'
  <2>1. Verdict(r) \in 0..6
    BY DEF Verdict, Failed, Complete
  <2>2. /\ owner' \in OwnerRec /\ owner'.pc = "release" /\ owner'.claim = owner.claim
        /\ owner'.verdict = Verdict(r)
    BY <1>2, <1>7, <2>1 DEF OwnerRec, OwnerAt
  <2>3. ClaimFits(r)'
    <3>1. ClaimFits(r) /\ drained(r)' /\ Verdict(r)' = Verdict(r)
      BY <1>1, <1>2, <1>7 DEF OwnerFits, drained, carriers_reclaimed, Verdict
    <3>. QED
      BY <1>1, <1>7, <2>2, <3>1 DEF ClaimFits
  <2>4. OwnerFits'
    <3>1. owner.claim = {r}
      BY <1>2, <1>7 DEF OwnerFits
    <3>. QED
      BY <2>2, <2>3, <3>1 DEF OwnerFits
  <2>. QED
    BY <1>1, <1>2, <1>3, <1>4, <1>7, <2>2, <2>4, OwnerMoves
<1>8. ASSUME owner.pc \in {"reap", "join", "drained"}, entries' = Restored, failures' = failures,
             owner' = [owner EXCEPT !.pc = "fail", !.claim = {}]
      PROVE  LifeInv'
  <2>1. owner' \in OwnerRec /\ owner'.pc = "fail" /\ owner'.claim = {}
    BY <1>2, <1>8 DEF OwnerRec, OwnerAt
  <2>2. entries' = entries \cup owner.claim
    BY <1>8 DEF Restored
  <2>3. OwnerFits'
    BY <2>1 DEF OwnerFits
  <2>. QED
    BY <1>1, <1>2, <1>3, <1>4, <1>8, <2>1, <2>2, <2>3, OwnerMoves
<1>9. ASSUME confirm
      PROVE  LifeInv'
  <2>1. owner.pc = "drained" /\ failures' = failures
    BY <1>9 DEF confirm, shared
  <2>2. CASE \E r \in owner.claim :
               /\ drained(r) /\ UNCHANGED entries
               /\ owner' = [owner EXCEPT !.pc = "release", !.verdict = Verdict(r)]
    BY <1>7, <2>1, <2>2
  <2>3. CASE entries' = Restored /\ owner' = [owner EXCEPT !.pc = "fail", !.claim = {}]
    BY <1>8, <2>1, <2>3
  <2>. QED
    BY <1>9, <2>2, <2>3 DEF confirm, Verdict
<1>10. ASSUME unwind
       PROVE  LifeInv'
  BY <1>8, <1>10 DEF unwind, shared
<1>11. ASSUME fail
       PROVE  LifeInv'
  <2>1. /\ owner.pc = "fail" /\ entries' = entries /\ failures' = failures
        /\ owner' = [owner EXCEPT !.pc = "record", !.targets = entries]
    BY <1>11 DEF fail, shared
  <2>2. owner' \in OwnerRec /\ owner'.pc = "record" /\ owner'.claim = owner.claim
    BY <1>2, <2>1 DEF OwnerRec, OwnerAt
  <2>3. OwnerFits'
    BY <1>2, <2>1, <2>2 DEF OwnerFits
  <2>. QED
    BY <1>1, <1>2, <1>3, <1>4, <2>1, <2>2, <2>3, OwnerMoves
<1>12. ASSUME record_failure
       PROVE  LifeInv'
  <2>1. owner.pc = "record" /\ entries' = entries
    BY <1>12 DEF record_failure, slots
  <2>2. /\ owner' \in OwnerRec /\ owner'.claim = owner.claim /\ owner'.pc \in {"record", "dead"}
    <3>1. CASE owner' = [owner EXCEPT !.pc = "dead"]
      BY <1>2, <2>1, <3>1 DEF OwnerRec, OwnerAt
    <3>2. ASSUME NEW r \in owner.targets, owner' = [owner EXCEPT !.targets = @ \ {r}]
          PROVE  owner' \in OwnerRec /\ owner'.claim = owner.claim /\ owner'.pc \in {"record", "dead"}
      BY <1>2, <2>1, <3>2 DEF OwnerRec
    <3>. QED
      BY <1>12, <3>1, <3>2 DEF record_failure
  <2>3. OwnerFits'
    BY <1>2, <2>1, <2>2 DEF OwnerFits
  <2>. DEFINE Honest == /\ failures' \in [Runtimes -> BOOLEAN]
                        /\ \A q \in Runtimes : Done(q) => failures'[q] = failures[q]
  <2>4. Honest
    <3>1. CASE failures' = failures
      BY <1>4, <3>1
    <3>2. ASSUME NEW r \in owner.targets, phase[r] # Complete, failures' = [failures EXCEPT ![r] = TRUE]
          PROVE  Honest
      <4>1. Done(r) => failures[r]
        <5>1. r \in Runtimes /\ (Done(r) => phase[r] = Verdict(r))
          BY <1>2, <3>2, LifeFacts DEF RuntimeFits
        <5>. QED
          BY <3>2, <5>1 DEF Verdict
      <4>. QED
        BY <1>2, <1>4, <3>2, <4>1
    <3>. QED
      BY <1>12, <3>1, <3>2 DEF record_failure
  <2>. QED
    BY <1>1, <1>2, <1>3, <2>1, <2>2, <2>3, <2>4, OwnerMoves
<1>. QED
  BY <1>5, <1>6, <1>9, <1>10, <1>11, <1>12

\* The place is given back, and then the end is published.
LEMMA EndInv ==
  ASSUME LifeInv, release \/ advance
  PROVE  LifeInv'
<1>1. UNCHANGED <<entries, caller, coordinator, thread, reclaimed, failures>>
  BY DEF release, advance, shared, threads, slots
<1>2. /\ LifeTypes /\ OwnerFits /\ owner \in OwnerRec /\ owner.claim \subseteq Runtimes
      /\ owner.pc \in {"release", "advance"}
  BY LifeFacts DEF release, advance
<1>3. PICK r \in Runtimes : owner.claim = {r}
  BY <1>2 DEF OwnerFits
<1>4. /\ ClaimFits(r) /\ drained(r) /\ owner.verdict = Verdict(r) /\ r \notin entries
      /\ coordinator[r] # "none" /\ ~Done(r)
  BY <1>2, <1>3, LifeFacts DEF OwnerFits, ClaimFits, RuntimeFits
<1>5. \A q \in Runtimes : /\ drained(q)' <=> drained(q)
                          /\ constructed(q)' <=> constructed(q)
                          /\ Verdict(q)' = Verdict(q)
  BY <1>1 DEF drained, carriers_reclaimed, constructed, Verdict
<1>6. PlacesCounted
  BY LifeFacts
<1>7. CASE release
  <2>1. /\ owner.pc = "release" /\ occupied' = occupied - 1 /\ phase' = phase
        /\ owner' = [owner EXCEPT !.pc = "advance"]
    BY <1>7 DEF release, shared
  <2>2. /\ owner' \in OwnerRec /\ owner'.pc = "advance" /\ owner'.claim = {r} /\ owner'.verdict = owner.verdict
    BY <1>2, <1>3, <2>1 DEF OwnerRec, OwnerAt
  <2>3. \A q \in Runtimes : (Done(q)' <=> Done(q)) /\ (HasPlace(q)' <=> HasPlace(q) /\ q # r)
    BY <1>1, <1>3, <2>1, <2>2 DEF Done, HasPlace
  <2>4. Places' = Places \ {r} /\ r \in Places
    BY <1>4, <2>1, <2>3 DEF Places, HasPlace
  <2>5. PlacesCounted' /\ occupied' \in Nat
    <3>1. IsFiniteSet(Places') /\ Cardinality(Places') = Cardinality(Places) - 1
      BY <1>6, <2>4, FS_RemoveElement DEF PlacesCounted
    <3>2. Cardinality(Places') \in Nat
      BY <3>1, FS_CardinalityType
    <3>. QED
      BY <1>6, <2>1, <3>1, <3>2 DEF PlacesCounted
  <2>6. LifeTypes'
    BY <1>1, <1>2, <2>1, <2>2, <2>5 DEF LifeTypes
  <2>7. OwnerFits'
    BY <1>1, <1>3, <1>4, <1>5, <2>2 DEF OwnerFits, ClaimFits
  <2>8. ASSUME NEW q \in Runtimes
        PROVE  RuntimeFits(q)'
    <3>1. RuntimeFits(q)
      BY LifeFacts
    <3>2. Starting(q)' /\ Built(q)'
      BY <1>1, <1>3, <1>5, <2>2, <3>1 DEF RuntimeFits, Starting, Built
    <3>. QED
      BY <1>1, <1>3, <1>5, <2>1, <2>2, <2>3, <3>1, <3>2 DEF RuntimeFits
  <2>. QED
    BY <2>5, <2>6, <2>7, <2>8 DEF LifeInv
<1>8. CASE advance
  <2>1. /\ owner.pc = "advance" /\ occupied' = occupied /\ phase' = [phase EXCEPT ![r] = Greater(phase[r], owner.verdict)]
        /\ owner' = [owner EXCEPT !.pc = "reap", !.claim = {}, !.verdict = NotRequested]
    BY <1>3, <1>8 DEF advance, slots, Advance
  <2>2. owner' \in OwnerRec /\ owner'.pc = "reap" /\ owner'.claim = {}
    <3>1. owner' = [pc |-> "reap", claim |-> {}, verdict |-> 0, targets |-> owner.targets]
      BY <1>2, <2>1 DEF OwnerRec, NotRequested
    <3>2. owner.targets \in SUBSET Runtimes /\ {} \in SUBSET Runtimes /\ 0 \in 0..6 /\ "reap" \in OwnerAt
      BY <1>2 DEF OwnerRec, OwnerAt
    <3>. QED
      BY <3>1, <3>2 DEF OwnerRec
  <2>3. Greater(phase[r], owner.verdict) = Verdict(r) /\ Verdict(r) \in {Complete, Failed} /\ Verdict(r) \in 0..6
    <3>1. Verdict(r) \in {Complete, Failed} /\ Verdict(r) \in 0..6 /\ Verdict(r) > 4
      BY DEF Verdict, Complete, Failed
    <3>. QED
      BY <1>2, <1>4, <3>1, PhaseFacts
  <2>4. /\ phase' \in [Runtimes -> 0..6] /\ phase'[r] = Verdict(r)
        /\ \A q \in Runtimes : q # r => phase'[q] = phase[q]
    BY <1>2, <2>1, <2>3 DEF LifeTypes
  <2>5. Done(r)' /\ \A q \in Runtimes : q # r => (Done(q)' <=> Done(q))
    BY <2>3, <2>4 DEF Done
  <2>6. Places' = Places
    <3>1. ~HasPlace(r) /\ ~HasPlace(r)'
      BY <1>3, <2>1, <2>5 DEF HasPlace
    <3>2. \A q \in Runtimes : q # r => (HasPlace(q)' <=> HasPlace(q))
      BY <1>1, <1>3, <2>2, <2>5 DEF HasPlace
    <3>. QED
      BY <3>1, <3>2 DEF Places
  <2>7. PlacesCounted'
    BY <1>6, <2>1, <2>6 DEF PlacesCounted
  <2>8. LifeTypes'
    BY <1>1, <1>2, <2>1, <2>2, <2>4 DEF LifeTypes
  <2>9. OwnerFits'
    BY <2>2 DEF OwnerFits
  <2>10. ASSUME NEW q \in Runtimes
         PROVE  RuntimeFits(q)'
    <3>1. RuntimeFits(q)
      BY LifeFacts
    <3>2. Starting(q)' /\ Built(q)'
      BY <1>1, <1>5, <2>2, <3>1 DEF RuntimeFits, Starting, Built
    <3>3. CASE q # r
      BY <1>1, <1>5, <2>2, <2>4, <2>5, <3>1, <3>2, <3>3 DEF RuntimeFits
    <3>4. CASE q = r
      BY <1>1, <1>4, <1>5, <2>2, <2>4, <3>2, <3>4 DEF RuntimeFits
    <3>. QED
      BY <3>3, <3>4
  <2>. QED
    BY <2>7, <2>8, <2>9, <2>10 DEF LifeInv
<1>. QED
  BY <1>7, <1>8

\* The invariant of the runtimes and of the process table.
LEMMA LifeInvariance == Spec => []LifeInv
<1>1. Init => LifeInv
  <2>. SUFFICES ASSUME Init PROVE LifeInv
    OBVIOUS
  <2>1. /\ occupied = 0 /\ entries = {}
        /\ owner = [pc |-> "reap", claim |-> {}, verdict |-> 0, targets |-> {}]
        /\ caller = [r \in Runtimes |-> "reserve"] /\ coordinator = [r \in Runtimes |-> "none"]
        /\ thread = [r \in Runtimes |-> [p \in Parts |-> "none"]]
        /\ reclaimed = [r \in Runtimes |-> {}]
        /\ phase = [r \in Runtimes |-> 0] /\ failures = [r \in Runtimes |-> FALSE]
    BY DEF Init, NotRequested
  <2>2. LifeTypes
    BY <2>1 DEF LifeTypes, OwnerRec, OwnerAt, CallerAt, CoordinatorAt, ThreadAt
  <2>3. OwnerFits
    BY <2>1 DEF OwnerFits
  <2>4. PlacesCounted
    <3>1. Places = {}
      BY <2>1 DEF Places, HasPlace
    <3>. QED
      BY <2>1, <3>1, FS_EmptySet DEF PlacesCounted
  <2>5. \A r \in Runtimes : RuntimeFits(r)
    BY <2>1 DEF RuntimeFits, Starting, Built, Ending, Done, Complete, Failed
  <2>. QED
    BY <2>2, <2>3, <2>4, <2>5 DEF LifeInv
<1>2. LifeInv /\ [Next]_vars => LifeInv'
  <2>. SUFFICES ASSUME LifeInv, [Next]_vars PROVE LifeInv'
    OBVIOUS
  <2>1. CASE UNCHANGED vars
    <3>1. UNCHANGED <<entries, occupied, owner, caller, coordinator, thread, reclaimed, phase, failures>>
      BY <2>1 DEF vars, slots, shared, threads
    <3>2. LifeTypes' /\ PlacesCounted'
      BY <3>1 DEF LifeInv, LifeTypes, PlacesCounted, Places, HasPlace, Done
    <3>3. OwnerFits' /\ \A r \in Runtimes : RuntimeFits(r)'
      BY <3>1 DEF LifeInv, OwnerFits, ClaimFits, RuntimeFits, Starting, Built, constructed, drained,
                  carriers_reclaimed, Verdict, Done
    <3>. QED
      BY <3>2, <3>3 DEF LifeInv
  <2>2. ASSUME NEW r \in Runtimes, Build(r)
        PROVE  LifeInv'
    BY <2>2, ReserveInv, InstallInv, StartInv, CallerInv DEF Build
  <2>3. ASSUME NEW r \in Runtimes, request_shutdown(r) \/ shutdown(r) \/ Wait(r) \/ time_out(r)
        PROVE  LifeInv'
    BY <2>3, CallerInv
  <2>4. ASSUME NEW r \in Runtimes,
               \/ Coordinator(r) \/ die(r) \/ Carrier(r) \/ run_reactor(r) \/ run_native(r)
               \/ \E p \in {"reactor", "native"} : fail_service(r, p)
        PROVE  LifeInv'
    BY <2>4, CoordinatorInv, ThreadInv
  <2>5. ASSUME NEW r \in Runtimes, NEW w \in Requesters, request_stop(r, w)
        PROVE  LifeInv'
    BY <2>5, CallerInv, StopInboxesInv DEF request_stop
  <2>6. ASSUME Owner \/ unwind
        PROVE  LifeInv'
    BY <2>6, OwnerInv, EndInv DEF Owner
  <2>. QED
    BY <2>1, <2>2, <2>3, <2>4, <2>5, <2>6 DEF Next
<1>. QED
  BY <1>1, <1>2, PTL DEF Spec

\* A runtime is reported complete or failed only once its threads are joined,
\* its stacks and what its services owned are given up and its place in the
\* process table is free, and it is complete exactly when no carrier, service
\* or coordinator of it recorded a failure (lifecycle_reaper.rs:40).
THEOREM CompletionStaysHonest == Spec => []CompletionHonest
<1>1. LifeInv => CompletionHonest
  <2>. SUFFICES ASSUME LifeInv PROVE CompletionHonest
    OBVIOUS
  <2>1. ASSUME NEW r \in Runtimes, Done(r)
        PROVE  /\ r \notin entries /\ r \notin owner.claim
               /\ \A p \in Parts : thread[r][p] = "none" \/ (thread[r][p] = "joined" /\ p \in reclaimed[r])
               /\ (phase[r] = Failed) <=> failures[r]
    <3>1. /\ r \notin entries /\ r \notin owner.claim /\ drained(r) /\ phase[r] = Verdict(r)
          /\ failures[r] \in BOOLEAN
      BY <2>1, LifeFacts DEF RuntimeFits, LifeTypes
    <3>2. \A p \in Parts : thread[r][p] = "none" \/ (thread[r][p] = "joined" /\ p \in reclaimed[r])
      BY <3>1 DEF drained, carriers_reclaimed, Parts
    <3>3. (phase[r] = Failed) <=> failures[r]
      BY <3>1 DEF Verdict, Failed, Complete
    <3>. QED
      BY <3>1, <3>2, <3>3
  <2>2. occupied = Cardinality({r \in Runtimes :
          /\ coordinator[r] # "none" /\ phase[r] \notin {Complete, Failed}
          /\ ~(r \in owner.claim /\ owner.pc = "advance")})
    BY LifeFacts DEF PlacesCounted, Places, HasPlace, Done
  <2>. QED
    BY <2>1, <2>2 DEF CompletionHonest, Done
<1>. QED
  BY <1>1, LifeInvariance, PTL

-----------------------------------------------------------------------------
(* The carrier's sleep. *)

\* Where a thread that changes something may be, and where the carrier is
\* counted as a waiter.
ThreadPlaces == {"idle", "link", "wakePeek", "wakeGate", "publish", "bump", "peek", "gate",
                 "abort", "stopLock", "stopFlag"}
Counted == {"check", "arm", "queued", "asleep", "woken", "leave"}

\* While the carrier is counted as a waiter and its checks are behind it, a
\* thread whose change they missed is on its way: the owner's wake queue is
\* armed before starts are looked at, and the gate is held in between.
SleepInv ==
  /\ tpc \in [Threads -> ThreadPlaces]
  /\ waiters = IF kpc \in Counted THEN 1 ELSE 0
  /\ kpc \in {"arm", "queued", "asleep"} /\ epoch # observed => Sleep!At({"peek", "gate"})
  /\ kpc \in {"queued", "asleep"} =>
       IF sleeping THEN linked = {} ELSE Sleep!At({"wakePeek", "wakeGate"})
  /\ kpc = "asleep" /\ starts # <<>> => Sleep!At({"bump", "peek", "gate"})

\* The places of the other threads stay theirs.
LEMMA MoveAt ==
  ASSUME tpc \in [Threads -> ThreadPlaces], NEW th \in Threads, NEW from, NEW to \in ThreadPlaces, NEW o,
         Sleep!Move(th, from, to, o)
  PROVE  /\ tpc' \in [Threads -> ThreadPlaces] /\ tpc[th] = from
         /\ \A S : to \in S => Sleep!At(S)'
         /\ \A S : from \notin S /\ Sleep!At(S) => Sleep!At(S)'
<1>1. tpc' = [tpc EXCEPT ![th] = to] /\ tpc[th] = from
  BY DEF Sleep!Move
<1>. QED
  BY <1>1 DEF Sleep!At

\* A thread's step: its own change and the carrier's release from the gate.
LEMMA ThreadSleep ==
  ASSUME SleepInv, NEW th \in Threads, Sleep!Thread(th)
  PROVE  SleepInv'
<1>1. ASSUME NEW from, NEW to \in ThreadPlaces, NEW o, Sleep!Move(th, from, to, o),
             UNCHANGED <<waiters, kpc, observed>>,
             \/ to = "bump" /\ UNCHANGED <<epoch, linked, sleeping>>
             \/ UNCHANGED <<epoch, linked, sleeping, starts>>
             \/ UNCHANGED <<epoch, linked, sleeping>> /\ starts # <<>>
             \/ to = "peek" /\ UNCHANGED <<linked, sleeping, starts>>
             \/ /\ UNCHANGED <<epoch, starts>> /\ ~sleeping'
                /\ to = IF sleeping THEN "wakePeek" ELSE "publish",
             from \in {"peek", "gate"} => to = "gate" \/ kpc \notin {"arm", "queued", "asleep"},
             from \in {"wakePeek", "wakeGate"} =>
               to = "wakeGate" \/ kpc \notin {"queued", "asleep"},
             from = "bump" => to = "peek"
      PROVE  SleepInv'
  <2>1. /\ tpc' \in [Threads -> ThreadPlaces]
        /\ \A S : to \in S => Sleep!At(S)'
        /\ \A S : from \notin S /\ Sleep!At(S) => Sleep!At(S)'
    BY <1>1, MoveAt DEF SleepInv
  <2>2. waiters' = IF kpc' \in Counted THEN 1 ELSE 0
    BY <1>1 DEF SleepInv
  <2>3. kpc' \in {"arm", "queued", "asleep"} /\ epoch' # observed' => Sleep!At({"peek", "gate"})'
    BY <1>1, <2>1 DEF SleepInv
  <2>4. kpc' \in {"queued", "asleep"} =>
          IF sleeping' THEN linked' = {} ELSE Sleep!At({"wakePeek", "wakeGate"})'
    BY <1>1, <2>1 DEF SleepInv
  <2>5. kpc' = "asleep" /\ starts' # <<>> => Sleep!At({"bump", "peek", "gate"})'
    BY <1>1, <2>1 DEF SleepInv
  <2>. QED
    BY <2>1, <2>2, <2>3, <2>4, <2>5 DEF SleepInv
<1>2. ASSUME NEW t \in Tasks, Sleep!Submit(th, t) PROVE SleepInv'
  <2>1. CASE UNCHANGED <<starts, tpc>>
    BY <1>2, <2>1 DEF Sleep!Submit, Sleep!signalVars, Sleep!wakeVars, Sleep!driveVars,
                      SleepInv, Sleep!At
  <2>2. CASE Sleep!Begin(th, IF starts = <<>> THEN "bump" ELSE "peek", None)
    <3>1. /\ UNCHANGED <<waiters, kpc, observed, epoch, linked, sleeping>>
          /\ Sleep!Move(th, "idle", IF starts = <<>> THEN "bump" ELSE "peek", None)
      BY <1>2, <2>2 DEF Sleep!Submit, Sleep!signalVars, Sleep!wakeVars, Sleep!driveVars,
                        Sleep!Begin
    <3>. QED
      BY <1>1, <3>1 DEF ThreadPlaces
  <2>. QED
    BY <1>2, <2>1, <2>2 DEF Sleep!Submit, Sleep!threadVars
<1>3. ASSUME NEW t \in Tasks, Sleep!Claim(th, t) PROVE SleepInv'
  BY <1>1, <1>3 DEF Sleep!Claim, Sleep!signalVars, Sleep!wakeVars, Sleep!inboxVars,
                    Sleep!driveVars, Sleep!Begin, ThreadPlaces
<1>4. ASSUME NEW s \in Scopes, Sleep!AbortScope(th, s) PROVE SleepInv'
  BY <1>1, <1>4 DEF Sleep!AbortScope, Sleep!signalVars, Sleep!wakeVars, Sleep!inboxVars,
                    Sleep!driveVars, Sleep!Begin, ThreadPlaces
<1>5. CASE Sleep!RequestStop(th)
  BY <1>1, <1>5 DEF Sleep!RequestStop, Sleep!signalVars, Sleep!wakeVars, Sleep!inboxVars,
                    Sleep!driveVars, Sleep!Begin, ThreadPlaces
<1>6. CASE Sleep!WakePush(th)
  BY <1>1, <1>6 DEF Sleep!WakePush, Sleep!signalVars, Sleep!inboxVars, Sleep!driveVars,
                    Sleep!Goto, ThreadPlaces
<1>7. CASE Sleep!Publish(th)
  BY <1>1, <1>7 DEF Sleep!Publish, Sleep!signalVars, Sleep!wakeVars, Sleep!inboxVars,
                    Sleep!driveVars, Sleep!Goto, Sleep!publish_target, ThreadPlaces
<1>8. CASE Sleep!Bump(th)
  BY <1>1, <1>8 DEF Sleep!Bump, Sleep!wakeVars, Sleep!inboxVars, Sleep!driveVars,
                    Sleep!Goto, ThreadPlaces
<1>9. CASE Sleep!Peek(th)
  <2>1. PICK n \in Sleep!Notifying : Sleep!Goto(th, n[1], IF waiters = 0 THEN n[3] ELSE n[2])
    BY <1>9 DEF Sleep!Peek
  <2>2. \/ n[1] = "peek" /\ n[2] = "gate" /\ n[3] = "idle"
        \/ n[1] = "wakePeek" /\ n[2] = "wakeGate" /\ n[3] = "publish"
    BY DEF Sleep!Notifying
  <2>3. kpc \in {"arm", "queued", "asleep"} => waiters # 0
    BY DEF SleepInv, Counted
  <2>. QED
    BY <1>1, <1>9, <2>1, <2>2, <2>3 DEF Sleep!Peek, Sleep!signalVars, Sleep!wakeVars,
       Sleep!inboxVars, Sleep!driveVars, Sleep!Goto, ThreadPlaces
<1>10. CASE Sleep!Notify(th)
  <2>1. PICK n \in Sleep!Notifying : Sleep!Goto(th, n[2], n[3])
    BY <1>10 DEF Sleep!Notify
  <2>2. n[3] \in ThreadPlaces
    BY DEF Sleep!Notifying, ThreadPlaces
  <2>3. tpc' \in [Threads -> ThreadPlaces]
    BY <2>1, <2>2, MoveAt DEF Sleep!Goto, SleepInv
  <2>4. /\ kpc' \notin {"arm", "queued", "asleep"} /\ waiters' = waiters
        /\ kpc' \in Counted <=> kpc \in Counted
    BY <1>10 DEF Sleep!Notify, Sleep!GateHeld, Sleep!signalVars, Counted
  <2>. QED
    BY <2>3, <2>4 DEF SleepInv
<1>11. CASE Sleep!InboxAbort(th)
  BY <1>1, <1>11 DEF Sleep!InboxAbort, Sleep!signalVars, Sleep!wakeVars,
                     Sleep!driveVars, Sleep!Goto, ThreadPlaces
<1>12. CASE Sleep!StopLock(th)
  BY <1>1, <1>12 DEF Sleep!StopLock, Sleep!signalVars, Sleep!wakeVars,
                     Sleep!driveVars, Sleep!Goto, ThreadPlaces
<1>13. CASE Sleep!StopFlag(th)
  BY <1>1, <1>13 DEF Sleep!StopFlag, Sleep!signalVars, Sleep!wakeVars,
                     Sleep!driveVars, Sleep!Goto, ThreadPlaces
<1>. QED
  BY <1>2, <1>3, <1>4, <1>5, <1>6, <1>7, <1>8, <1>9, <1>10, <1>11, <1>12, <1>13
     DEF Sleep!Thread, Sleep!Continue

\* The carrier registers, looks again, and sleeps.
LEMMA CarrierSleepInv ==
  ASSUME SleepInv, Sleep!Carrier \/ Sleep!Spurious
  PROVE  SleepInv'
<1>1. ASSUME UNCHANGED <<tpc, waiters>>, kpc' \notin {"arm", "queued", "asleep"},
             kpc' \in Counted <=> kpc \in Counted
      PROVE  SleepInv'
  BY <1>1 DEF SleepInv
<1>2. CASE \/ Sleep!Observe \/ Sleep!PollInbox \/ Sleep!RunControl
           \/ Sleep!Receive \/ Sleep!Received
           \/ Sleep!TickUnchanged \/ Sleep!ProcessDeferred
           \/ Sleep!ExpireTimers \/ Sleep!SelectNone \/ Sleep!IdleWork \/ Sleep!IdleSignal
           \/ Sleep!Register \/ Sleep!WaitTimeout \/ Sleep!Relock \/ Sleep!Disarm \/ Sleep!Spurious
  BY <1>1, <1>2
     DEF Sleep!Observe, Sleep!PollInbox, Sleep!RunControl, Sleep!Receive, Sleep!Received,
         Sleep!TickUnchanged, Sleep!ProcessDeferred, Sleep!ExpireTimers, Sleep!SelectNone,
         Sleep!IdleWork, Sleep!IdleSignal, Sleep!Register, Sleep!WaitTimeout, Sleep!Relock,
         Sleep!Disarm, Sleep!Spurious, Sleep!signalVars, Sleep!threadVars, Counted
<1>3. CASE \/ Sleep!StopControl \/ Sleep!TakeAbort \/ Sleep!TickChanged \/ Sleep!ProcessWakes
           \/ \E t \in Tasks : Sleep!Dispatch(t)
  <2>1. UNCHANGED <<tpc, waiters>>
    BY <1>3 DEF Sleep!StopControl, Sleep!TakeAbort, Sleep!TickChanged, Sleep!ProcessWakes,
         Sleep!Dispatch, Sleep!DispatchAbort, Sleep!DispatchRun, Sleep!abortUnchanged,
         Sleep!signalVars, Sleep!threadVars
  <2>2. /\ DOMAIN Sleep!After = {"wakes", "timedWakes", "rewakes"}
        /\ \A k \in DOMAIN Sleep!After : Sleep!After[k] \notin Counted
    BY DEF Sleep!After, Counted
  <2>3. kpc \notin Counted /\ kpc' \notin Counted
    BY <1>3, <2>2 DEF Sleep!StopControl, Sleep!TakeAbort, Sleep!TickChanged, Sleep!ProcessWakes,
         Sleep!Dispatch, Sleep!DispatchAbort, Sleep!DispatchRun, Counted
  <2>. QED
    BY <1>1, <2>1, <2>3 DEF Counted
<1>4. CASE Sleep!EnterGate
  BY <1>4 DEF Sleep!EnterGate, Sleep!threadVars, SleepInv, Counted
<1>5. CASE Sleep!CheckEpoch
  BY <1>5 DEF Sleep!CheckEpoch, Sleep!threadVars, Sleep!signalVars, Sleep!driveVars,
              SleepInv, Counted
<1>6. CASE Sleep!ArmWait
  BY <1>6 DEF Sleep!ArmWait, Sleep!threadVars, Sleep!signalVars, Sleep!driveVars,
              SleepInv, Counted, Sleep!At
<1>7. CASE Sleep!CheckStarts
  BY <1>7 DEF Sleep!CheckStarts, Sleep!threadVars, Sleep!signalVars, Sleep!driveVars,
              Sleep!wakeVars, Sleep!inboxVars, SleepInv, Counted, Sleep!At
<1>8. CASE Sleep!LeaveGate
  BY <1>8 DEF Sleep!LeaveGate, Sleep!threadVars, SleepInv, Counted
<1>. QED
  BY <1>2, <1>3, <1>4, <1>5, <1>6, <1>7, <1>8 DEF Sleep!Carrier, Sleep!Wait

\* NoLostWakeup: a carrier sleeps over a linked notice, a queued start or a
\* moved epoch only while a thread is on its way to notify it.
THEOREM CarriersAreAwakened == Sleep!Spec => []NoLostWakeup
<1>1. Sleep!Init => SleepInv
  BY DEF Sleep!Init, SleepInv, Counted, ThreadPlaces
<1>2. SleepInv /\ [Sleep!Next]_(Sleep!vars) => SleepInv'
  <2>. SUFFICES ASSUME SleepInv, [Sleep!Next]_(Sleep!vars) PROVE SleepInv'
    OBVIOUS
  <2>1. CASE UNCHANGED <<epoch, waiters, linked, sleeping, starts, tpc, kpc, observed>>
    BY <2>1 DEF SleepInv, Sleep!At
  <2>2. ASSUME NEW t \in Tasks, Sleep!Reserve(t) \/ Sleep!Expire(t)
        PROVE  SleepInv'
    BY <2>1, <2>2 DEF Sleep!Reserve, Sleep!Expire, Sleep!signalVars, Sleep!wakeVars,
                      Sleep!inboxVars, Sleep!threadVars, Sleep!driveVars
  <2>3. CASE UNCHANGED Sleep!vars
    BY <2>1, <2>3 DEF Sleep!vars, Sleep!signalVars, Sleep!wakeVars,
                      Sleep!inboxVars, Sleep!threadVars, Sleep!driveVars
  <2>. QED
    BY <2>2, <2>3, ThreadSleep, CarrierSleepInv DEF Sleep!Next
<1>3. SleepInv => NoLostWakeup
  BY DEF SleepInv, NoLostWakeup, Sleep!NoLostWakeup
<1>. QED
  BY <1>1, <1>2, <1>3, PTL DEF Sleep!Spec
=============================================================================
