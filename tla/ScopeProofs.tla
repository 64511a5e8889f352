----------------------------- MODULE ScopeProofs -----------------------------
(***************************************************************************)
(* Structured ownership for every number of owners, carriers and tasks and *)
(* every bound: the counters of admission, batches and scope exit agree    *)
(* with the tasks, no scope ends before its tasks are reclaimed, and no    *)
(* failure is lost between a task and its owner's report.                  *)
(***************************************************************************)
EXTENDS Scope, FiniteSetTheorems, TLAPS

-----------------------------------------------------------------------------
(* The inductive invariant, in parts. *)

Batch == [count : Nat, drained : BOOLEAN]
Loads == [assigned : [Carriers -> Nat], observed : [Carriers -> Nat], probe : Carriers,
          cursor : Nat]
ScopeRec == [open : BOOLEAN, supervised : BOOLEAN, admitting : BOOLEAN, aborting : BOOLEAN,
             cancelled : BOOLEAN, admitted : Nat, retired : Nat,
             records : SUBSET Tasks, failed : SUBSET Tasks]
Statuses == {"none", "reserved", "queued", "start", "ready", "running", "parked", "released"}
              \cup Terminal
Pcs == {"out", "body", "push", "aborts", "version", "look", "blocked", "drained", "reported",
        "end", "run", "spawn", "subscribe", "joining", "drain", "retire", "gone"}

Types ==
  /\ config \in Configs
  /\ scope \in [Owners -> ScopeRec]
  /\ status \in [Tasks -> Statuses]
  /\ home \in [Tasks -> Owners \cup {NONE}]
  /\ carrier \in [Tasks -> Carriers \cup {NONE}]
  /\ next_task \in Nat \ {0} /\ record_count \in Nat
  /\ loads \in Loads /\ retired_tasks \in [Carriers -> Nat]
  /\ waiters \in [Tasks -> SUBSET Tasks] /\ registered \in [Tasks -> Nat]
  /\ pc \in [Procs -> Pcs] /\ obj \in [Procs -> Tasks \cup {NONE}]
  /\ in_flight \in [Carriers -> Tasks \cup {NONE}]
  /\ completions \in [Carriers -> SUBSET Tasks]
  /\ publishing \in [Carriers -> Batch \cup {NONE}]
  /\ aborting \in [Carriers -> Owners \cup {NONE}]
  /\ report \in [Owners -> SUBSET Tasks]

\* Identities are handed out in order, by scopes that have begun.
Fresh ==
  /\ \A o \in Owners : scope[o].open => pc[o] # "out"
  /\ \A t \in Tasks :
       /\ status[t] = "none" <=> t >= next_task
       /\ status[t] = "none" => home[t] = NONE /\ carrier[t] = NONE
       /\ status[t] # "none" =>
            home[t] \in Owners /\ carrier[t] \in Carriers /\ pc[home[t]] # "out"

\* What a task may be doing in each status.
StatusPlace ==
  \A t \in Tasks :
    /\ status[t] \in {"none", "reserved", "queued", "start", "released"} => pc[t] = "run"
    /\ status[t] = "ready" => pc[t] \in {"run", "joining"}
    /\ status[t] = "parked" => pc[t] = "joining"
    /\ status[t] = "running" => pc[t] \in {"run", "spawn", "push", "subscribe", "joining"}
    /\ status[t] \in Terminal => pc[t] \in {"drain", "retire", "gone"}

\* A reservation has one submitter.
Pushers ==
  /\ \A p \in Procs : pc[p] = "push" => obj[p] \in Tasks /\ status[obj[p]] = "reserved"
  /\ \A p, q \in Procs : pc[p] = "push" /\ pc[q] = "push" /\ obj[p] = obj[q] => p = q

\* A completing task holds its carrier, whose batch is of the task's scope and
\* is empty while an abort is carried out.
Carrying ==
  /\ \A t \in Tasks : pc[t] \in {"drain", "retire"} => in_flight[carrier[t]] = t
  /\ \A c \in Carriers :
       /\ in_flight[c] = NONE \/ publishing[c] = NONE
       /\ \A t \in completions[c] : carrier[t] = c /\ pc[t] = "gone"
       /\ \A t, u \in completions[c] : home[t] = home[u]
       /\ in_flight[c] # NONE => \A u \in completions[c] : home[u] = home[in_flight[c]]
       /\ aborting[c] # NONE =>
            /\ completions[c] = {}
            /\ in_flight[c] # NONE => status[in_flight[c]] = "aborted"

\* Until the scope ends, a record leaves it only when its outcome was seen.
RecordsKept ==
  \A o \in Owners : \A t \in OfScope(o) :
    t \in scope[o].records \/ pc[o] = "end" \/ (status[t] \in Terminal /\ t \in observed)

\* A task in the map of a completion waits for it.
WaitersIn ==
  /\ \A t \in Tasks : \A p \in waiters[t] : pc[p] = "joining" /\ obj[p] = t
  /\ \A p \in Tasks : pc[p] \in {"subscribe", "joining"} => obj[p] \in Tasks

\* An owner that waits for its scope has closed it.
Closed ==
  \A o \in Owners :
    \/ pc[o] \in {"version", "look", "blocked", "aborts"} /\ obj[o] = NONE
    \/ pc[o] \in {"drained", "reported", "end"}
    => ~scope[o].admitting

\* A published failure is in its scope's list until it is taken.
FailedKept ==
  \A o \in Owners : pc[o] # "end" =>
    \A t \in Retired(OfScope(o)) : status[t] \in Failed /\ t \notin observed => t \in scope[o].failed

\* CountsAgree, counter by counter.
AllRecords == UNION {scope[o].records : o \in Owners}
Mine(c) == {t \in Tasks : carrier[t] = c /\ status[t] # "released"}
Late(c) == IF publishing[c] = NONE THEN 0 ELSE publishing[c].count
Subscribers(t) == {p \in Tasks : pc[p] = "subscribe" /\ obj[p] = t}

RecordsCounted ==
  /\ record_count = Cardinality(AllRecords)
  /\ \A o \in Owners : scope[o].records \subseteq OfScope(o)
ScopesCounted ==
  \A o \in Owners :
    /\ scope[o].admitted = Cardinality(OfScope(o))
    /\ scope[o].retired = Cardinality(Retired(OfScope(o)))
CarriersCounted ==
  \A c \in Carriers :
    /\ loads.assigned[c] = Cardinality(Mine(c))
    /\ retired_tasks[c] + Late(c) = Cardinality(Retired(Mine(c)))
    /\ loads.observed[c] <= retired_tasks[c]
JoinsCounted ==
  \A t \in Tasks : registered[t] = Cardinality(waiters[t]) + Cardinality(Subscribers(t))

\* What a step that neither admits nor retires a task leaves true ...
Settled ==
  /\ Fresh
  /\ Pushers
  /\ RecordsKept
  /\ Closed
  /\ RecordsCounted
  /\ ScopesCounted
  /\ CarriersCounted
  /\ ScopeDrained
  /\ FailedKept
  /\ FailuresReported

\* ... and what a step of no join does.
Joins == WaitersIn /\ JoinsCounted

Inv == Types /\ StatusPlace /\ Carrying /\ Settled /\ Joins

\* CountsAgree is the conjunction of the four parts that count.
LEMMA Counted == CountsAgree <=> RecordsCounted /\ ScopesCounted /\ CarriersCounted /\ JoinsCounted
BY DEF CountsAgree, RecordsCounted, ScopesCounted, CarriersCounted, JoinsCounted, AllRecords,
       Mine, Late, Subscribers

\* Owners, tasks, carriers and NONE are told apart, and sets of tasks are
\* finite.
LEMMA Kinds ==
  /\ Owners \cap Tasks = {} /\ NONE \notin Owners /\ NONE \notin Tasks /\ NONE \notin Carriers
  /\ NONE \notin Batch
  /\ Tasks \subseteq Nat /\ Carriers \subseteq Nat
  /\ IsFiniteSet(Tasks)
  /\ \A S \in SUBSET Tasks : IsFiniteSet(S) /\ Cardinality(S) \in Nat
<1>1. IsFiniteSet(Tasks)
  BY ScopeAssumption, FS_Interval DEF Tasks
<1>2. \A S \in SUBSET Tasks : IsFiniteSet(S) /\ Cardinality(S) \in Nat
  BY <1>1, FS_Subset, FS_CardinalityType
<1> QED
  BY <1>1, <1>2, ScopeAssumption DEF Tasks, Carriers, Batch

-----------------------------------------------------------------------------
(* Initially *)

\* A runtime without scopes satisfies the invariant.
LEMMA InvInit == Init => Inv
<1> SUFFICES ASSUME Init PROVE Inv
  OBVIOUS
<1>1. \A t \in Tasks : status[t] = "none" /\ home[t] = NONE /\ carrier[t] = NONE /\ pc[t] = "run"
  BY Kinds DEF Init, Procs
<1>2. \A o \in Owners : scope[o] = NoScope /\ pc[o] = "out" /\ OfScope(o) = {}
  BY <1>1 DEF Init, Procs, OfScope
<1>3. \A c \in Carriers : Mine(c) = {} /\ Retired(Mine(c)) = {} /\ Late(c) = 0
  BY <1>1, Kinds DEF Init, Mine, Retired, Late
<1>4. \A o \in Owners : Retired(OfScope(o)) = {}
  BY <1>2 DEF Retired
<1>5. \A t \in Tasks : Subscribers(t) = {} /\ waiters[t] = {}
  BY <1>1 DEF Init, Subscribers
<1>6. AllRecords = {}
  BY <1>2 DEF AllRecords, NoScope
<1>7. Types
  <2>1. NoScope \in ScopeRec
    BY DEF NoScope, ScopeRec
  <2>2. 0 \in Carriers
    BY ScopeAssumption DEF Carriers
  <2>3. loads \in Loads
    BY <2>2 DEF Init, Loads
  <2> QED
    BY <2>1, <2>3, Kinds DEF Init, Types, Statuses, Pcs, Procs
<1>8. StatusPlace /\ Carrying
  <2>1. \A c \in Carriers : in_flight[c] = NONE /\ completions[c] = {} /\ aborting[c] = NONE
    BY DEF Init
  <2>2. StatusPlace
    BY <1>1 DEF StatusPlace, Terminal
  <2> QED
    BY <1>1, <2>1, <2>2 DEF Carrying
<1>9. Joins
  <2>1. Cardinality({}) = 0
    BY FS_EmptySet
  <2>2. \A t \in Tasks : registered[t] = 0
    BY DEF Init
  <2> QED
    <3>1. WaitersIn
      BY <1>1, <1>5 DEF WaitersIn
    <3>2. JoinsCounted
      <4>1. \A t \in Tasks : Cardinality(waiters[t]) = 0 /\ Cardinality(Subscribers(t)) = 0
        BY <1>5, <2>1
      <4> QED
        BY <4>1, <2>2 DEF JoinsCounted
    <3> QED
      BY <3>1, <3>2 DEF Joins
<1>10. Fresh /\ Pushers /\ RecordsKept /\ Closed
  <2>1. Fresh
    BY <1>1, <1>2 DEF Fresh, Init, Tasks, NoScope
  <2>2. Pushers
    BY <1>1, <1>2 DEF Pushers, Procs
  <2>3. RecordsKept
    BY <1>2 DEF RecordsKept
  <2>4. Closed
    BY <1>2 DEF Closed
  <2> QED
    BY <2>1, <2>2, <2>3, <2>4
<1>11. RecordsCounted /\ ScopesCounted /\ CarriersCounted
  <2>1. Cardinality({}) = 0
    BY FS_EmptySet
  <2>2. RecordsCounted
    BY <2>1, <1>2, <1>6 DEF RecordsCounted, Init, NoScope
  <2>3. ScopesCounted
    BY <2>1, <1>2, <1>4 DEF ScopesCounted, NoScope
  <2>4. \A c \in Carriers : loads.assigned[c] = 0 /\ loads.observed[c] = 0 /\ retired_tasks[c] = 0
    BY DEF Init
  <2>5. CarriersCounted
    <3>1. \A c \in Carriers : Cardinality(Mine(c)) = 0 /\ Cardinality(Retired(Mine(c))) = 0
      BY <1>3, <2>1
    <3> QED
      BY <2>4, <1>3, <3>1 DEF CarriersCounted
  <2> QED
    BY <2>2, <2>3, <2>5
<1>12. ScopeDrained /\ FailedKept /\ FailuresReported
  BY <1>2, <1>4 DEF ScopeDrained, FailedKept, FailuresReported
<1> QED
  BY <1>7, <1>8, <1>9, <1>10, <1>11, <1>12 DEF Inv, Settled

-----------------------------------------------------------------------------
(* Frames *)

\* The tasks of a scope and of a carrier, and those retired among them, are
\* told by a few variables.
LEMMA SameSets ==
  ASSUME UNCHANGED <<home, carrier>>,
         \A t \in Tasks : status'[t] = "none" <=> status[t] = "none",
         \A t \in Tasks : status'[t] = "released" <=> status[t] = "released",
         \A t \in Tasks : (pc'[t] = "gone" /\ \A c \in Carriers : t \notin completions'[c])
                          <=> (pc[t] = "gone" /\ \A c \in Carriers : t \notin completions[c])
  PROVE  /\ \A o \in Owners : OfScope(o)' = OfScope(o)
         /\ \A o \in Owners : Retired(OfScope(o))' = Retired(OfScope(o))
         /\ \A c \in Carriers : Mine(c)' = Mine(c)
         /\ \A c \in Carriers : Retired(Mine(c))' = Retired(Mine(c))
<1>1. \A o \in Owners : OfScope(o)' = OfScope(o) /\ OfScope(o) \subseteq Tasks
  BY DEF OfScope
<1>2. \A c \in Carriers : Mine(c)' = Mine(c) /\ Mine(c) \subseteq Tasks
  BY DEF Mine
<1>3. \A o \in Owners : Retired(OfScope(o))' = Retired(OfScope(o))
  BY <1>1 DEF Retired
<1>4. \A c \in Carriers : Retired(Mine(c))' = Retired(Mine(c))
  BY <1>2 DEF Retired
<1> QED
  BY <1>1, <1>2, <1>3, <1>4

\* A step that neither admits nor retires a task.
LEMMA SettledFrame ==
  ASSUME Types, Settled,
         UNCHANGED <<home, carrier, scope, record_count, next_task, loads,
                     retired_tasks, publishing, report>>,
         observed \subseteq observed',
         \A o \in Owners : pc'[o] = pc[o] /\ obj'[o] = obj[o],
         \A p \in Tasks : pc'[p] = "push" <=> pc[p] = "push",
         \A p \in Tasks : pc[p] = "push" => obj'[p] = obj[p],
         \A t \in Tasks : (pc'[t] = "gone" /\ \A c \in Carriers : t \notin completions'[c])
                          <=> (pc[t] = "gone" /\ \A c \in Carriers : t \notin completions[c]),
         \A t \in Tasks : status'[t] = "none" <=> status[t] = "none",
         \A t \in Tasks : status'[t] = "released" <=> status[t] = "released",
         \A t \in Tasks : status[t] = "reserved" => status'[t] = "reserved",
         \A t \in Tasks : status[t] \in Terminal => status'[t] = status[t],
         \A t \in Tasks : pc[t] = "gone" => status[t] \in Terminal
  PROVE  Settled'
<1>1. /\ \A o \in Owners : OfScope(o)' = OfScope(o)
      /\ \A o \in Owners : Retired(OfScope(o))' = Retired(OfScope(o))
      /\ \A c \in Carriers : Mine(c)' = Mine(c)
      /\ \A c \in Carriers : Retired(Mine(c))' = Retired(Mine(c))
  BY SameSets
<1>2. Fresh'
  BY DEF Settled, Fresh
<1>3. Pushers'
  <2>1. \A p \in Procs : pc'[p] = "push" => pc[p] = "push" /\ obj'[p] = obj[p]
    BY DEF Procs
  <2> QED
    BY <2>1 DEF Settled, Pushers
<1>4. RecordsKept'
  BY <1>1 DEF Settled, RecordsKept, OfScope
<1>5. Closed'
  BY DEF Settled, Closed
<1>6. RecordsCounted' /\ ScopesCounted'
  BY <1>1 DEF Settled, RecordsCounted, ScopesCounted, AllRecords
<1>7. CarriersCounted'
  BY <1>1 DEF Settled, CarriersCounted, Late
<1>8. ScopeDrained'
  BY <1>1 DEF Settled, ScopeDrained
<1>9. FailedKept'
  <2> SUFFICES ASSUME NEW o \in Owners, pc[o] # "end", NEW t \in Retired(OfScope(o)),
                      status'[t] \in Failed, t \notin observed'
               PROVE  t \in scope[o].failed
    BY <1>1 DEF FailedKept
  <2>1. status'[t] = status[t]
    BY DEF Retired, OfScope
  <2> QED
    BY <2>1 DEF Settled, FailedKept
<1>10. FailuresReported'
  <2> SUFFICES ASSUME NEW o \in Owners \ Supervisors, pc[o] \in {"reported", "end"}, NEW t \in OfScope(o),
                      status'[t] \in Failed, t \notin observed'
               PROVE  t \in report[o]
    BY <1>1 DEF FailuresReported
  <2>1. t \in Retired(OfScope(o))
    BY DEF Settled, ScopeDrained
  <2>2. status'[t] = status[t]
    BY <2>1 DEF Retired, OfScope
  <2> QED
    BY <2>2 DEF Settled, FailuresReported
<1> QED
  BY <1>2, <1>3, <1>4, <1>5, <1>6, <1>7, <1>8, <1>9, <1>10 DEF Settled

\* ... in particular one of a task or a carrier that runs nothing to its end.
LEMMA TaskFrame ==
  ASSUME Types, Settled,
         UNCHANGED <<home, carrier, completions, scope, record_count, next_task, loads,
                     retired_tasks, publishing, report>>,
         observed \subseteq observed',
         \A o \in Owners : pc'[o] = pc[o] /\ obj'[o] = obj[o],
         \A p \in Tasks : pc'[p] = "push" <=> pc[p] = "push",
         \A p \in Tasks : pc[p] = "push" => obj'[p] = obj[p],
         \A t \in Tasks : pc'[t] = "gone" <=> pc[t] = "gone",
         \A t \in Tasks : status'[t] = "none" <=> status[t] = "none",
         \A t \in Tasks : status'[t] = "released" <=> status[t] = "released",
         \A t \in Tasks : status[t] = "reserved" => status'[t] = "reserved",
         \A t \in Tasks : status[t] \in Terminal => status'[t] = status[t],
         \A t \in Tasks : pc[t] = "gone" => status[t] \in Terminal
  PROVE  Settled'
<1>1. \A t \in Tasks : (pc'[t] = "gone" /\ \A c \in Carriers : t \notin completions'[c])
                       <=> (pc[t] = "gone" /\ \A c \in Carriers : t \notin completions[c])
  OBVIOUS
<1> QED
  BY <1>1, SettledFrame

\* A step that is not part of a join.
LEMMA JoinFrame ==
  ASSUME Types, Joins, UNCHANGED <<waiters, registered>>,
         \A p \in Tasks : pc'[p] = "subscribe" <=> pc[p] = "subscribe",
         \A p \in Tasks : pc'[p] = "joining" <=> pc[p] = "joining",
         \A p \in Tasks : pc[p] \in {"subscribe", "joining"} => obj'[p] = obj[p]
  PROVE  Joins'
<1>1. \A t \in Tasks : waiters[t] \subseteq Tasks
  BY DEF Types
<1>2. \A t \in Tasks : Subscribers(t)' = Subscribers(t)
  BY DEF Subscribers
<1>3. WaitersIn'
  BY <1>1 DEF Joins, WaitersIn
<1> QED
  BY <1>2, <1>3 DEF Joins, JoinsCounted

-----------------------------------------------------------------------------
(* The owners *)

Body == {"body", "aborts", "version", "look", "blocked"}

\* The scope as the owner's own steps leave it.
ScopeKept ==
  /\ scope' \in [Owners -> ScopeRec]
  /\ \A s \in Owners : /\ scope'[s].records = scope[s].records
                       /\ scope'[s].admitted = scope[s].admitted
                       /\ scope'[s].retired = scope[s].retired
                       /\ scope'[s].failed = scope[s].failed
                       /\ scope'[s].open = scope[s].open
                       /\ scope'[s].admitting => scope[s].admitting

\* A step of an owner between its scope's beginning and its end.
LEMMA OwnerMoves ==
  ASSUME Inv, NEW o \in Owners, NEW to \in Body \cup {"drained"}, NEW w \in Tasks \cup {NONE},
         pc[o] \in Body,
         pc' = [pc EXCEPT ![o] = to], obj' = [obj EXCEPT ![o] = w],
         ScopeKept,
         (to # "body" /\ w = NONE) \/ to = "drained" => ~scope'[o].admitting,
         to = "drained" => scope[o].admitted = scope[o].retired,
         observed \subseteq observed',
         UNCHANGED <<config, status, home, carrier, next_task, record_count, loads, in_flight,
                     completions, publishing, aborting, retired_tasks, waiters, registered, report>>
  PROVE  Inv'
<1>0. /\ Types /\ Fresh /\ Pushers /\ Carrying /\ RecordsKept /\ Closed /\ RecordsCounted
      /\ ScopesCounted /\ CarriersCounted /\ ScopeDrained /\ FailedKept /\ FailuresReported /\ Joins
      /\ StatusPlace
  BY DEF Inv, Settled
<1> USE DEF ScopeKept
<1>1. /\ \A t \in Tasks : pc'[t] = pc[t] /\ obj'[t] = obj[t]
      /\ \A s \in Owners : s # o => pc'[s] = pc[s] /\ obj'[s] = obj[s]
      /\ pc'[o] = to /\ obj'[o] = w
      /\ to \notin {"out", "reported", "end", "push", "gone"}
      /\ pc[o] \notin {"out", "reported", "end", "push", "gone", "drained"}
  BY <1>0, Kinds DEF Types, Procs, Body
<1>2. /\ \A s \in Owners : OfScope(s)' = OfScope(s)
      /\ \A s \in Owners : Retired(OfScope(s))' = Retired(OfScope(s))
      /\ \A c \in Carriers : Mine(c)' = Mine(c)
      /\ \A c \in Carriers : Retired(Mine(c))' = Retired(Mine(c))
  BY <1>1, SameSets
<1>3. Types'
  <2>1. pc' \in [Procs -> Pcs] /\ obj' \in [Procs -> Tasks \cup {NONE}]
    BY <1>0 DEF Types, Pcs, Body
  <2> QED
    BY <1>0, <2>1 DEF Types
<1>4. Joins'
  BY <1>0, <1>1, JoinFrame
<1>5. StatusPlace' /\ Carrying'
  <2>1. StatusPlace'
    BY <1>0, <1>1 DEF StatusPlace
  <2>2. Carrying'
    BY <1>0, <1>1 DEF Carrying, Types
  <2> QED
    BY <2>1, <2>2
<1>6. Fresh'
  BY <1>0, <1>1 DEF Fresh
<1>7. Pushers'
  <2>1. \A p \in Procs : pc'[p] = "push" => pc[p] = "push" /\ obj'[p] = obj[p]
    BY <1>1 DEF Procs
  <2> QED
    BY <2>1, <1>0 DEF Pushers
<1>8. RecordsKept'
  BY <1>0, <1>1, <1>2 DEF RecordsKept, OfScope
<1>9. Closed'
  <2> SUFFICES ASSUME NEW s \in Owners,
                      \/ pc'[s] \in {"version", "look", "blocked", "aborts"} /\ obj'[s] = NONE
                      \/ pc'[s] \in {"drained", "reported", "end"}
               PROVE  ~scope'[s].admitting
    BY DEF Closed
  <2>1. CASE s = o
    BY <2>1, <1>1
  <2>2. CASE s # o
    BY <2>2, <1>0, <1>1 DEF Closed
  <2> QED
    BY <2>1, <2>2
<1>10. RecordsCounted' /\ ScopesCounted'
  <2>1. AllRecords' = AllRecords
    BY DEF AllRecords
  <2>2. RecordsCounted'
    BY <2>1, <1>0, <1>2 DEF RecordsCounted
  <2>3. ScopesCounted'
    BY <1>0, <1>2 DEF ScopesCounted
  <2> QED
    BY <2>2, <2>3
<1>11. CarriersCounted'
  BY <1>0, <1>2 DEF CarriersCounted, Late
<1>12. ScopeDrained'
  <2>1. to = "drained" => Retired(OfScope(o)) = OfScope(o)
    <3> SUFFICES ASSUME scope[o].admitted = scope[o].retired
                 PROVE  Retired(OfScope(o)) = OfScope(o)
      OBVIOUS
    <3>1. Retired(OfScope(o)) \subseteq OfScope(o) /\ OfScope(o) \subseteq Tasks
      BY DEF Retired, OfScope
    <3>2. Cardinality(Retired(OfScope(o))) = Cardinality(OfScope(o))
      BY <1>0 DEF ScopesCounted
    <3> QED
      BY <3>1, <3>2, Kinds, FS_Subset
  <2> QED
    BY <2>1, <1>0, <1>1, <1>2 DEF ScopeDrained
<1>13. FailedKept'
  BY <1>0, <1>1, <1>2 DEF FailedKept
<1>14. FailuresReported'
  BY <1>0, <1>1, <1>2 DEF FailuresReported
<1> QED
  BY <1>3, <1>4, <1>5, <1>6, <1>7, <1>8, <1>9, <1>10, <1>11, <1>12, <1>13, <1>14 DEF Inv, Settled

\* The fields of a scope's progress.
LEMMA ScopeTypes ==
  Types => \A o \in Owners : /\ scope[o].records \subseteq Tasks /\ scope[o].failed \subseteq Tasks
                             /\ scope[o].admitted \in Nat /\ scope[o].retired \in Nat
                             /\ scope[o].admitting \in BOOLEAN
BY DEF Types, ScopeRec

\* A scope whose flags alone changed.
LEMMA Flagged ==
  ASSUME Types, NEW o \in Owners, NEW admitting \in BOOLEAN, NEW aborts_it \in BOOLEAN,
         NEW cancelled \in BOOLEAN, admitting => scope[o].admitting,
         scope' = [scope EXCEPT ![o] = [@ EXCEPT !.admitting = admitting, !.aborting = aborts_it,
                                                 !.cancelled = cancelled]]
  PROVE  ScopeKept /\ scope'[o].admitting = admitting
<1> DEFINE r == [scope[o] EXCEPT !.admitting = admitting, !.aborting = aborts_it, !.cancelled = cancelled]
<1>1. /\ r \in ScopeRec /\ r.admitting = admitting
      /\ r.records = scope[o].records /\ r.admitted = scope[o].admitted
      /\ r.retired = scope[o].retired /\ r.failed = scope[o].failed /\ r.open = scope[o].open
  <2>1. scope[o] \in ScopeRec
    BY DEF Types
  <2>2. ASSUME NEW x \in ScopeRec
        PROVE  LET y == [x EXCEPT !.admitting = admitting, !.aborting = aborts_it, !.cancelled = cancelled]
               IN /\ y \in ScopeRec /\ y.admitting = admitting /\ y.records = x.records
                  /\ y.admitted = x.admitted /\ y.retired = x.retired /\ y.failed = x.failed
                  /\ y.open = x.open
    BY DEF ScopeRec
  <2> QED
    BY <2>1, <2>2
<1>2. scope' = [scope EXCEPT ![o] = r]
  OBVIOUS
<1> HIDE DEF r
<1>3. \A s \in Owners : scope'[s] = IF s = o THEN r ELSE scope[s]
  BY <1>2 DEF Types
<1>4. scope' \in [Owners -> ScopeRec]
  BY <1>1, <1>2 DEF Types
<1> QED
  BY <1>1, <1>3, <1>4 DEF ScopeKept

\* A process that keeps its object may be said to set it.
LEMMA Unmoved == Types => \A p \in Procs : obj[p] \in Tasks \cup {NONE} /\ obj = [obj EXCEPT ![p] = obj[p]]
BY DEF Types

\* with_scope closes its scope after the body, and cancels it when that
\* failed.
LEMMA CloseScope ==
  ASSUME Inv, NEW o \in Owners, NEW b \in BOOLEAN, close_scope(o, b)
  PROVE  Inv'
<1>0. Types /\ o \in Procs
  BY DEF Inv, Procs
<1>1. pc[o] = "body" /\ pc' = [pc EXCEPT ![o] = "version"] /\ obj' = obj
  BY DEF close_scope, Goto
<1>2. ScopeKept /\ ~scope'[o].admitting
  <2>1. scope' = [scope EXCEPT ![o] = [@ EXCEPT !.admitting = FALSE, !.aborting = scope[o].aborting,
                                                !.cancelled = scope[o].cancelled \/ b]]
    BY <1>0 DEF close_scope, Types, ScopeRec
  <2>2. scope[o].aborting \in BOOLEAN /\ (scope[o].cancelled \/ b) \in BOOLEAN
    BY <1>0 DEF Types, ScopeRec
  <2> QED
    BY <1>0, <2>1, <2>2, Flagged
<1>3. UNCHANGED <<config, status, home, carrier, next_task, record_count, loads, in_flight, completions,
                  publishing, aborting, retired_tasks, waiters, registered, report, observed>>
  BY DEF close_scope, Rests, admVars
<1>4. "version" \in Body /\ "body" \in Body
  BY DEF Body
<1> QED
  BY <1>0, <1>1, <1>2, <1>3, <1>4, Unmoved, OwnerMoves

\* abort_scope marks a supervisor's scope.
LEMMA AbortScope ==
  ASSUME Inv, NEW o \in Owners, NEW b \in BOOLEAN, abort_scope(o, b)
  PROVE  Inv'
<1>0. Types /\ o \in Procs
  BY DEF Inv, Procs
<1>1. pc[o] = "body" /\ pc' = [pc EXCEPT ![o] = "aborts"] /\ obj' = obj
  BY DEF abort_scope, Goto
<1>2. ScopeKept /\ ~scope'[o].admitting
  <2>1. scope' = [scope EXCEPT ![o] = [@ EXCEPT !.admitting = FALSE, !.aborting = TRUE,
                                                !.cancelled = scope[o].cancelled]]
    BY <1>0 DEF abort_scope, Types, ScopeRec
  <2>2. scope[o].cancelled \in BOOLEAN
    BY <1>0 DEF Types, ScopeRec
  <2> QED
    BY <1>0, <2>1, <2>2, Flagged
<1>3. UNCHANGED <<config, status, home, carrier, next_task, record_count, loads, in_flight, completions,
                  publishing, aborting, retired_tasks, waiters, registered, report, observed>>
  BY DEF abort_scope, Rests, joinVars, admVars
<1>4. "aborts" \in Body /\ "body" \in Body
  BY DEF Body
<1> QED
  BY <1>0, <1>1, <1>2, <1>3, <1>4, Unmoved, OwnerMoves

\* An abort is named to the inboxes; no counter speaks of them.
LEMMA AbortInboxes ==
  ASSUME Inv, NEW o \in Owners, abort_inboxes(o)
  PROVE  Inv'
<1>0. Types /\ Closed /\ o \in Procs
  BY DEF Inv, Settled, Procs
<1>1. pc[o] = "aborts" /\ pc' = [pc EXCEPT ![o] = "version"] /\ obj' = obj
  BY DEF abort_inboxes, Goto
<1>2. ScopeKept
  <2>1. CASE scope' = scope
    BY <1>0, <2>1 DEF ScopeKept, Types
  <2>2. CASE scope' = [scope EXCEPT ![o].cancelled = TRUE]
    <3>1. scope' = [scope EXCEPT ![o] = [@ EXCEPT !.admitting = scope[o].admitting,
                                                  !.aborting = scope[o].aborting, !.cancelled = TRUE]]
      BY <1>0, <2>2 DEF Types, ScopeRec
    <3>2. scope[o].aborting \in BOOLEAN /\ scope[o].admitting \in BOOLEAN
      BY <1>0 DEF Types, ScopeRec
    <3> QED
      BY <1>0, <3>1, <3>2, Flagged
  <2> QED
    BY <2>1, <2>2 DEF abort_inboxes
<1>3. UNCHANGED <<config, status, home, carrier, next_task, record_count, loads, in_flight, completions,
                  publishing, aborting, retired_tasks, waiters, registered, report, observed>>
  BY DEF abort_inboxes, Rests, admVars
<1>4. "aborts" \in Body /\ "version" \in Body
  BY DEF Body
<1>5. obj[o] = NONE => ~scope'[o].admitting
  BY <1>0, <1>1, <1>2 DEF Closed, ScopeKept, Types, ScopeRec
<1> QED
  BY <1>0, <1>1, <1>2, <1>3, <1>4, <1>5, Unmoved, OwnerMoves

\* An owner registers for a task it joins.
LEMMA OsJoin ==
  ASSUME Inv, NEW o \in Owners, NEW t \in Tasks, os_join(o, t)
  PROVE  Inv'
<1>0. Types /\ o \in Procs
  BY DEF Inv, Procs
<1>1. pc[o] = "body" /\ pc' = [pc EXCEPT ![o] = "version"] /\ obj' = [obj EXCEPT ![o] = t]
  BY DEF os_join, Goto
<1>2. ScopeKept
  BY <1>0 DEF os_join, ScopeKept, Types, ScopeRec
<1>3. UNCHANGED <<config, status, home, carrier, next_task, record_count, loads, in_flight, completions,
                  publishing, aborting, retired_tasks, waiters, registered, report, observed>>
  BY DEF os_join, Rests, admVars
<1>4. "body" \in Body /\ "version" \in Body /\ t # NONE
  BY Kinds DEF Body
<1> QED
  BY <1>0, <1>1, <1>2, <1>3, <1>4, OwnerMoves

\* An owner reads the version of changed.
LEMMA Version ==
  ASSUME Inv, NEW o \in Owners, version(o)
  PROVE  Inv'
<1>0. Types /\ Closed /\ o \in Procs
  BY DEF Inv, Settled, Procs
<1>1. pc[o] = "version" /\ pc' = [pc EXCEPT ![o] = "look"] /\ obj' = obj
  BY DEF version, Goto
<1>2. ScopeKept
  BY <1>0 DEF version, ScopeKept, Types, ScopeRec
<1>3. UNCHANGED <<config, status, home, carrier, next_task, record_count, loads, in_flight, completions,
                  publishing, aborting, retired_tasks, waiters, registered, report, observed>>
  BY DEF version, Rests, joinVars, admVars
<1>4. "look" \in Body /\ "version" \in Body
  BY DEF Body
<1>5. obj[o] = NONE => ~scope'[o].admitting
  BY <1>0, <1>1, <1>2 DEF Closed, ScopeKept
<1> QED
  BY <1>0, <1>1, <1>2, <1>3, <1>4, <1>5, Unmoved, OwnerMoves

\* An owner wakes up, or its stall timeout passes.
LEMMA Unblock ==
  ASSUME Inv, NEW o \in Owners, unblock(o)
  PROVE  Inv'
<1>0. Types /\ Closed /\ o \in Procs
  BY DEF Inv, Settled, Procs
<1>1. pc[o] = "blocked" /\ pc' = [pc EXCEPT ![o] = "version"] /\ obj' = obj
  BY DEF unblock, Goto
<1>2. ScopeKept
  BY <1>0 DEF unblock, ScopeKept, Types, ScopeRec
<1>3. UNCHANGED <<config, status, home, carrier, next_task, record_count, loads, in_flight, completions,
                  publishing, aborting, retired_tasks, waiters, registered, report, observed>>
  BY DEF unblock, Rests, joinVars, admVars
<1>4. "blocked" \in Body /\ "version" \in Body
  BY DEF Body
<1>5. obj[o] = NONE => ~scope'[o].admitting
  BY <1>0, <1>1, <1>2 DEF Closed, ScopeKept
<1> QED
  BY <1>0, <1>1, <1>2, <1>3, <1>4, <1>5, Unmoved, OwnerMoves

\* shutdown_until gives up and keeps the scope.
LEMMA TimeOut ==
  ASSUME Inv, NEW o \in Owners, time_out(o)
  PROVE  Inv'
<1>0. Types /\ Closed /\ o \in Procs
  BY DEF Inv, Settled, Procs
<1>1. pc[o] = "look" /\ pc' = [pc EXCEPT ![o] = "body"] /\ obj' = obj
  BY DEF time_out, Goto
<1>2. ScopeKept
  BY <1>0 DEF time_out, ScopeKept, Types, ScopeRec
<1>3. UNCHANGED <<config, status, home, carrier, next_task, record_count, loads, in_flight, completions,
                  publishing, aborting, retired_tasks, waiters, registered, report, observed>>
  BY DEF time_out, Rests, joinVars, admVars
<1>4. "look" \in Body /\ "body" \in Body
  BY DEF Body
<1> QED
  BY <1>0, <1>1, <1>2, <1>3, <1>4, Unmoved, OwnerMoves

\* A look ends the wait when the scope is drained or the target done; what it
\* does otherwise changes nothing that the counters are about.
LEMMA Look ==
  ASSUME Inv, NEW o \in Owners, NEW pending, look(o, pending)
  PROVE  Inv'
<1>0. Types /\ Closed /\ o \in Procs
  BY DEF Inv, Settled, Procs
<1>1. pc[o] = "look" /\ "look" \in Body
  BY DEF look, Body
<1>2. ScopeKept
  <2>1. CASE scope' = scope
    BY <1>0, <2>1 DEF ScopeKept, Types
  <2>2. CASE scope' = [scope EXCEPT ![o].aborting = TRUE]
    <3>1. scope' = [scope EXCEPT ![o] = [@ EXCEPT !.admitting = scope[o].admitting,
                                           !.aborting = TRUE, !.cancelled = scope[o].cancelled]]
      BY <1>0, <2>2 DEF Types, ScopeRec
    <3>2. scope[o].cancelled \in BOOLEAN /\ scope[o].admitting \in BOOLEAN
      BY <1>0 DEF Types, ScopeRec
    <3> QED
      BY <1>0, <3>1, <3>2, Flagged
  <2>3. scope' = scope \/ scope' = [scope EXCEPT ![o].aborting = TRUE]
    BY DEF look
  <2> QED
    BY <2>1, <2>2, <2>3
<1>3. UNCHANGED <<config, status, home, carrier, next_task, record_count, loads, in_flight, completions,
                  publishing, aborting, retired_tasks, waiters, registered, report>>
      /\ observed \subseteq observed'
  BY DEF look, Rests, admVars
<1>4. obj[o] = NONE => ~scope'[o].admitting
  BY <1>0, <1>1, <1>2 DEF Closed, ScopeKept
<1>5. CASE Finished(o)
  <2>1. /\ pc' = [pc EXCEPT ![o] = IF obj[o] = NONE THEN "drained" ELSE "body"]
        /\ obj' = [obj EXCEPT ![o] = NONE]
    BY <1>5 DEF look
  <2>2. CASE obj[o] = NONE
    <3>1. scope[o].admitted - scope[o].retired = 0
      BY <1>5, <2>2 DEF Finished, active
    <3>2. scope[o].admitted = scope[o].retired
      BY <3>1, <1>0, ScopeTypes
    <3> QED
      BY <1>1, <1>2, <1>3, <1>4, <2>1, <2>2, <3>2, OwnerMoves
  <2>3. CASE obj[o] # NONE
    <3>1. "body" \in Body
      BY DEF Body
    <3> QED
      BY <1>1, <1>2, <1>3, <2>1, <2>3, <3>1, OwnerMoves
  <2> QED
    BY <2>2, <2>3
<1>6. CASE ~Finished(o)
  <2>1. \E to \in {"aborts", "version", "blocked"} : pc' = [pc EXCEPT ![o] = to]
    BY <1>6 DEF look
  <2>2. obj' = obj
    BY <1>6 DEF look
  <2>3. PICK to \in {"aborts", "version", "blocked"} : pc' = [pc EXCEPT ![o] = to]
    BY <2>1
  <2>4. to \in Body /\ to # "drained"
    BY DEF Body
  <2> QED
    BY <1>0, <1>1, <1>2, <1>3, <1>4, <2>2, <2>3, <2>4, Unmoved, OwnerMoves
<1> QED
  BY <1>5, <1>6

-----------------------------------------------------------------------------
(* The tasks' joins *)

\* The parts of the invariant.
LEMMA Parts ==
  Inv => /\ Types /\ Fresh /\ Pushers /\ Carrying /\ RecordsKept /\ Closed /\ RecordsCounted
         /\ ScopesCounted /\ CarriersCounted /\ ScopeDrained /\ FailedKept /\ FailuresReported
         /\ StatusPlace /\ Joins /\ Settled
BY DEF Inv, Settled

\* A task that is gone has an outcome.
LEMMA GoneTerminal == Types /\ StatusPlace => \A t \in Tasks : pc[t] = "gone" => status[t] \in Terminal
BY DEF Types, StatusPlace, Statuses, Terminal

\* The terms of the waiter count of a completion are numbers.
LEMMA JoinSizes ==
  ASSUME Types, Joins, NEW t \in Tasks
  PROVE  /\ IsFiniteSet(waiters[t]) /\ Cardinality(waiters[t]) \in Nat
         /\ IsFiniteSet(Subscribers(t)) /\ Cardinality(Subscribers(t)) \in Nat
         /\ registered[t] = Cardinality(waiters[t]) + Cardinality(Subscribers(t))
<1>1. waiters[t] \in SUBSET Tasks /\ Subscribers(t) \in SUBSET Tasks
  BY DEF Types, Subscribers
<1> QED
  BY <1>1, Kinds DEF Joins, JoinsCounted

\* A join counts itself before it takes the map lock.
LEMMA Announce ==
  ASSUME Inv, NEW p \in Tasks, NEW t \in Tasks, announce(p, t)
  PROVE  Inv'
<1>0. Types /\ StatusPlace /\ Carrying /\ Settled /\ Joins /\ p \in Procs /\ p \notin Owners
  BY Parts, Kinds DEF Procs
<1>1. /\ pc[p] = "run" /\ pc' = [pc EXCEPT ![p] = "subscribe"] /\ obj' = [obj EXCEPT ![p] = t]
      /\ status[p] = "running"
      /\ registered' = [registered EXCEPT ![t] = @ + 1]
      /\ UNCHANGED <<config, status, home, carrier, observed, scope, record_count, next_task, loads,
                     retired_tasks, completions, publishing, aborting, report, waiters, in_flight>>
  BY DEF announce, Goto, Running, Stays, recVars, admVars
<1>2. /\ \A q \in Procs : pc'[q] = IF q = p THEN "subscribe" ELSE pc[q]
      /\ \A q \in Procs : obj'[q] = IF q = p THEN t ELSE obj[q]
  BY <1>0, <1>1 DEF Types
<1>3. Settled'
  BY <1>0, <1>1, <1>2, TaskFrame, GoneTerminal DEF Procs
<1>4. Types'
  <2>1. pc' \in [Procs -> Pcs] /\ obj' \in [Procs -> Tasks \cup {NONE}]
    BY <1>0, <1>1 DEF Types, Pcs
  <2>2. registered' \in [Tasks -> Nat]
    BY <1>0, <1>1 DEF Types
  <2> QED
    BY <1>0, <1>1, <2>1, <2>2 DEF Types
<1>5. StatusPlace'
  BY <1>0, <1>1, <1>2 DEF StatusPlace, Procs, Terminal
<1>6. Carrying'
  BY <1>0, <1>1, <1>2 DEF Carrying, Procs, Types
<1>7. WaitersIn'
  <2>1. \A u \in Tasks : waiters[u] \subseteq Tasks
    BY <1>0 DEF Types
  <2> QED
    BY <2>1, <1>0, <1>1, <1>2 DEF Joins, WaitersIn, Procs
<1>8. JoinsCounted'
  <2>1. \A u \in Tasks : u # t => Subscribers(u)' = Subscribers(u) /\ registered'[u] = registered[u]
    BY <1>0, <1>1, <1>2 DEF Subscribers, Procs, Types
  <2>2. Subscribers(t)' = Subscribers(t) \cup {p} /\ p \notin Subscribers(t)
    BY <1>0, <1>1, <1>2 DEF Subscribers, Procs
  <2>3. Cardinality(Subscribers(t)') = Cardinality(Subscribers(t)) + 1
    BY <2>2, <1>0, JoinSizes, FS_AddElement
  <2>4. registered'[t] = registered[t] + 1
    BY <1>0, <1>1 DEF Types
  <2>5. registered'[t] = Cardinality(waiters[t]) + Cardinality(Subscribers(t)')
    BY <2>3, <2>4, <1>0, JoinSizes
  <2> QED
    BY <2>1, <2>5, <1>0, <1>1 DEF Joins, JoinsCounted
<1> QED
  BY <1>3, <1>4, <1>5, <1>6, <1>7, <1>8 DEF Inv, Joins

\* A join enters the map, or finds DONE and gives its count back.
LEMMA Enroll ==
  ASSUME Inv, NEW p \in Tasks, enroll(p)
  PROVE  Inv'
<1>0. Types /\ StatusPlace /\ Carrying /\ Settled /\ Joins /\ p \in Procs /\ p \notin Owners
  BY Parts, Kinds DEF Procs
<1>1. /\ pc[p] = "subscribe" /\ pc' = [pc EXCEPT ![p] = "joining"]
      /\ status[p] = "running" /\ subscribe(p, obj[p])
      /\ UNCHANGED <<config, status, home, carrier, observed, scope, record_count, next_task, loads,
                     retired_tasks, completions, publishing, aborting, report, obj, in_flight>>
  BY DEF enroll, Goto, Running, Stays, recVars, admVars
<1>2. \A q \in Procs : pc'[q] = IF q = p THEN "joining" ELSE pc[q]
  BY <1>0, <1>1 DEF Types
<1>3. Settled'
  BY <1>0, <1>1, <1>2, TaskFrame, GoneTerminal DEF Procs
<1> SUFFICES ASSUME NEW t \in Tasks, t = obj[p]
             PROVE  Inv'
  BY <1>0, <1>1 DEF Joins, WaitersIn
<1>4. p \notin waiters[t] /\ waiters[t] \subseteq Tasks
  BY <1>0, <1>1 DEF Joins, WaitersIn, Types
<1>5. Subscribers(t)' = Subscribers(t) \ {p} /\ p \in Subscribers(t)
  BY <1>0, <1>1, <1>2 DEF Subscribers, Procs
<1>6. Cardinality(Subscribers(t)') = Cardinality(Subscribers(t)) - 1
  BY <1>5, <1>0, JoinSizes, FS_RemoveElement, ZenonT(60)
<1>7. /\ \A u \in Tasks : u # t => Subscribers(u)' = Subscribers(u) /\ registered'[u] = registered[u]
                                   /\ waiters'[u] = waiters[u]
      /\ waiters'[t] = waiters[t] \/ waiters'[t] = waiters[t] \cup {p}
      /\ waiters' \in [Tasks -> SUBSET Tasks]
  <2>1. \A u \in Tasks : u # t => Subscribers(u)' = Subscribers(u)
    BY <1>0, <1>1, <1>2 DEF Subscribers, Procs
  <2> QED
    BY <2>1, <1>0, <1>1 DEF subscribe, Types
<1>8. registered'[t] = Cardinality(waiters'[t]) + Cardinality(Subscribers(t)') /\ registered' \in [Tasks -> Nat]
  <2>0. Cardinality(Subscribers(t)) \in Nat \ {0}
    BY <1>5, <1>0, JoinSizes, FS_EmptySet
  <2>3. registered[t] = Cardinality(waiters[t]) + Cardinality(Subscribers(t)) /\ Cardinality(waiters[t]) \in Nat
    BY <1>0, JoinSizes
  <2>1. CASE t \in done
    <3>1. registered' = [registered EXCEPT ![t] = @ - 1] /\ waiters' = waiters
      BY <1>1, <2>1 DEF subscribe
    <3>2. registered[t] - 1 = Cardinality(waiters[t]) + Cardinality(Subscribers(t)') /\ registered[t] - 1 \in Nat
      BY <2>0, <2>3, <1>6
    <3>3. registered'[t] = registered[t] - 1 /\ registered' \in [Tasks -> Nat]
      BY <3>1, <3>2, <1>0 DEF Types
    <3> QED
      BY <3>1, <3>2, <3>3
  <2>2. CASE t \notin done
    <3>1. registered' = registered /\ waiters'[t] = waiters[t] \cup {p}
      BY <1>0, <1>1, <2>2 DEF subscribe, Types
    <3>2. Cardinality(waiters'[t]) = Cardinality(waiters[t]) + 1
      <4>1. IsFiniteSet(waiters[t])
        BY <1>0, JoinSizes
      <4> QED
        BY <4>1, <3>1, <1>4, FS_AddElement
    <3>3. registered[t] = Cardinality(waiters'[t]) + Cardinality(Subscribers(t)')
      BY <2>0, <2>3, <3>2, <1>6
    <3>4. registered \in [Tasks -> Nat]
      BY <1>0 DEF Types
    <3> QED
      BY <3>1, <3>3, <3>4
  <2> QED
    BY <2>1, <2>2
<1>9. Types'
  <2>1. pc' \in [Procs -> Pcs]
    BY <1>0, <1>1 DEF Types, Pcs
  <2> QED
    BY <1>0, <1>1, <1>7, <1>8, <2>1 DEF Types
<1>10. StatusPlace'
  BY <1>0, <1>1, <1>2 DEF StatusPlace, Procs, Terminal
<1>11. Carrying'
  BY <1>0, <1>1, <1>2 DEF Carrying, Procs, Types
<1>12. WaitersIn'
  <2>1. \A u \in Tasks : waiters[u] \subseteq Tasks
    BY <1>0 DEF Types
  <2> QED
    BY <2>1, <1>0, <1>1, <1>2, <1>7 DEF Joins, WaitersIn, Procs
<1>13. JoinsCounted'
  BY <1>0, <1>7, <1>8 DEF Joins, JoinsCounted
<1> QED
  BY <1>3, <1>9, <1>10, <1>11, <1>12, <1>13 DEF Inv, Joins

\* What the drop of a subscription leaves.
LEMMA Dropped ==
  ASSUME Types, Joins, NEW p \in Tasks, NEW t \in Tasks, NEW to \in {"run", "drain", "retire"},
         pc[p] = "joining", obj[p] = t, Unsubscribe(p, t),
         \A q \in Tasks : pc'[q] = IF q = p THEN to ELSE pc[q],
         \A q \in Tasks : obj'[q] = IF q = p THEN NONE ELSE obj[q]
  PROVE  Joins' /\ waiters' \in [Tasks -> SUBSET Tasks] /\ registered' \in [Tasks -> Nat]
<1>1. \A u \in Tasks : Subscribers(u)' = Subscribers(u)
  BY DEF Subscribers
<1>2. /\ \A u \in Tasks : waiters'[u] = IF u = t THEN waiters[t] \ {p} ELSE waiters[u]
      /\ \A u \in Tasks : u # t => registered'[u] = registered[u]
      /\ waiters' \in [Tasks -> SUBSET Tasks]
  BY DEF Unsubscribe, Types
<1>3. registered'[t] = Cardinality(waiters[t] \ {p}) + Cardinality(Subscribers(t)) /\ registered' \in [Tasks -> Nat]
  <2>1. CASE p \in waiters[t]
    <3>1. registered' = [registered EXCEPT ![t] = @ - 1]
      BY <2>1 DEF Unsubscribe
    <3>2. Cardinality(waiters[t] \ {p}) = Cardinality(waiters[t]) - 1
      BY <2>1, JoinSizes, FS_RemoveElement
    <3>3. Cardinality(waiters[t]) # 0
      BY <2>1, JoinSizes, FS_EmptySet
    <3>4. /\ registered[t] = Cardinality(waiters[t]) + Cardinality(Subscribers(t))
          /\ Cardinality(waiters[t]) \in Nat /\ Cardinality(Subscribers(t)) \in Nat
      BY JoinSizes
    <3>5. registered[t] - 1 = Cardinality(waiters[t] \ {p}) + Cardinality(Subscribers(t)) /\ registered[t] - 1 \in Nat
      BY <3>2, <3>3, <3>4
    <3>6. registered'[t] = registered[t] - 1 /\ registered' \in [Tasks -> Nat]
      BY <3>1, <3>5 DEF Types
    <3> QED
      BY <3>5, <3>6
  <2>2. CASE p \notin waiters[t]
    <3>1. registered' = registered /\ waiters[t] \ {p} = waiters[t]
      BY <2>2 DEF Unsubscribe
    <3> QED
      BY <3>1, JoinSizes DEF Types
  <2> QED
    BY <2>1, <2>2
<1>4. JoinsCounted'
  <2> SUFFICES ASSUME NEW u \in Tasks
               PROVE  registered'[u] = Cardinality(waiters'[u]) + Cardinality(Subscribers(u)')
    BY DEF JoinsCounted
  <2>1. CASE u = t
    BY <2>1, <1>1, <1>2, <1>3
  <2>2. CASE u # t
    BY <2>2, <1>1, <1>2 DEF Joins, JoinsCounted
  <2> QED
    BY <2>1, <2>2
<1>5. WaitersIn'
  <2>1. \A u \in Tasks : waiters[u] \subseteq Tasks
    BY DEF Types
  <2>2. \A u \in Tasks : p \notin waiters'[u]
    BY <1>2 DEF Joins, WaitersIn
  <2> QED
    BY <2>1, <2>2, <1>2 DEF Joins, WaitersIn
<1> QED
  BY <1>2, <1>3, <1>4, <1>5 DEF Joins

\* A join returns and drops its subscription.
LEMMA LeaveWait ==
  ASSUME Inv, NEW p \in Tasks, leave_wait(p)
  PROVE  Inv'
<1>0. Types /\ StatusPlace /\ Carrying /\ Settled /\ Joins /\ p \in Procs /\ p \notin Owners
  BY Parts, Kinds DEF Procs
<1>1. /\ pc[p] = "joining" /\ pc' = [pc EXCEPT ![p] = "run"] /\ obj' = [obj EXCEPT ![p] = NONE]
      /\ status[p] = "running" /\ Unsubscribe(p, obj[p]) /\ observed \subseteq observed'
      /\ UNCHANGED <<config, status, home, carrier, scope, record_count, next_task, loads,
                     retired_tasks, completions, publishing, aborting, report, in_flight>>
  BY DEF leave_wait, Goto, Running, Stays, admVars
<1>2. /\ \A q \in Procs : pc'[q] = IF q = p THEN "run" ELSE pc[q]
      /\ \A q \in Procs : obj'[q] = IF q = p THEN NONE ELSE obj[q]
  BY <1>0, <1>1 DEF Types
<1>3. Settled'
  BY <1>0, <1>1, <1>2, TaskFrame, GoneTerminal DEF Procs
<1>4. obj[p] \in Tasks
  BY <1>0, <1>1 DEF Joins, WaitersIn
<1>5. Joins' /\ waiters' \in [Tasks -> SUBSET Tasks] /\ registered' \in [Tasks -> Nat]
  BY <1>0, <1>1, <1>2, <1>4, Dropped DEF Procs
<1>6. Types'
  <2>1. pc' \in [Procs -> Pcs] /\ obj' \in [Procs -> Tasks \cup {NONE}]
    BY <1>0, <1>1 DEF Types, Pcs
  <2> QED
    BY <1>0, <1>1, <1>5, <2>1 DEF Types
<1>7. StatusPlace'
  BY <1>0, <1>1, <1>2 DEF StatusPlace, Procs, Terminal
<1>8. Carrying'
  BY <1>0, <1>1, <1>2 DEF Carrying, Procs, Types
<1> QED
  BY <1>3, <1>5, <1>6, <1>7, <1>8 DEF Inv

\* complete empties the map and takes its waiters off the count.
LEMMA Drain ==
  ASSUME Inv, NEW t \in Tasks, drain(t)
  PROVE  Inv'
<1>0. Types /\ StatusPlace /\ Carrying /\ Settled /\ Joins /\ t \in Procs /\ t \notin Owners
  BY Parts, Kinds DEF Procs
<1>1. /\ pc[t] = "drain" /\ pc' = [pc EXCEPT ![t] = "retire"]
      /\ waiters' = [waiters EXCEPT ![t] = {}]
      /\ registered' = [registered EXCEPT ![t] = @ - Cardinality(waiters[t])]
      /\ UNCHANGED <<config, status, home, carrier, observed, scope, record_count, next_task, loads,
                     retired_tasks, completions, publishing, aborting, report, in_flight, obj>>
  BY DEF drain, Goto, Stays, recVars, admVars
<1>2. \A q \in Procs : pc'[q] = IF q = t THEN "retire" ELSE pc[q]
  BY <1>0, <1>1 DEF Types
<1>3. Settled'
  BY <1>0, <1>1, <1>2, TaskFrame, GoneTerminal DEF Procs
<1>4. \A u \in Tasks : Subscribers(u)' = Subscribers(u)
  BY <1>0, <1>1, <1>2 DEF Subscribers, Procs
<1>5. /\ \A u \in Tasks : u # t => registered'[u] = registered[u] /\ waiters'[u] = waiters[u]
      /\ waiters' \in [Tasks -> SUBSET Tasks] /\ waiters'[t] = {}
  BY <1>0, <1>1 DEF Types
<1>6. registered'[t] = Cardinality(Subscribers(t)) /\ registered' \in [Tasks -> Nat]
  <2>1. /\ registered[t] = Cardinality(waiters[t]) + Cardinality(Subscribers(t))
        /\ Cardinality(waiters[t]) \in Nat /\ Cardinality(Subscribers(t)) \in Nat
    BY <1>0, JoinSizes
  <2>2. registered[t] - Cardinality(waiters[t]) = Cardinality(Subscribers(t))
    BY <2>1
  <2> QED
    BY <1>0, <1>1, <2>1, <2>2 DEF Types
<1>7. JoinsCounted'
  <2>1. Cardinality({}) = 0 /\ Cardinality(Subscribers(t)) \in Nat
    BY <1>0, JoinSizes, FS_EmptySet
  <2>2. registered'[t] = Cardinality(waiters'[t]) + Cardinality(Subscribers(t)')
    BY <2>1, <1>4, <1>5, <1>6
  <2> QED
    BY <2>2, <1>0, <1>4, <1>5 DEF Joins, JoinsCounted
<1>8. WaitersIn'
  <2>1. \A u \in Tasks : waiters[u] \subseteq Tasks /\ waiters'[u] \subseteq waiters[u]
    BY <1>0, <1>5 DEF Types
  <2> QED
    BY <2>1, <1>0, <1>1, <1>2 DEF Joins, WaitersIn, Procs
<1>9. Types'
  <2>1. pc' \in [Procs -> Pcs]
    BY <1>0, <1>1 DEF Types, Pcs
  <2> QED
    BY <1>0, <1>1, <1>5, <1>6, <2>1 DEF Types
<1>10. StatusPlace'
  BY <1>0, <1>1, <1>2 DEF StatusPlace, Procs, Terminal
<1>11. Carrying'
  BY <1>0, <1>1, <1>2 DEF Carrying, Procs, Types
<1> QED
  BY <1>3, <1>7, <1>8, <1>9, <1>10, <1>11 DEF Inv, Joins

-----------------------------------------------------------------------------
(* What carriers do with tasks *)

\* A task that is no longer new has its scope and its carrier.
LEMMA Placed ==
  Inv => \A t \in Tasks : status[t] # "none" => home[t] \in Owners /\ carrier[t] \in Carriers
BY Parts DEF Fresh

\* A join parks, or consumes a permit.
LEMMA Park ==
  ASSUME Inv, NEW p \in Tasks, park(p)
  PROVE  Inv'
<1>0. /\ Types /\ StatusPlace /\ Carrying /\ Settled /\ Joins /\ p \in Procs
      /\ status[p] = "running" /\ pc[p] = "joining" /\ in_flight[carrier[p]] = p
      /\ carrier[p] \in Carriers /\ p # NONE
  BY Parts, Placed, Kinds DEF park, Running, Procs
<1>1. UNCHANGED <<config, home, carrier, observed, scope, record_count, next_task, loads, registered, waiters,
                  retired_tasks, completions, publishing, aborting, report, obj, pc>>
  BY DEF park, Stays, admVars
<1>2. CASE p \in notices
  <2>1. UNCHANGED <<status, in_flight>>
    BY <1>2 DEF park
  <2>2. Settled'
    BY <1>0, <1>1, <2>1, TaskFrame, GoneTerminal
  <2>3. Joins'
    BY <1>0, <1>1, JoinFrame
  <2>4. Types' /\ StatusPlace'
    BY <1>0, <1>1, <2>1 DEF Types, StatusPlace
  <2>5. Carrying'
    BY <1>0, <1>1, <2>1 DEF Carrying
  <2> QED
    BY <2>2, <2>3, <2>4, <2>5 DEF Inv
<1>3. CASE p \notin notices
  <2>1. status' = [status EXCEPT ![p] = "parked"] /\ in_flight' = [in_flight EXCEPT ![carrier[p]] = NONE]
    BY <1>3 DEF park
  <2>2. /\ \A t \in Tasks : status'[t] = IF t = p THEN "parked" ELSE status[t]
        /\ \A c \in Carriers : in_flight'[c] = IF c = carrier[p] THEN NONE ELSE in_flight[c]
    BY <2>1, <1>0 DEF Types
  <2>3. Settled'
    BY <1>0, <1>1, <2>2, TaskFrame, GoneTerminal DEF Terminal
  <2>4. Joins'
    BY <1>0, <1>1, JoinFrame
  <2>5. Types'
    BY <1>0, <1>1, <2>1 DEF Types, Statuses
  <2>6. StatusPlace'
    BY <1>0, <1>1, <2>2 DEF StatusPlace, Terminal
  <2>7. Carrying'
    <3>1. \A t \in Tasks : pc[t] \in {"drain", "retire"} => in_flight'[carrier[t]] = t
      BY <1>0, <2>1, Kinds DEF Carrying, Types
    <3>2. \A c \in Carriers : in_flight'[c] # NONE => in_flight'[c] = in_flight[c]
      BY <2>2
    <3>3. \A c \in Carriers : in_flight[c] # NONE => in_flight[c] \in Tasks
      BY <1>0 DEF Types
    <3> QED
      BY <1>0, <1>1, <2>2, <3>1, <3>2, <3>3 DEF Carrying
  <2> QED
    BY <2>3, <2>4, <2>5, <2>6, <2>7 DEF Inv
<1> QED
  BY <1>2, <1>3

\* A task looks at its policy before it admits a local child.
LEMMA Spawn ==
  ASSUME Inv, NEW p \in Tasks, NEW from, NEW to, {from, to} = {"run", "spawn"},
         status[p] = "running", pc[p] = from, pc' = [pc EXCEPT ![p] = to],
         UNCHANGED <<config, status, home, carrier, observed, scope, record_count, next_task, loads,
                     registered, waiters, retired_tasks, completions, publishing, aborting, report,
                     obj, in_flight>>
  PROVE  Inv'
<1>0. Types /\ StatusPlace /\ Carrying /\ Settled /\ Joins /\ p \in Procs /\ p \notin Owners
  BY Parts, Kinds DEF Procs
<1>1. /\ from \in {"run", "spawn"} /\ to \in {"run", "spawn"}
      /\ \A q \in Procs : pc'[q] = IF q = p THEN to ELSE pc[q]
  BY <1>0 DEF Types
<1>2. Settled'
  BY <1>0, <1>1, TaskFrame, GoneTerminal DEF Procs
<1>3. Joins'
  BY <1>0, <1>1, JoinFrame DEF Procs
<1>4. Types'
  <2>1. pc' \in [Procs -> Pcs]
    BY <1>0, <1>1 DEF Types, Pcs
  <2> QED
    BY <1>0, <2>1 DEF Types
<1>5. StatusPlace'
  BY <1>0, <1>1 DEF StatusPlace, Procs, Terminal
<1>6. Carrying'
  BY <1>0, <1>1 DEF Carrying, Procs, Types
<1> QED
  BY <1>2, <1>3, <1>4, <1>5, <1>6 DEF Inv

\* A notified join becomes ready.
LEMMA Wake ==
  ASSUME Inv, NEW p \in Tasks, wake(p)
  PROVE  Inv'
<1>0. /\ Types /\ StatusPlace /\ Carrying /\ Settled /\ Joins
      /\ status[p] = "parked" /\ pc[p] = "joining"
  BY Parts DEF wake, StatusPlace
<1>1. /\ status' = [status EXCEPT ![p] = "ready"]
      /\ UNCHANGED <<config, home, carrier, observed, scope, record_count, next_task, loads, registered, waiters,
                     retired_tasks, completions, publishing, aborting, report, obj, pc, in_flight>>
  BY DEF wake, Stays, admVars
<1>2. \A t \in Tasks : status'[t] = IF t = p THEN "ready" ELSE status[t]
  BY <1>0, <1>1 DEF Types
<1>3. Settled'
  BY <1>0, <1>1, <1>2, TaskFrame, GoneTerminal DEF Terminal
<1>4. Joins'
  BY <1>0, <1>1, JoinFrame
<1>5. Types'
  BY <1>0, <1>1 DEF Types, Statuses
<1>6. StatusPlace'
  BY <1>0, <1>1, <1>2 DEF StatusPlace, Terminal
<1>7. Carrying'
  <2>1. \A c \in Carriers : in_flight[c] # NONE => in_flight[c] \in Tasks
    BY <1>0 DEF Types
  <2> QED
    BY <1>0, <1>1, <1>2, <2>1 DEF Carrying
<1> QED
  BY <1>3, <1>4, <1>5, <1>6, <1>7 DEF Inv

\* A body ends: the record becomes terminal and DONE is set.
LEMMA CompleteTask ==
  ASSUME Inv, NEW t \in Tasks, NEW st \in {"completed", "panicked"}, complete_task(t, st)
  PROVE  Inv'
<1>0. /\ Types /\ StatusPlace /\ Carrying /\ Settled /\ Joins /\ t \in Procs /\ t \notin Owners
      /\ status[t] = "running" /\ pc[t] = "run" /\ in_flight[carrier[t]] = t
  BY Parts, Kinds DEF complete_task, Running, Procs, Goto
<1>1. /\ status' = [status EXCEPT ![t] = st]
      /\ UNCHANGED <<config, home, carrier, observed, scope, record_count, next_task, loads, registered, waiters,
                     retired_tasks, completions, publishing, aborting, report, obj, in_flight>>
  BY DEF complete_task, Stays, admVars
<1>2. PICK to \in {"retire", "drain"} : pc' = [pc EXCEPT ![t] = to]
  BY DEF complete_task, Goto
<1>3. /\ \A u \in Tasks : status'[u] = IF u = t THEN st ELSE status[u]
      /\ \A q \in Procs : pc'[q] = IF q = t THEN to ELSE pc[q]
  BY <1>0, <1>1, <1>2 DEF Types
<1>4. Settled'
  BY <1>0, <1>1, <1>3, TaskFrame, GoneTerminal DEF Terminal, Procs
<1>5. Joins'
  BY <1>0, <1>1, <1>3, JoinFrame DEF Procs
<1>6. Types'
  <2>1. pc' \in [Procs -> Pcs] /\ status' \in [Tasks -> Statuses]
    BY <1>0, <1>1, <1>2 DEF Types, Statuses, Pcs, Terminal
  <2> QED
    BY <1>0, <1>1, <2>1 DEF Types
<1>7. StatusPlace'
  BY <1>0, <1>1, <1>3 DEF StatusPlace, Terminal, Procs
<1>8. Carrying'
  <2>1. \A c \in Carriers : in_flight[c] # NONE => in_flight[c] \in Tasks
    BY <1>0 DEF Types
  <2>2. \A c \in Carriers : completions[c] \subseteq Tasks
    BY <1>0 DEF Types
  <2> QED
    BY <1>0, <1>1, <1>3, <2>1, <2>2 DEF Carrying, Procs
<1> QED
  BY <1>4, <1>5, <1>6, <1>7, <1>8 DEF Inv

\* A carrier takes the packets of its inbox.
LEMMA Receive ==
  ASSUME Inv, NEW c \in Carriers, receive(c)
  PROVE  Inv'
<1>0. Types /\ StatusPlace /\ Carrying /\ Settled /\ Joins
  BY Parts
<1>1. /\ \A t \in Tasks : status'[t] = status[t] \/ (status[t] = "queued" /\ status'[t] = "ready")
      /\ status' \in [Tasks -> Statuses]
      /\ UNCHANGED <<config, home, carrier, observed, scope, record_count, next_task, loads, registered, waiters,
                     retired_tasks, completions, publishing, aborting, report, obj, pc, in_flight>>
  BY <1>0 DEF receive, Here, joinVars, kernelVars, admVars, Types, Statuses
<1>2. Settled'
  BY <1>0, <1>1, TaskFrame, GoneTerminal DEF Terminal
<1>3. Joins'
  BY <1>0, <1>1, JoinFrame
<1>4. Types'
  BY <1>0, <1>1 DEF Types
<1>5. StatusPlace'
  BY <1>0, <1>1 DEF StatusPlace, Terminal
<1>6. Carrying'
  <2>1. \A d \in Carriers : in_flight[d] # NONE => in_flight[d] \in Tasks
    BY <1>0 DEF Types
  <2> QED
    BY <1>0, <1>1, <2>1 DEF Carrying
<1> QED
  BY <1>2, <1>3, <1>4, <1>5, <1>6 DEF Inv

\* It takes the local starts of its tasks.
LEMMA ReceiveLocal ==
  ASSUME Inv, NEW c \in Carriers, receive_local(c)
  PROVE  Inv'
<1>0. Types /\ StatusPlace /\ Carrying /\ Settled /\ Joins
  BY Parts
<1>1. /\ \A t \in Tasks : status'[t] = status[t] \/ (status[t] = "start" /\ status'[t] = "ready")
      /\ status' \in [Tasks -> Statuses]
      /\ UNCHANGED <<config, home, carrier, observed, scope, record_count, next_task, loads, registered, waiters,
                     retired_tasks, completions, publishing, aborting, report, obj, pc, in_flight>>
  BY <1>0 DEF receive_local, Here, joinVars, kernelVars, admVars, Types, Statuses
<1>2. Settled'
  BY <1>0, <1>1, TaskFrame, GoneTerminal DEF Terminal
<1>3. Joins'
  BY <1>0, <1>1, JoinFrame
<1>4. Types'
  BY <1>0, <1>1 DEF Types
<1>5. StatusPlace'
  BY <1>0, <1>1 DEF StatusPlace, Terminal
<1>6. Carrying'
  <2>1. \A d \in Carriers : in_flight[d] # NONE => in_flight[d] \in Tasks
    BY <1>0 DEF Types
  <2> QED
    BY <1>0, <1>1, <2>1 DEF Carrying
<1> QED
  BY <1>2, <1>3, <1>4, <1>5, <1>6 DEF Inv

\* A carrier runs a task of the scope its batch is for.
LEMMA Dispatch ==
  ASSUME Inv, NEW c \in Carriers, NEW t \in Tasks, dispatch(c, t)
  PROVE  Inv'
<1>0. /\ Types /\ StatusPlace /\ Carrying /\ Settled /\ Joins
      /\ status[t] = "ready" /\ carrier[t] = c
      /\ in_flight[c] = NONE /\ publishing[c] = NONE /\ aborting[c] = NONE
      /\ \A u \in completions[c] : home[u] = home[t]
  BY Parts DEF dispatch, Here, Idle
<1>1. /\ status' = [status EXCEPT ![t] = "running"] /\ in_flight' = [in_flight EXCEPT ![c] = t]
      /\ UNCHANGED <<config, home, carrier, observed, scope, record_count, next_task, loads, registered, waiters,
                     retired_tasks, completions, publishing, aborting, report, obj, pc>>
  BY DEF dispatch, joinVars, admVars
<1>2. /\ \A u \in Tasks : status'[u] = IF u = t THEN "running" ELSE status[u]
      /\ \A d \in Carriers : in_flight'[d] = IF d = c THEN t ELSE in_flight[d]
  BY <1>0, <1>1 DEF Types
<1>3. Settled'
  BY <1>0, <1>1, <1>2, TaskFrame, GoneTerminal DEF Terminal
<1>4. Joins'
  BY <1>0, <1>1, JoinFrame
<1>5. Types'
  BY <1>0, <1>1 DEF Types, Statuses
<1>6. StatusPlace'
  BY <1>0, <1>1, <1>2 DEF StatusPlace, Terminal
<1>7. Carrying'
  <2>1. \A u \in Tasks : pc[u] \in {"drain", "retire"} => carrier[u] # c /\ in_flight'[carrier[u]] = u
    BY <1>0, <1>1, Kinds DEF Carrying, Types
  <2>2. \A d \in Carriers : in_flight[d] # NONE => in_flight[d] \in Tasks
    BY <1>0 DEF Types
  <2> QED
    BY <1>0, <1>1, <1>2, <2>1, <2>2 DEF Carrying
<1> QED
  BY <1>3, <1>4, <1>5, <1>6, <1>7 DEF Inv

\* A carrier begins to reclaim a scope once its batch is flushed.
LEMMA BeginAbort ==
  ASSUME Inv, NEW c \in Carriers, NEW s \in Owners, begin_abort(c, s)
  PROVE  Inv'
<1>0. /\ Types /\ StatusPlace /\ Carrying /\ Settled /\ Joins
      /\ in_flight[c] = NONE /\ completions[c] = {}
  BY Parts DEF begin_abort, Idle
<1>1. /\ aborting' = [aborting EXCEPT ![c] = s]
      /\ UNCHANGED <<config, status, home, carrier, observed, scope, record_count, next_task, loads, registered,
                     waiters, retired_tasks, completions, publishing, in_flight, report, obj, pc>>
  BY DEF begin_abort, recVars, joinVars, admVars
<1>2. Settled'
  BY <1>0, <1>1, TaskFrame, GoneTerminal
<1>3. Joins'
  BY <1>0, <1>1, JoinFrame
<1>4. Types' /\ StatusPlace'
  BY <1>0, <1>1 DEF Types, StatusPlace
<1>5. Carrying'
  BY <1>0, <1>1 DEF Carrying, Types
<1> QED
  BY <1>2, <1>3, <1>4, <1>5 DEF Inv

\* Nothing of an aborted scope is left on the carrier.
LEMMA EndAbort ==
  ASSUME Inv, NEW c \in Carriers, end_abort(c)
  PROVE  Inv'
<1>0. Types /\ StatusPlace /\ Carrying /\ Settled /\ Joins
  BY Parts
<1>1. /\ aborting' = [aborting EXCEPT ![c] = NONE]
      /\ UNCHANGED <<config, status, home, carrier, observed, scope, record_count, next_task, loads, registered,
                     waiters, retired_tasks, completions, publishing, in_flight, report, obj, pc>>
  BY DEF end_abort, recVars, joinVars, admVars
<1>2. Settled'
  BY <1>0, <1>1, TaskFrame, GoneTerminal
<1>3. Joins'
  BY <1>0, <1>1, JoinFrame
<1>4. Types' /\ StatusPlace'
  BY <1>0, <1>1 DEF Types, StatusPlace
<1>5. Carrying'
  BY <1>0, <1>1 DEF Carrying, Types
<1> QED
  BY <1>2, <1>3, <1>4, <1>5 DEF Inv

\* The stack of an aborted task is dropped, and its join with it.
LEMMA Discard ==
  ASSUME Inv, NEW c \in Carriers, NEW t \in Tasks, discard(c, t)
  PROVE  Inv'
<1>0. /\ Types /\ StatusPlace /\ Carrying /\ Settled /\ Joins /\ t \in Procs /\ t \notin Owners
      /\ status[t] \in {"queued", "start", "ready", "parked"} /\ carrier[t] = c
      /\ in_flight[c] = NONE /\ publishing[c] = NONE /\ completions[c] = {}
  BY Parts, Kinds DEF discard, Discarded, Here, Carrying, Procs
<1>1. /\ status' = [status EXCEPT ![t] = "aborted"] /\ in_flight' = [in_flight EXCEPT ![c] = t]
      /\ obj' = [obj EXCEPT ![t] = NONE]
      /\ observed \subseteq observed'
      /\ UNCHANGED <<config, home, carrier, scope, record_count, next_task, loads,
                     retired_tasks, completions, publishing, aborting, report>>
  BY DEF discard, admVars
<1>2. PICK to \in {"retire", "drain"} : pc' = [pc EXCEPT ![t] = to]
  BY DEF discard
<1>3. /\ \A u \in Tasks : status'[u] = IF u = t THEN "aborted" ELSE status[u]
      /\ \A d \in Carriers : in_flight'[d] = IF d = c THEN t ELSE in_flight[d]
      /\ \A q \in Procs : pc'[q] = IF q = t THEN to ELSE pc[q]
      /\ \A q \in Procs : obj'[q] = IF q = t THEN NONE ELSE obj[q]
  BY <1>0, <1>1, <1>2 DEF Types
<1>4. pc[t] \in {"run", "joining"}
  BY <1>0 DEF StatusPlace
<1>5. Settled'
  BY <1>0, <1>1, <1>3, <1>4, TaskFrame, GoneTerminal DEF Terminal, Procs
<1>6. Joins' /\ waiters' \in [Tasks -> SUBSET Tasks] /\ registered' \in [Tasks -> Nat]
  <2>1. CASE pc[t] = "joining"
    <3>1. Unsubscribe(t, obj[t]) /\ obj[t] \in Tasks
      BY <2>1, <1>0 DEF discard, Joins, WaitersIn
    <3> QED
      BY <2>1, <3>1, <1>0, <1>3, Dropped DEF Procs
  <2>2. CASE pc[t] # "joining"
    <3>1. UNCHANGED <<waiters, registered>>
      BY <2>2 DEF discard
    <3>2. Joins'
      BY <2>2, <3>1, <1>0, <1>3, <1>4, JoinFrame DEF Procs
    <3> QED
      BY <3>1, <3>2, <1>0 DEF Types
  <2> QED
    BY <2>1, <2>2
<1>7. Types'
  <2>1. pc' \in [Procs -> Pcs] /\ status' \in [Tasks -> Statuses] /\ obj' \in [Procs -> Tasks \cup {NONE}]
        /\ in_flight' \in [Carriers -> Tasks \cup {NONE}]
    BY <1>0, <1>1, <1>2 DEF Types, Statuses, Pcs, Terminal
  <2> QED
    BY <1>0, <1>1, <1>6, <2>1 DEF Types
<1>8. StatusPlace'
  BY <1>0, <1>1, <1>3 DEF StatusPlace, Terminal, Procs
<1>9. Carrying'
  <2>1. \A u \in Tasks : pc[u] \in {"drain", "retire"} => carrier[u] # c /\ in_flight'[carrier[u]] = u
    BY <1>0, <1>1, Kinds DEF Carrying, Types
  <2>2. \A d \in Carriers : in_flight[d] # NONE => in_flight[d] \in Tasks
    BY <1>0 DEF Types
  <2>3. \A d \in Carriers : completions[d] \subseteq Tasks
    BY <1>0 DEF Types
  <2> QED
    BY <1>0, <1>1, <1>3, <1>4, <2>1, <2>2, <2>3 DEF Carrying, Procs
<1> QED
  BY <1>5, <1>6, <1>7, <1>8, <1>9 DEF Inv

-----------------------------------------------------------------------------
(* Retirement *)

\* The retired count of a batch becomes visible to placement.
LEMMA PublishCompletions ==
  ASSUME Inv, NEW c \in Carriers, publish_completions(c)
  PROVE  Inv'
<1>0. /\ Types /\ StatusPlace /\ Carrying /\ Settled /\ Joins
      /\ Fresh /\ Pushers /\ RecordsKept /\ Closed /\ RecordsCounted
      /\ ScopesCounted /\ CarriersCounted /\ ScopeDrained /\ FailedKept /\ FailuresReported
      /\ publishing[c] \in Batch /\ publishing[c].count \in Nat
  BY Parts DEF publish_completions, Types, Batch
<1>1. /\ publishing' = [publishing EXCEPT ![c] = NONE]
      /\ retired_tasks' = [retired_tasks EXCEPT ![c] = @ + publishing[c].count]
      /\ UNCHANGED <<config, status, home, carrier, observed, scope, record_count, next_task, loads, registered,
                     waiters, aborting, completions, in_flight, report, obj, pc>>
  BY DEF publish_completions, recVars, joinVars, admVars
<1>2. /\ \A o \in Owners : OfScope(o)' = OfScope(o)
      /\ \A o \in Owners : Retired(OfScope(o))' = Retired(OfScope(o))
      /\ \A d \in Carriers : Mine(d)' = Mine(d)
      /\ \A d \in Carriers : Retired(Mine(d))' = Retired(Mine(d))
  BY <1>1, SameSets
<1>3. /\ \A d \in Carriers : d # c => publishing'[d] = publishing[d] /\ retired_tasks'[d] = retired_tasks[d]
      /\ publishing'[c] = NONE /\ retired_tasks'[c] = retired_tasks[c] + publishing[c].count
      /\ \A d \in Carriers : retired_tasks[d] \in Nat /\ loads.observed[d] \in Nat
      /\ publishing[c] # NONE
  BY <1>0, <1>1, Kinds DEF Types, Loads
<1>4. CarriersCounted'
  <2> SUFFICES ASSUME NEW d \in Carriers
               PROVE  /\ loads.assigned[d] = Cardinality(Mine(d))
                      /\ retired_tasks'[d] + Late(d)' = Cardinality(Retired(Mine(d)))
                      /\ loads.observed[d] <= retired_tasks'[d]
    BY <1>1, <1>2 DEF CarriersCounted
  <2>1. /\ loads.assigned[d] = Cardinality(Mine(d))
        /\ retired_tasks[d] + Late(d) = Cardinality(Retired(Mine(d)))
        /\ loads.observed[d] <= retired_tasks[d]
    BY <1>0 DEF CarriersCounted
  <2>2. CASE d = c
    <3>1. Late(d)' = 0 /\ Late(d) = publishing[c].count
      BY <2>2, <1>3 DEF Late
    <3> QED
      BY <2>1, <2>2, <3>1, <1>0, <1>3
  <2>3. CASE d # c
    BY <2>1, <2>3, <1>3 DEF Late
  <2> QED
    BY <2>2, <2>3
<1>5. Fresh' /\ Pushers' /\ Closed' /\ RecordsKept'
  BY <1>0, <1>1, <1>2 DEF Fresh, Pushers, Closed, RecordsKept
<1>6. RecordsCounted' /\ ScopesCounted'
  BY <1>0, <1>1, <1>2 DEF RecordsCounted, ScopesCounted, AllRecords
<1>7. ScopeDrained' /\ FailedKept' /\ FailuresReported'
  BY <1>0, <1>1, <1>2 DEF ScopeDrained, FailedKept, FailuresReported
<1>8. Joins'
  BY <1>0, <1>1, JoinFrame
<1>9. Types'
  <2>1. publishing' \in [Carriers -> Batch \cup {NONE}] /\ retired_tasks' \in [Carriers -> Nat]
    BY <1>0, <1>1 DEF Types
  <2> QED
    BY <1>0, <1>1, <2>1 DEF Types
<1>10. StatusPlace' /\ Carrying'
  BY <1>0, <1>1, <1>3 DEF StatusPlace, Carrying
<1> QED
  BY <1>4, <1>5, <1>6, <1>7, <1>8, <1>9, <1>10 DEF Inv, Settled

\* The scope that a batch was retired in.
LEMMA ScopeRetires ==
  ASSUME Types, NEW s \in Owners, NEW n \in Nat, NEW lost \in SUBSET Tasks,
         scope' = [scope EXCEPT ![s] = [scope[s] EXCEPT !.retired = scope[s].retired + n,
                                                          !.failed = scope[s].failed \cup lost]]
  PROVE  /\ \A o \in Owners : /\ scope'[o].records = scope[o].records
                              /\ scope'[o].admitted = scope[o].admitted
                              /\ scope'[o].admitting = scope[o].admitting
                              /\ scope'[o].open = scope[o].open
                              /\ o # s => scope'[o].retired = scope[o].retired /\ scope'[o].failed = scope[o].failed
         /\ scope'[s].retired = scope[s].retired + n
         /\ scope'[s].failed = scope[s].failed \cup lost
         /\ scope' \in [Owners -> ScopeRec]
<1>1. ASSUME NEW x \in ScopeRec
      PROVE  LET y == [x EXCEPT !.retired = x.retired + n, !.failed = x.failed \cup lost]
             IN /\ y \in ScopeRec /\ y.records = x.records /\ y.admitted = x.admitted
                /\ y.admitting = x.admitting /\ y.open = x.open
                /\ y.retired = x.retired + n /\ y.failed = x.failed \cup lost
  <2> DEFINE y == [x EXCEPT !.retired = x.retired + n, !.failed = x.failed \cup lost]
  <2>1. x.retired + n \in Nat /\ x.failed \cup lost \in SUBSET Tasks
    BY DEF ScopeRec
  <2>2. y \in ScopeRec
    BY <2>1 DEF ScopeRec
  <2> QED
    BY <2>2 DEF ScopeRec
<1> DEFINE r == [scope[s] EXCEPT !.retired = scope[s].retired + n, !.failed = scope[s].failed \cup lost]
<1>2. scope[s] \in ScopeRec
  BY DEF Types
<1>3. /\ r \in ScopeRec /\ r.records = scope[s].records /\ r.admitted = scope[s].admitted
      /\ r.admitting = scope[s].admitting /\ r.open = scope[s].open
      /\ r.retired = scope[s].retired + n /\ r.failed = scope[s].failed \cup lost
  BY <1>1, <1>2
<1>4. scope' = [scope EXCEPT ![s] = r]
  OBVIOUS
<1> HIDE DEF r
<1>5. \A o \in Owners : scope'[o] = IF o = s THEN r ELSE scope[o]
  BY <1>4 DEF Types
<1>6. scope' \in [Owners -> ScopeRec]
  BY <1>3, <1>4 DEF Types
<1> QED
  BY <1>3, <1>5, <1>6

\* A batch of one scope's and one carrier's terminal tasks is retired: its
\* tasks are the only ones that become so.
LEMMA BatchRetired ==
  ASSUME Inv, NEW c \in Carriers, NEW s \in Owners, NEW b \in SUBSET Tasks, b # {},
         \A t \in b : carrier[t] = c /\ home[t] = s /\ status[t] \in Terminal,
         \A t \in b : pc[t] = "retire" \/ t \in completions[c],
         completions[c] \subseteq b, publishing[c] = NONE, retire(c, b),
         \A p \in Owners : pc'[p] = pc[p],
         \A p \in Tasks : pc'[p] = "push" <=> pc[p] = "push",
         \A p \in Tasks : pc'[p] = "gone" <=> (pc[p] = "gone" \/ p \in b),
         UNCHANGED <<config, status, home, carrier, observed, next_task, record_count, loads,
                     retired_tasks, obj, report>>
  PROVE  /\ Settled'
         /\ scope' \in [Owners -> ScopeRec] /\ publishing' \in [Carriers -> Batch \cup {NONE}]
         /\ completions' = [completions EXCEPT ![c] = {}]
         /\ \A d \in Carriers : d # c => publishing'[d] = publishing[d]
<1>0. /\ Types /\ Carrying /\ Fresh /\ Pushers /\ RecordsKept /\ Closed /\ RecordsCounted
      /\ ScopesCounted /\ CarriersCounted /\ ScopeDrained /\ FailedKept /\ FailuresReported
  BY Parts
<1> SUFFICES ASSUME NEW lost, lost = {t \in b : status[t] \in Failed},
                    NEW n, n = Cardinality(b)
             PROVE  /\ Settled'
                    /\ scope' \in [Owners -> ScopeRec] /\ publishing' \in [Carriers -> Batch \cup {NONE}]
                    /\ completions' = [completions EXCEPT ![c] = {}]
                    /\ \A d \in Carriers : d # c => publishing'[d] = publishing[d]
  OBVIOUS
<1>2. n \in Nat /\ lost \in SUBSET Tasks /\ IsFiniteSet(b)
  BY Kinds
<1>3. /\ scope' = [scope EXCEPT ![s] = [scope[s] EXCEPT !.retired = scope[s].retired + n,
                                                          !.failed = scope[s].failed \cup lost]]
      /\ completions' = [completions EXCEPT ![c] = {}]
      /\ \E drained \in BOOLEAN : publishing' = [publishing EXCEPT ![c] = [count |-> n, drained |-> drained]]
  <2> DEFINE q == home[CHOOSE t \in b : TRUE]
             now == [scope[q] EXCEPT !.retired = scope[q].retired + Cardinality(b),
                                     !.failed = scope[q].failed \cup {t \in b : status[t] \in Failed}]
             drained == now.retired = now.admitted
  <2>1. q = s
    OBVIOUS
  <2>2. /\ scope' = [scope EXCEPT ![q] = now]
        /\ completions' = [completions EXCEPT ![c] = {}]
        /\ publishing' = [publishing EXCEPT ![c] = [count |-> Cardinality(b), drained |-> drained]]
    BY Zenon DEF retire
  <2>3. drained \in BOOLEAN
    OBVIOUS
  <2>4. scope' = [scope EXCEPT ![s] = [scope[s] EXCEPT !.retired = scope[s].retired + Cardinality(b),
                          !.failed = scope[s].failed \cup {t \in b : status[t] \in Failed}]]
    <3> HIDE DEF q
    <3> QED
      BY <2>1, <2>2
  <2>5. \E x \in BOOLEAN : publishing' = [publishing EXCEPT ![c] = [count |-> Cardinality(b), drained |-> x]]
    <3> HIDE DEF drained
    <3> QED
      BY <2>2, <2>3
  <2> QED
    BY <2>2, <2>4, <2>5, Zenon
<1>4. /\ \A o \in Owners : /\ scope'[o].records = scope[o].records
                           /\ scope'[o].admitted = scope[o].admitted
                           /\ scope'[o].admitting = scope[o].admitting
                           /\ scope'[o].open = scope[o].open
                           /\ o # s => scope'[o].retired = scope[o].retired /\ scope'[o].failed = scope[o].failed
      /\ scope'[s].retired = scope[s].retired + n
      /\ scope'[s].failed = scope[s].failed \cup lost
      /\ scope' \in [Owners -> ScopeRec]
  <2>1. scope' = [scope EXCEPT ![s] = [scope[s] EXCEPT !.retired = scope[s].retired + n,
                                                       !.failed = scope[s].failed \cup lost]]
    BY <1>3
  <2>2. Types
    BY <1>0
  <2> QED
    BY <1>2, <2>1, <2>2, ScopeRetires, ZenonT(60)
<1>5. /\ \A d \in Carriers : completions'[d] = IF d = c THEN {} ELSE completions[d]
      /\ \A d \in Carriers : d # c => publishing'[d] = publishing[d]
      /\ publishing'[c] \in Batch /\ publishing'[c].count = n
      /\ publishing' \in [Carriers -> Batch \cup {NONE}]
  <2>1. PICK drained \in BOOLEAN : publishing' = [publishing EXCEPT ![c] = [count |-> n, drained |-> drained]]
    BY <1>3
  <2>2. [count |-> n, drained |-> drained] \in Batch
    BY <1>2 DEF Batch
  <2> QED
    BY <1>0, <1>3, <2>1, <2>2 DEF Types
<1>6. \A d \in Carriers : d # c => \A t \in b : t \notin completions[d]
  BY <1>0 DEF Carrying
<1>7. /\ \A o \in Owners : OfScope(o)' = OfScope(o)
      /\ \A d \in Carriers : Mine(d)' = Mine(d)
      /\ b \subseteq OfScope(s) /\ b \subseteq Mine(c)
      /\ \A o \in Owners : o # s => b \cap OfScope(o) = {}
      /\ \A d \in Carriers : d # c => b \cap Mine(d) = {}
  BY DEF OfScope, Mine, Terminal
<1>8. \A t \in Tasks : (pc[t] = "gone" /\ \A d \in Carriers : t \notin completions[d]) => t \notin b
  OBVIOUS
<1>9. \A t \in Tasks : (pc'[t] = "gone" /\ \A d \in Carriers : t \notin completions'[d])
                       <=> (t \in b \/ (pc[t] = "gone" /\ \A d \in Carriers : t \notin completions[d]))
  BY <1>5, <1>6, <1>8
<1>10. /\ \A o \in Owners : o # s => Retired(OfScope(o))' = Retired(OfScope(o))
       /\ Retired(OfScope(s))' = Retired(OfScope(s)) \cup b
       /\ Retired(OfScope(s)) \cap b = {}
  <2>1. \A o \in Owners : OfScope(o) \subseteq Tasks
    BY DEF OfScope
  <2> QED
    BY <2>1, <1>7, <1>8, <1>9 DEF Retired
<1>11. /\ \A d \in Carriers : d # c => Retired(Mine(d))' = Retired(Mine(d))
       /\ Retired(Mine(c))' = Retired(Mine(c)) \cup b
       /\ Retired(Mine(c)) \cap b = {}
  <2>1. \A d \in Carriers : Mine(d) \subseteq Tasks
    BY DEF Mine
  <2> QED
    BY <2>1, <1>7, <1>8, <1>9 DEF Retired
<1>12. \A S \in SUBSET Tasks : S \cap b = {} => Cardinality(S \cup b) = Cardinality(S) + n
  <2> SUFFICES ASSUME NEW S \in SUBSET Tasks, S \cap b = {}
               PROVE  Cardinality(S \cup b) = Cardinality(S) + n
    OBVIOUS
  <2>1. IsFiniteSet(S) /\ Cardinality(S) \in Nat
    BY Kinds
  <2>2. Cardinality(S \cup b) = Cardinality(S) + Cardinality(b) - Cardinality(S \cap b)
    BY <2>1, <1>2, FS_Union
  <2>3. Cardinality(S \cap b) = 0
    BY FS_EmptySet
  <2> QED
    BY <2>1, <2>2, <2>3, <1>2
<1>13. Retired(OfScope(s)) \in SUBSET Tasks /\ Retired(Mine(c)) \in SUBSET Tasks
  BY DEF Retired, OfScope, Mine
<1>14. RecordsCounted' /\ ScopesCounted'
  <2>1. AllRecords' = AllRecords
    BY <1>4 DEF AllRecords
  <2>2. RecordsCounted'
    BY <2>1, <1>0, <1>4, <1>7 DEF RecordsCounted
  <2>3. Cardinality(Retired(OfScope(s))') = scope[s].retired + n
    BY <1>0, <1>10, <1>12, <1>13 DEF ScopesCounted
  <2>4. ScopesCounted'
    <3> SUFFICES ASSUME NEW o \in Owners
                 PROVE  /\ scope'[o].admitted = Cardinality(OfScope(o))
                        /\ scope'[o].retired = Cardinality(Retired(OfScope(o))')
      BY <1>7 DEF ScopesCounted
    <3>1. CASE o = s
      BY <3>1, <2>3, <1>0, <1>4 DEF ScopesCounted
    <3>2. CASE o # s
      BY <3>2, <1>0, <1>4, <1>10 DEF ScopesCounted
    <3> QED
      BY <3>1, <3>2
  <2> QED
    BY <2>2, <2>4
<1>15. CarriersCounted'
  <2> SUFFICES ASSUME NEW d \in Carriers
               PROVE  retired_tasks[d] + Late(d)' = Cardinality(Retired(Mine(d))')
    BY <1>0, <1>7 DEF CarriersCounted
  <2>1. retired_tasks[d] + Late(d) = Cardinality(Retired(Mine(d))) /\ retired_tasks[d] \in Nat
    BY <1>0 DEF CarriersCounted, Types
  <2>2. CASE d = c
    <3>1. Late(d) = 0 /\ Late(d)' = n
      BY <2>2, <1>5, Kinds DEF Late
    <3>2. Cardinality(Retired(Mine(c))') = Cardinality(Retired(Mine(c))) + n
      BY <1>11, <1>12, <1>13
    <3> QED
      BY <2>1, <2>2, <3>1, <3>2, <1>2
  <2>3. CASE d # c
    BY <2>1, <2>3, <1>5, <1>11 DEF Late
  <2> QED
    BY <2>2, <2>3
<1>16. Fresh' /\ Closed' /\ Pushers'
  <2>1. Fresh'
    BY <1>0, <1>4 DEF Fresh
  <2>2. Closed'
    BY <1>0, <1>4 DEF Closed
  <2>3. \A p \in Procs : pc'[p] = "push" <=> pc[p] = "push"
    BY DEF Procs
  <2>4. Pushers'
    BY <2>3, <1>0 DEF Pushers
  <2> QED
    BY <2>1, <2>2, <2>4
<1>17. RecordsKept'
  BY <1>0, <1>4, <1>7 DEF RecordsKept
<1>18. ScopeDrained'
  <2>1. Retired(OfScope(s)) \subseteq OfScope(s)
    BY DEF Retired
  <2> QED
    BY <2>1, <1>0, <1>7, <1>10 DEF ScopeDrained
<1>19. FailedKept'
  <2>1. \A t \in b : status[t] \in Failed => t \in lost
    OBVIOUS
  <2> QED
    BY <2>1, <1>0, <1>4, <1>7, <1>10 DEF FailedKept
<1>20. FailuresReported'
  BY <1>0, <1>7 DEF FailuresReported
<1> QED
  BY <1>3, <1>4, <1>5, <1>14, <1>15, <1>16, <1>17, <1>18, <1>19, <1>20 DEF Settled

\* A completed task joins its carrier's batch, which may be retired with
\* it.
LEMMA QueueCompletion ==
  ASSUME Inv, NEW t \in Tasks, queue_completion(t)
  PROVE  Inv'
<1>0. /\ Types /\ StatusPlace /\ Carrying /\ Settled /\ Joins /\ t \in Procs /\ t \notin Owners
      /\ pc[t] = "retire" /\ status[t] \in Terminal
      /\ home[t] \in Owners /\ carrier[t] \in Carriers /\ t # NONE
  <2>1. Types /\ StatusPlace /\ pc[t] = "retire"
    BY Parts DEF queue_completion
  <2>2. status[t] \in Terminal
    BY <2>1 DEF Types, StatusPlace, Statuses
  <2> QED
    BY <2>1, <2>2, Parts, Placed, Kinds DEF Procs, Terminal
<1> SUFFICES ASSUME NEW c \in Carriers, c = carrier[t], NEW s \in Owners, s = home[t],
                    NEW b, b = completions[c] \cup {t}
             PROVE  Inv'
  BY <1>0
<1>1. /\ pc' = [pc EXCEPT ![t] = "gone"] /\ in_flight' = [in_flight EXCEPT ![c] = NONE]
      /\ UNCHANGED <<config, status, home, carrier, observed, next_task, record_count, loads,
                     registered, waiters, obj, aborting, retired_tasks, report>>
  BY DEF queue_completion, recVars, admVars, joinVars
<1>2. /\ \A q \in Procs : pc'[q] = IF q = t THEN "gone" ELSE pc[q]
      /\ \A d \in Carriers : in_flight'[d] = IF d = c THEN NONE ELSE in_flight[d]
      /\ in_flight' \in [Carriers -> Tasks \cup {NONE}] /\ pc' \in [Procs -> Pcs]
  BY <1>0, <1>1 DEF Types, Pcs
<1>3. /\ in_flight[c] = t /\ publishing[c] = NONE
      /\ b \in SUBSET Tasks /\ b # {} /\ completions[c] \subseteq b
      /\ \A u \in completions[c] : carrier[u] = c /\ pc[u] = "gone" /\ home[u] = s
  BY <1>0 DEF Carrying, Types
<1>4. \A u \in b : carrier[u] = c /\ home[u] = s /\ status[u] \in Terminal
  BY <1>0, <1>3, GoneTerminal
<1>5. Joins'
  BY <1>0, <1>1, <1>2, JoinFrame DEF Procs
<1>6. StatusPlace'
  BY <1>0, <1>1, <1>2 DEF StatusPlace, Procs, Terminal
<1>7. \A u \in Tasks : pc'[u] \in {"drain", "retire"} => carrier[u] # c /\ in_flight'[carrier[u]] = u
  <2> SUFFICES ASSUME NEW u \in Tasks, pc'[u] \in {"drain", "retire"}
               PROVE  carrier[u] # c /\ in_flight'[carrier[u]] = u
    OBVIOUS
  <2>1. u # t /\ pc[u] \in {"drain", "retire"}
    BY <1>2 DEF Procs
  <2>2. in_flight[carrier[u]] = u
    BY <2>1, <1>0 DEF Carrying
  <2>3. carrier[u] # c
    BY <2>1, <2>2, <1>3
  <2> QED
    BY <2>2, <2>3, <1>0, <1>1 DEF Types
<1>8. CASE retire(c, b)
  <2>1. /\ Settled'
        /\ scope' \in [Owners -> ScopeRec] /\ publishing' \in [Carriers -> Batch \cup {NONE}]
        /\ completions' = [completions EXCEPT ![c] = {}]
        /\ \A d \in Carriers : d # c => publishing'[d] = publishing[d]
    <3>1. \A u \in b : pc[u] = "retire" \/ u \in completions[c]
      BY <1>0
    <3>2. /\ \A p \in Owners : pc'[p] = pc[p]
          /\ \A p \in Tasks : pc'[p] = "push" <=> pc[p] = "push"
          /\ \A p \in Tasks : pc'[p] = "gone" <=> (pc[p] = "gone" \/ p \in b)
      BY <1>0, <1>2, <1>3 DEF Procs
    <3> QED
      BY <1>1, <1>3, <1>4, <1>8, <3>1, <3>2, BatchRetired
  <2>2. Types'
    <3>1. completions' \in [Carriers -> SUBSET Tasks]
      BY <2>1, <1>0 DEF Types
    <3> QED
      BY <2>1, <3>1, <1>0, <1>1, <1>2 DEF Types
  <2>3. \A d \in Carriers : completions'[d] = IF d = c THEN {} ELSE completions[d]
    BY <2>1, <1>0 DEF Types
  <2>4. Carrying'
    <3>1. \A d \in Carriers : completions[d] \subseteq Tasks
      BY <1>0 DEF Types
    <3> QED
      BY <1>0, <1>1, <1>2, <1>7, <2>1, <2>3, <3>1 DEF Carrying, Procs
  <2> QED
    BY <1>5, <1>6, <2>1, <2>2, <2>4 DEF Inv
<1>9. CASE ~retire(c, b)
  <2>1. /\ completions' = [completions EXCEPT ![c] = b] /\ status[t] # "aborted"
        /\ UNCHANGED <<scope, publishing>>
    BY <1>9 DEF queue_completion, Batched
  <2>2. \A d \in Carriers : completions'[d] = IF d = c THEN b ELSE completions[d]
    BY <2>1, <1>0 DEF Types
  <2>3. aborting[c] = NONE
    BY <2>1, <1>0, <1>3 DEF Carrying
  <2>4. Settled'
    <3>1. \A u \in Tasks : (pc'[u] = "gone" /\ \A d \in Carriers : u \notin completions'[d])
                           <=> (pc[u] = "gone" /\ \A d \in Carriers : u \notin completions[d])
      <4> SUFFICES ASSUME NEW u \in Tasks
                   PROVE  (pc'[u] = "gone" /\ \A d \in Carriers : u \notin completions'[d])
                          <=> (pc[u] = "gone" /\ \A d \in Carriers : u \notin completions[d])
        OBVIOUS
      <4>1. CASE u = t
        BY <4>1, <1>0, <2>2
      <4>2. CASE u # t
        <5>1. \A d \in Carriers : u \in completions'[d] <=> u \in completions[d]
          BY <4>2, <2>2
        <5> QED
          BY <4>2, <5>1, <1>2 DEF Procs
      <4> QED
        BY <4>1, <4>2
    <3>2. /\ \A p \in Owners : pc'[p] = pc[p]
          /\ \A p \in Tasks : pc'[p] = "push" <=> pc[p] = "push"
      BY <1>0, <1>2 DEF Procs
    <3> QED
      BY <1>0, <1>1, <2>1, <3>1, <3>2, SettledFrame, GoneTerminal
  <2>5. Types'
    <3>1. completions' \in [Carriers -> SUBSET Tasks]
      BY <1>0, <1>3, <2>1 DEF Types
    <3> QED
      BY <3>1, <1>0, <1>1, <1>2, <2>1 DEF Types
  <2>6. Carrying'
    <3>1. \A d \in Carriers : completions[d] \subseteq Tasks
      BY <1>0 DEF Types
    <3>2. \A u \in b : carrier[u] = c /\ pc'[u] = "gone" /\ home[u] = s
      BY <1>2, <1>3, <1>4 DEF Procs
    <3> QED
      BY <1>0, <1>1, <1>2, <1>7, <2>1, <2>2, <2>3, <3>1, <3>2 DEF Carrying, Procs
  <2> QED
    BY <1>5, <1>6, <2>4, <2>5, <2>6 DEF Inv
<1> QED
  BY <1>8, <1>9

\* A batch is retired before another scope's task runs.
LEMMA FlushCompletions ==
  ASSUME Inv, NEW c \in Carriers, flush_completions(c)
  PROVE  Inv'
<1>0. /\ Types /\ StatusPlace /\ Carrying /\ Settled /\ Joins
      /\ in_flight[c] = NONE /\ publishing[c] = NONE /\ aborting[c] = NONE
      /\ completions[c] # {} /\ completions[c] \subseteq Tasks
  BY Parts DEF flush_completions, Idle, Types
<1>1. /\ retire(c, completions[c])
      /\ UNCHANGED <<config, status, home, carrier, observed, next_task, record_count, loads, in_flight,
                     registered, waiters, obj, pc, aborting, retired_tasks, report>>
  BY DEF flush_completions, recVars, admVars, joinVars
<1>2. \A u \in completions[c] : /\ carrier[u] = c /\ pc[u] = "gone" /\ status[u] \in Terminal
                               /\ home[u] \in Owners
  <2>1. \A u \in completions[c] : carrier[u] = c /\ pc[u] = "gone" /\ status[u] \in Terminal
    BY <1>0, GoneTerminal DEF Carrying
  <2> QED
    BY <2>1, <1>0, Placed DEF Terminal
<1>3. PICK s \in Owners : \A u \in completions[c] : home[u] = s
  BY <1>0, <1>2 DEF Carrying
<1>4. /\ Settled'
      /\ scope' \in [Owners -> ScopeRec] /\ publishing' \in [Carriers -> Batch \cup {NONE}]
      /\ completions' = [completions EXCEPT ![c] = {}]
      /\ \A d \in Carriers : d # c => publishing'[d] = publishing[d]
  <2> SUFFICES ASSUME NEW b \in SUBSET Tasks, b = completions[c]
               PROVE  /\ Settled'
                      /\ scope' \in [Owners -> ScopeRec]
                      /\ publishing' \in [Carriers -> Batch \cup {NONE}]
                      /\ completions' = [completions EXCEPT ![c] = {}]
                      /\ \A d \in Carriers : d # c => publishing'[d] = publishing[d]
    BY <1>0
  <2> QED
    BY <1>0, <1>1, <1>2, <1>3, BatchRetired
<1>5. \A d \in Carriers : completions'[d] = IF d = c THEN {} ELSE completions[d]
  BY <1>4, <1>0 DEF Types
<1>6. Types'
  <2>1. completions' \in [Carriers -> SUBSET Tasks]
    BY <1>4, <1>0 DEF Types
  <2> QED
    BY <2>1, <1>0, <1>1, <1>4 DEF Types
<1>7. StatusPlace' /\ Joins'
  BY <1>0, <1>1, JoinFrame DEF StatusPlace
<1>8. Carrying'
  BY <1>0, <1>1, <1>4, <1>5 DEF Carrying
<1> QED
  BY <1>4, <1>6, <1>7, <1>8 DEF Inv

-----------------------------------------------------------------------------
(* Admission *)

\* The cursor stays within the carriers.
LEMMA Turns == \A a \in Nat, n \in Nat \ {0} : a % n \in Nat /\ a % n < n
OBVIOUS

\* The probe brings one carrier's retirements into the cached loads.
LEMMA ProbeKeeps ==
  ASSUME Types, CarriersCounted
  PROVE  /\ Probed \in Loads /\ Probed.assigned = loads.assigned
         /\ \A c \in Carriers : Probed.observed[c] <= retired_tasks[c]
         /\ carriers \subseteq Carriers /\ config.carriers \in Nat \ {0} /\ config.tasks \in Tasks
<1>1. config.carriers \in 1..MaxCarriers /\ config.tasks \in Tasks
  BY ScopeAssumption DEF Types
<1>2. carriers \subseteq Carriers /\ config.carriers \in Nat \ {0}
  BY <1>1, ScopeAssumption DEF carriers, Carriers
<1>3. /\ loads.assigned \in [Carriers -> Nat] /\ loads.observed \in [Carriers -> Nat]
      /\ loads.probe \in Carriers /\ loads.probe \in Nat /\ loads.cursor \in Nat
      /\ retired_tasks \in [Carriers -> Nat]
  BY DEF Types, Loads, Carriers
<1>4. (loads.probe + 1) % config.carriers \in Carriers
  <2>1. /\ (loads.probe + 1) % config.carriers \in Nat
        /\ (loads.probe + 1) % config.carriers < config.carriers
    BY <1>2, <1>3, Turns
  <2> QED
    BY <2>1, <1>1, ScopeAssumption DEF Carriers
<1> SUFFICES ASSUME NEW turn \in Carriers, turn = (loads.probe + 1) % config.carriers
             PROVE  /\ Probed \in Loads /\ Probed.assigned = loads.assigned
                    /\ \A c \in Carriers : Probed.observed[c] <= retired_tasks[c]
  BY <1>1, <1>2, <1>4
<1>5. Probed = [loads EXCEPT !.observed = [loads.observed EXCEPT ![loads.probe] = retired_tasks[loads.probe]],
                             !.probe = turn]
  BY DEF Probed, Types, Loads
<1>8. retired_tasks[loads.probe] \in Nat
  BY <1>3
<1>9. [loads.observed EXCEPT ![loads.probe] = retired_tasks[loads.probe]] \in [Carriers -> Nat]
  BY <1>3, <1>8
<1> SUFFICES ASSUME NEW seen \in [Carriers -> Nat],
                    seen = [loads.observed EXCEPT ![loads.probe] = retired_tasks[loads.probe]]
             PROVE  /\ Probed \in Loads /\ Probed.assigned = loads.assigned
                    /\ \A c \in Carriers : Probed.observed[c] <= retired_tasks[c]
  BY <1>9
<1>6. Probed \in Loads /\ Probed.assigned = loads.assigned /\ Probed.observed = seen
  BY <1>5 DEF Types, Loads
<1>7. \A c \in Carriers : seen[c] <= retired_tasks[c]
  <2>1. \A c \in Carriers : seen[c] = IF c = loads.probe THEN retired_tasks[c] ELSE loads.observed[c]
    BY <1>3
  <2> QED
    BY <2>1, <1>3 DEF CarriersCounted
<1> QED
  BY <1>6, <1>7

\* A scope begins with nothing admitted.
LEMMA BeginOwned ==
  ASSUME Inv, NEW o \in Owners, begin_owned(o)
  PROVE  Inv'
<1>0. /\ Types /\ Fresh /\ Pushers /\ Carrying /\ RecordsKept /\ Closed /\ RecordsCounted
      /\ ScopesCounted /\ CarriersCounted /\ ScopeDrained /\ FailedKept /\ FailuresReported
      /\ StatusPlace /\ Joins /\ o \in Procs /\ o \notin Tasks /\ pc[o] = "out"
  BY Parts, Kinds DEF begin_owned, Goto, Procs
<1>1. /\ pc' = [pc EXCEPT ![o] = "body"]
      /\ UNCHANGED <<config, status, home, carrier, observed, next_task, record_count, loads, in_flight,
                     completions, publishing, aborting, retired_tasks, registered, waiters, obj, report>>
  BY DEF begin_owned, Goto, recVars, joinVars, kernelVars
<1>2. (o \in Supervisors) \in BOOLEAN
  <2>1. CASE o \in Supervisors
    <3>1. (o \in Supervisors) = TRUE
      BY <2>1
    <3> QED
      BY <3>1, Zenon
  <2>2. CASE o \notin Supervisors
    <3>1. (o \in Supervisors) = FALSE
      BY <2>2
    <3> QED
      BY <3>1, Zenon
  <2> QED
    BY <2>1, <2>2
<1> SUFFICES ASSUME NEW owned \in BOOLEAN, owned = (o \in Supervisors)
             PROVE  Inv'
  BY <1>2
<1> SUFFICES ASSUME NEW r, r = [NoScope EXCEPT !.open = TRUE, !.admitting = TRUE, !.supervised = owned]
             PROVE  Inv'
  OBVIOUS
<1>20. /\ r \in ScopeRec /\ r.records = {} /\ r.failed = {} /\ r.admitted = 0 /\ r.retired = 0
  BY DEF NoScope, ScopeRec
<1>3. scope' = [scope EXCEPT ![o] = r]
  BY DEF begin_owned
<1>4. /\ \A s \in Owners : scope'[s] = IF s = o THEN r ELSE scope[s]
      /\ scope' \in [Owners -> ScopeRec]
      /\ \A q \in Procs : pc'[q] = IF q = o THEN "body" ELSE pc[q]
      /\ pc' \in [Procs -> Pcs]
  BY <1>0, <1>1, <1>20, <1>3 DEF Types, Pcs
<1>5. \A t \in Tasks : pc'[t] = pc[t]
  BY <1>0, <1>4 DEF Procs
<1>6. /\ \A s \in Owners : OfScope(s)' = OfScope(s)
      /\ \A s \in Owners : Retired(OfScope(s))' = Retired(OfScope(s))
      /\ \A c \in Carriers : Mine(c)' = Mine(c)
      /\ \A c \in Carriers : Retired(Mine(c))' = Retired(Mine(c))
  BY <1>1, <1>5, SameSets
<1>7. OfScope(o) = {} /\ Retired(OfScope(o)) = {} /\ scope[o].records = {}
  <2>1. OfScope(o) = {}
    BY <1>0 DEF OfScope, Fresh
  <2> QED
    BY <2>1, <1>0 DEF Retired, RecordsCounted
<1>8. Types'
  BY <1>0, <1>1, <1>4 DEF Types
<1>9. StatusPlace' /\ Carrying' /\ Joins'
  <2>1. StatusPlace'
    BY <1>0, <1>1, <1>5 DEF StatusPlace
  <2>2. Carrying'
    BY <1>0, <1>1, <1>5 DEF Carrying, Types
  <2>3. Joins'
    BY <1>0, <1>1, <1>5, JoinFrame
  <2> QED
    BY <2>1, <2>2, <2>3
<1>10. Fresh' /\ Closed' /\ Pushers'
  <2>1. Fresh'
    BY <1>0, <1>1, <1>4 DEF Fresh, Procs
  <2>2. Closed'
    BY <1>0, <1>1, <1>4 DEF Closed, Procs
  <2>3. \A p \in Procs : pc'[p] = "push" => pc[p] = "push"
    BY <1>4
  <2>4. Pushers'
    BY <2>3, <1>0, <1>1 DEF Pushers
  <2> QED
    BY <2>1, <2>2, <2>4
<1>11. RecordsCounted'
  <2>1. \A s \in Owners : scope'[s].records = scope[s].records
    BY <1>20, <1>4, <1>7
  <2>2. AllRecords' = AllRecords
    BY <2>1 DEF AllRecords
  <2> QED
    BY <2>1, <2>2, <1>0, <1>1, <1>6 DEF RecordsCounted
<1>12. ScopesCounted' /\ CarriersCounted'
  <2>1. Cardinality({}) = 0
    BY FS_EmptySet
  <2>2. ScopesCounted'
    BY <2>1, <1>0, <1>20, <1>4, <1>6, <1>7 DEF ScopesCounted
  <2>3. CarriersCounted'
    BY <1>0, <1>1, <1>6 DEF CarriersCounted, Late
  <2> QED
    BY <2>2, <2>3
<1>13. RecordsKept'
  <2>1. \A s \in Owners : s # o => pc'[s] = pc[s] /\ scope'[s] = scope[s]
    BY <1>4 DEF Procs
  <2> QED
    BY <2>1, <1>0, <1>1, <1>6, <1>7 DEF RecordsKept
<1>14. ScopeDrained' /\ FailedKept' /\ FailuresReported'
  <2>1. \A s \in Owners : s # o => pc'[s] = pc[s] /\ scope'[s] = scope[s]
    BY <1>4 DEF Procs
  <2>2. ScopeDrained'
    BY <2>1, <1>0, <1>6, <1>7 DEF ScopeDrained
  <2>3. FailedKept'
    BY <2>1, <1>0, <1>1, <1>6, <1>7 DEF FailedKept
  <2>4. FailuresReported'
    BY <2>1, <1>0, <1>1, <1>6, <1>7 DEF FailuresReported
  <2> QED
    BY <2>2, <2>3, <2>4
<1> QED
  BY <1>8, <1>9, <1>10, <1>11, <1>12, <1>13, <1>14 DEF Inv, Settled

\* What a root scope reports holds every failure that no handle took: it was
\* retired before the owner saw the scope drained, and is still a record.
LEMMA Reported ==
  ASSUME Inv, NEW o \in Owners, unobserved(o)
  PROVE  Inv'
<1>0. /\ Types /\ Fresh /\ Pushers /\ Carrying /\ RecordsKept /\ Closed /\ RecordsCounted
      /\ ScopesCounted /\ CarriersCounted /\ ScopeDrained /\ FailedKept /\ FailuresReported
      /\ StatusPlace /\ Joins /\ o \in Procs /\ o \notin Tasks /\ pc[o] = "drained"
  BY Parts, Kinds DEF unobserved, Goto, Procs
<1> DEFINE lost == (scope[o].failed \cap scope[o].records) \ observed
<1>1. /\ pc' = [pc EXCEPT ![o] = "reported"]
      /\ report' = [report EXCEPT ![o] = IF o \in Supervisors THEN {} ELSE lost]
      /\ UNCHANGED <<config, scope, status, home, carrier, observed, next_task, record_count, loads, in_flight,
                     completions, publishing, aborting, retired_tasks, registered, waiters, obj>>
  BY DEF unobserved, Goto, recVars, admVars, joinVars, kernelVars
<1>2. /\ \A q \in Procs : pc'[q] = IF q = o THEN "reported" ELSE pc[q]
      /\ pc' \in [Procs -> Pcs]
      /\ lost \in SUBSET Tasks /\ report' \in [Owners -> SUBSET Tasks]
      /\ \A s \in Owners : s # o => report'[s] = report[s]
      /\ o \notin Supervisors => report'[o] = lost
  BY <1>0, <1>1, ScopeTypes DEF Types, Pcs
<1>3. /\ \A t \in Tasks : pc'[t] = pc[t]
      /\ \A s \in Owners : s # o => pc'[s] = pc[s]
      /\ pc'[o] = "reported"
  BY <1>0, <1>2 DEF Procs
<1>4. /\ \A s \in Owners : OfScope(s)' = OfScope(s)
      /\ \A s \in Owners : Retired(OfScope(s))' = Retired(OfScope(s))
      /\ \A c \in Carriers : Mine(c)' = Mine(c)
      /\ \A c \in Carriers : Retired(Mine(c))' = Retired(Mine(c))
  BY <1>1, <1>3, SameSets
<1>5. Types' /\ StatusPlace' /\ Carrying' /\ Joins'
  <2>1. Types'
    BY <1>0, <1>1, <1>2 DEF Types
  <2>2. StatusPlace' /\ Carrying'
    BY <1>0, <1>1, <1>3 DEF StatusPlace, Carrying, Types
  <2>3. Joins'
    BY <1>0, <1>1, <1>3, JoinFrame
  <2> QED
    BY <2>1, <2>2, <2>3
<1>6. Fresh' /\ Closed' /\ Pushers'
  <2>1. Fresh'
    BY <1>0, <1>1, <1>3 DEF Fresh
  <2>2. Closed'
    BY <1>0, <1>1, <1>3 DEF Closed
  <2>3. \A p \in Procs : pc'[p] = "push" => pc[p] = "push"
    BY <1>2
  <2>4. Pushers'
    BY <2>3, <1>0, <1>1 DEF Pushers
  <2> QED
    BY <2>1, <2>2, <2>4
<1>7. RecordsCounted' /\ ScopesCounted' /\ CarriersCounted'
  <2>1. AllRecords' = AllRecords
    BY <1>1 DEF AllRecords
  <2> QED
    BY <2>1, <1>0, <1>1, <1>4 DEF RecordsCounted, ScopesCounted, CarriersCounted, Late
<1>8. RecordsKept' /\ ScopeDrained' /\ FailedKept'
  <2>1. RecordsKept'
    BY <1>0, <1>1, <1>3, <1>4 DEF RecordsKept
  <2>2. ScopeDrained'
    BY <1>0, <1>3, <1>4 DEF ScopeDrained
  <2>3. FailedKept'
    BY <1>0, <1>1, <1>3, <1>4 DEF FailedKept
  <2> QED
    BY <2>1, <2>2, <2>3
<1>9. FailuresReported'
  <2> SUFFICES ASSUME NEW s \in Owners \ Supervisors, pc'[s] \in {"reported", "end"}, NEW t \in OfScope(s),
                      status[t] \in Failed, t \notin observed
               PROVE  t \in report'[s]
    BY <1>1, <1>4 DEF FailuresReported
  <2>1. CASE s # o
    BY <2>1, <1>0, <1>2, <1>3 DEF FailuresReported
  <2>2. CASE s = o
    <3>1. t \in Retired(OfScope(o))
      BY <2>2, <1>0 DEF ScopeDrained
    <3>2. t \in scope[o].failed
      BY <3>1, <1>0 DEF FailedKept
    <3>3. t \in scope[o].records
      BY <2>2, <1>0 DEF RecordsKept
    <3> QED
      BY <2>2, <3>2, <3>3, <1>2
  <2> QED
    BY <2>1, <2>2
<1> QED
  BY <1>5, <1>6, <1>7, <1>8, <1>9 DEF Inv, Settled

\* The scope's end gives its records up.
LEMMA FinishScope ==
  ASSUME Inv, NEW o \in Owners, finish_scope(o)
  PROVE  Inv'
<1>0. /\ Types /\ Fresh /\ Pushers /\ Carrying /\ RecordsKept /\ Closed /\ RecordsCounted
      /\ ScopesCounted /\ CarriersCounted /\ ScopeDrained /\ FailedKept /\ FailuresReported
      /\ StatusPlace /\ Joins /\ o \in Procs /\ o \notin Tasks /\ pc[o] = "reported"
  BY Parts, Kinds DEF finish_scope, Goto, Procs
<1>1. /\ pc' = [pc EXCEPT ![o] = "end"]
      /\ record_count' = record_count - Cardinality(scope[o].records)
      /\ scope' = [scope EXCEPT ![o].open = FALSE, ![o].records = {}]
      /\ UNCHANGED <<config, status, home, carrier, observed, next_task, loads, in_flight,
                     completions, publishing, aborting, retired_tasks, registered, waiters, obj,
                     report>>
  BY DEF finish_scope, Goto, recVars, joinVars
<1> SUFFICES ASSUME NEW r, r = [scope[o] EXCEPT !.open = FALSE, !.records = {}]
             PROVE  Inv'
  OBVIOUS
<1>2. /\ r \in ScopeRec /\ r.records = {} /\ r.failed = scope[o].failed /\ ~r.open
      /\ r.admitted = scope[o].admitted /\ r.retired = scope[o].retired
      /\ r.admitting = scope[o].admitting
  <2>1. ASSUME NEW x \in ScopeRec
        PROVE  LET y == [x EXCEPT !.open = FALSE, !.records = {}]
               IN /\ y \in ScopeRec /\ y.records = {} /\ y.failed = x.failed /\ ~y.open
                  /\ y.admitted = x.admitted /\ y.retired = x.retired /\ y.admitting = x.admitting
    BY DEF ScopeRec
  <2>2. scope[o] \in ScopeRec
    BY <1>0 DEF Types
  <2> QED
    BY <2>1, <2>2
<1>3. scope' = [scope EXCEPT ![o] = r]
  BY <1>0, <1>1 DEF Types
<1>4. /\ \A s \in Owners : scope'[s] = IF s = o THEN r ELSE scope[s]
      /\ scope' \in [Owners -> ScopeRec]
      /\ \A q \in Procs : pc'[q] = IF q = o THEN "end" ELSE pc[q]
      /\ pc' \in [Procs -> Pcs]
  BY <1>0, <1>1, <1>2, <1>3 DEF Types, Pcs
<1>5. \A t \in Tasks : pc'[t] = pc[t]
  BY <1>0, <1>4 DEF Procs
<1>6. /\ \A s \in Owners : OfScope(s)' = OfScope(s)
      /\ \A s \in Owners : Retired(OfScope(s))' = Retired(OfScope(s))
      /\ \A c \in Carriers : Mine(c)' = Mine(c)
      /\ \A c \in Carriers : Retired(Mine(c))' = Retired(Mine(c))
  BY <1>1, <1>5, SameSets
<1>8. AllRecords' = AllRecords \ scope[o].records /\ scope[o].records \subseteq AllRecords
      /\ AllRecords \in SUBSET Tasks
  <2>1. \A s \in Owners : scope'[s].records = IF s = o THEN {} ELSE scope[s].records
    BY <1>2, <1>4
  <2>2. \A s \in Owners : s # o => scope[s].records \cap scope[o].records = {}
    BY <1>0 DEF RecordsCounted, OfScope
  <2>3. AllRecords \in SUBSET Tasks
    BY <1>0, ScopeTypes DEF AllRecords
  <2> QED
    BY <2>1, <2>2, <2>3 DEF AllRecords
<1>9. record_count' = Cardinality(AllRecords') /\ record_count' \in Nat
  <2>1. scope[o].records \in SUBSET Tasks /\ (AllRecords \ scope[o].records) \in SUBSET Tasks
    BY <1>8
  <2>2. AllRecords \cap scope[o].records = scope[o].records
    BY <1>8
  <2>3. Cardinality(AllRecords \ scope[o].records) = Cardinality(AllRecords) - Cardinality(AllRecords \cap scope[o].records)
    BY <1>8, Kinds, FS_Difference
  <2>4. Cardinality(AllRecords \ scope[o].records) \in Nat
    BY <2>1, Kinds
  <2> QED
    BY <2>2, <2>3, <2>4, <1>0, <1>1, <1>8 DEF RecordsCounted
<1>10. Types'
  BY <1>0, <1>1, <1>4, <1>8, <1>9 DEF Types
<1>11. StatusPlace' /\ Carrying' /\ Joins'
  <2>1. StatusPlace'
    BY <1>0, <1>1, <1>5 DEF StatusPlace
  <2>2. Carrying'
    BY <1>0, <1>1, <1>5 DEF Carrying, Types
  <2>3. Joins'
    BY <1>0, <1>1, <1>5, JoinFrame
  <2> QED
    BY <2>1, <2>2, <2>3
<1>12. Fresh' /\ Closed' /\ Pushers'
  <2>1. Fresh'
    BY <1>0, <1>1, <1>4 DEF Fresh, Procs
  <2>2. Closed'
    <3>1. \A s \in Owners : scope'[s].admitting = scope[s].admitting
      BY <1>2, <1>4
    <3>2. \A s \in Owners : s # o => pc'[s] = pc[s]
      BY <1>4 DEF Procs
    <3> QED
      BY <3>1, <3>2, <1>0, <1>1 DEF Closed
  <2>3. \A p \in Procs : pc'[p] = "push" => pc[p] = "push"
    BY <1>4
  <2>4. Pushers'
    BY <2>3, <1>0, <1>1 DEF Pushers
  <2> QED
    BY <2>1, <2>2, <2>4
<1>13. RecordsCounted'
  <2>1. \A s \in Owners : scope'[s].records \subseteq scope[s].records
    BY <1>2, <1>4
  <2> QED
    BY <2>1, <1>0, <1>6, <1>9 DEF RecordsCounted
<1>14. ScopesCounted' /\ CarriersCounted'
  <2>1. \A s \in Owners : scope'[s].admitted = scope[s].admitted /\ scope'[s].retired = scope[s].retired
    BY <1>2, <1>4
  <2>2. ScopesCounted'
    BY <2>1, <1>0, <1>6 DEF ScopesCounted
  <2>3. CarriersCounted'
    BY <1>0, <1>1, <1>6 DEF CarriersCounted, Late
  <2> QED
    BY <2>2, <2>3
<1>15. /\ \A s \in Owners : s # o => pc'[s] = pc[s] /\ scope'[s] = scope[s]
       /\ pc'[o] = "end"
  BY <1>0, <1>4 DEF Procs
<1>16. RecordsKept'
  BY <1>0, <1>1, <1>6, <1>15 DEF RecordsKept
<1>17. ScopeDrained' /\ FailedKept'
  <2>1. ScopeDrained'
    BY <1>0, <1>6, <1>15 DEF ScopeDrained
  <2>2. FailedKept'
    BY <1>0, <1>1, <1>6, <1>15 DEF FailedKept
  <2> QED
    BY <2>1, <2>2
<1>18. FailuresReported'
  <2>1. \A s \in Owners : pc'[s] \in {"reported", "end"} => pc[s] \in {"reported", "end"}
    BY <1>0, <1>15
  <2> QED
    BY <2>1, <1>0, <1>1, <1>6 DEF FailuresReported
<1> QED
  BY <1>10, <1>11, <1>12, <1>13, <1>14, <1>16, <1>17, <1>18 DEF Inv, Settled

\* The packet of a reservation reaches its carrier's queue ...
LEMMA PushAccepted ==
  ASSUME Inv, NEW p \in Procs, push(p),
         NEW st \in {"queued", "start"}, status' = [status EXCEPT ![obj[p]] = st],
         UNCHANGED <<scope, record_count, loads>>
  PROVE  Inv'
<1>0. /\ Types /\ Fresh /\ Pushers /\ Carrying /\ RecordsKept /\ Closed /\ RecordsCounted
      /\ ScopesCounted /\ CarriersCounted /\ ScopeDrained /\ FailedKept /\ FailuresReported
      /\ StatusPlace /\ Joins /\ pc[p] = "push"
  BY Parts DEF push, Goto
<1> SUFFICES ASSUME NEW t \in Tasks, t = obj[p]
             PROVE  Inv'
  BY <1>0 DEF Pushers
<1>1. /\ obj' = [obj EXCEPT ![p] = NONE] /\ status' = [status EXCEPT ![t] = st]
      /\ UNCHANGED <<config, home, carrier, observed, next_task, in_flight, registered, waiters,
                     completions, publishing, aborting, retired_tasks, report>>
  BY DEF push, joinVars, kernelVars
<1>2. PICK to \in {"body", "run"} : /\ pc' = [pc EXCEPT ![p] = to]
                                    /\ p \in Owners => to = "body"
                                    /\ p \in Tasks => to = "run"
  BY Kinds DEF push, Goto
<1>3. /\ \A q \in Procs : pc'[q] = IF q = p THEN to ELSE pc[q]
      /\ \A q \in Procs : obj'[q] = IF q = p THEN NONE ELSE obj[q]
      /\ \A u \in Tasks : status'[u] = IF u = t THEN st ELSE status[u]
      /\ status[t] = "reserved" /\ pc[t] = "run"
  BY <1>0, <1>1, <1>2 DEF Types, Pushers, StatusPlace
<1>4. /\ \A u \in Tasks : u \in Procs
      /\ \A o \in Owners : o \in Procs
  BY DEF Procs
<1>5. /\ \A s \in Owners : OfScope(s)' = OfScope(s)
      /\ \A s \in Owners : Retired(OfScope(s))' = Retired(OfScope(s))
      /\ \A c \in Carriers : Mine(c)' = Mine(c)
      /\ \A c \in Carriers : Retired(Mine(c))' = Retired(Mine(c))
  <2>1. \A u \in Tasks : pc'[u] = "gone" <=> pc[u] = "gone"
    BY <1>0, <1>3, <1>4
  <2> QED
    BY <2>1, <1>1, <1>3, SameSets
<1>6. Types'
  <2>1. /\ pc' \in [Procs -> Pcs] /\ obj' \in [Procs -> Tasks \cup {NONE}]
        /\ status' \in [Tasks -> Statuses]
    BY <1>0, <1>1, <1>2 DEF Types, Pcs, Statuses
  <2> QED
    BY <2>1, <1>0, <1>1 DEF Types
<1>7. StatusPlace' /\ Carrying' /\ Joins'
  <2>1. StatusPlace'
    BY <1>0, <1>2, <1>3, <1>4 DEF StatusPlace, Terminal
  <2>2. \A c \in Carriers : completions[c] \subseteq Tasks
    BY <1>0 DEF Types
  <2>3. \A c \in Carriers : in_flight[c] # NONE => in_flight[c] \in Tasks
    BY <1>0 DEF Types
  <2>4. Carrying'
    BY <1>0, <1>1, <1>2, <1>3, <1>4, <2>2, <2>3 DEF Carrying
  <2>5. Joins'
    BY <1>0, <1>1, <1>2, <1>3, <1>4, JoinFrame
  <2> QED
    BY <2>1, <2>4, <2>5
<1>8. Fresh' /\ Closed' /\ Pushers'
  <2>1. Fresh'
    BY <1>0, <1>1, <1>2, <1>3, <1>4 DEF Fresh
  <2>2. Closed'
    BY <1>0, <1>2, <1>3, <1>4, Kinds DEF Closed
  <2>3. \A q \in Procs : pc'[q] = "push" => q # p /\ pc[q] = "push" /\ obj'[q] = obj[q] /\ obj[q] # t
    BY <1>0, <1>2, <1>3 DEF Pushers
  <2>4. Pushers'
    BY <2>3, <1>0, <1>3 DEF Pushers
  <2> QED
    BY <2>1, <2>2, <2>4
<1>9. RecordsCounted' /\ ScopesCounted' /\ CarriersCounted'
  <2>1. AllRecords' = AllRecords
    BY DEF AllRecords
  <2> QED
    BY <2>1, <1>0, <1>1, <1>5 DEF RecordsCounted, ScopesCounted, CarriersCounted, Late
<1>10. /\ \A o \in Owners : pc'[o] \in {"drained", "reported", "end"} <=> pc[o] \in {"drained", "reported", "end"}
       /\ \A o \in Owners : pc'[o] \in {"reported", "end"} <=> pc[o] \in {"reported", "end"}
       /\ \A o \in Owners : pc'[o] = "end" <=> pc[o] = "end"
  BY <1>0, <1>2, <1>3, <1>4
<1>11. RecordsKept'
  BY <1>0, <1>1, <1>3, <1>5, <1>10 DEF RecordsKept, OfScope, Terminal
<1>12. ScopeDrained'
  BY <1>0, <1>5, <1>10 DEF ScopeDrained
<1>13. FailedKept' /\ FailuresReported'
  <2>1. \A u \in Tasks : status'[u] \in Failed => status'[u] = status[u]
    BY <1>3 DEF Failed
  <2>2. \A o \in Owners : OfScope(o) \subseteq Tasks /\ Retired(OfScope(o)) \subseteq Tasks
    BY DEF OfScope, Retired
  <2>3. FailedKept'
    BY <2>1, <2>2, <1>0, <1>1, <1>5, <1>10 DEF FailedKept
  <2>4. FailuresReported'
    BY <2>1, <2>2, <1>0, <1>1, <1>5, <1>10 DEF FailuresReported
  <2> QED
    BY <2>3, <2>4
<1> QED
  BY <1>6, <1>7, <1>8, <1>9, <1>11, <1>12, <1>13 DEF Inv, Settled

\* A scope whose records and credit alone changed.
LEMMA Credited ==
  ASSUME Types, NEW s \in Owners, NEW left \in Nat, NEW kept \in SUBSET Tasks,
         scope' = [scope EXCEPT ![s] = [scope[s] EXCEPT !.records = kept, !.admitted = left]]
  PROVE  /\ scope' \in [Owners -> ScopeRec]
         /\ \A o \in Owners : /\ scope'[o].retired = scope[o].retired
                              /\ scope'[o].failed = scope[o].failed
                              /\ scope'[o].open = scope[o].open
                              /\ scope'[o].admitting = scope[o].admitting
                              /\ o # s => scope'[o] = scope[o]
         /\ scope'[s].records = kept
         /\ scope'[s].admitted = left
<1> DEFINE r == [scope[s] EXCEPT !.records = kept, !.admitted = left]
<1>1. scope[s] \in ScopeRec
  BY DEF Types
<1>2. ASSUME NEW x \in ScopeRec
      PROVE  LET y == [x EXCEPT !.records = kept, !.admitted = left]
             IN /\ y \in ScopeRec /\ y.records = kept /\ y.admitted = left
                /\ y.retired = x.retired /\ y.failed = x.failed /\ y.open = x.open
                /\ y.admitting = x.admitting
  BY DEF ScopeRec
<1>3. /\ r \in ScopeRec /\ r.records = kept /\ r.admitted = left
      /\ r.retired = scope[s].retired /\ r.failed = scope[s].failed /\ r.open = scope[s].open
      /\ r.admitting = scope[s].admitting
  BY <1>1, <1>2
<1>4. scope' = [scope EXCEPT ![s] = r]
  OBVIOUS
<1> HIDE DEF r
<1>5. \A o \in Owners : scope'[o] = IF o = s THEN r ELSE scope[o]
  BY <1>4 DEF Types
<1>6. scope' \in [Owners -> ScopeRec]
  BY <1>3, <1>4 DEF Types
<1> QED
  BY <1>3, <1>5, <1>6

\* ... or the reservation is undone, counters and all.
LEMMA PushReleased ==
  ASSUME Inv, NEW p \in Procs, push(p), release_reservation(obj[p])
  PROVE  Inv'
<1>0. /\ Types /\ Fresh /\ Pushers /\ Carrying /\ RecordsKept /\ Closed /\ RecordsCounted
      /\ ScopesCounted /\ CarriersCounted /\ ScopeDrained /\ FailedKept /\ FailuresReported
      /\ StatusPlace /\ Joins /\ pc[p] = "push"
  BY Parts DEF push, Goto
<1> SUFFICES ASSUME NEW t \in Tasks, t = obj[p]
             PROVE  Inv'
  BY <1>0 DEF Pushers
<1>1. status[t] = "reserved" /\ pc[t] = "run" /\ home[t] \in Owners /\ carrier[t] \in Carriers
  BY <1>0 DEF Pushers, StatusPlace, Fresh
<1> SUFFICES ASSUME NEW s \in Owners, s = home[t], NEW c \in Carriers, c = carrier[t]
             PROVE  Inv'
  BY <1>1
<1>2. /\ obj' = [obj EXCEPT ![p] = NONE] /\ status' = [status EXCEPT ![t] = "released"]
      /\ record_count' = record_count - 1
      /\ loads' = [loads EXCEPT !.assigned[c] = @ - 1]
      /\ scope' = [scope EXCEPT ![s].records = @ \ {t}, ![s].admitted = @ - 1]
      /\ UNCHANGED <<config, home, carrier, observed, next_task, in_flight, registered, waiters,
                     completions, publishing, aborting, retired_tasks, report>>
  BY DEF push, release_reservation, joinVars, kernelVars
<1>3. PICK to \in {"body", "run"} : /\ pc' = [pc EXCEPT ![p] = to]
                                    /\ p \in Owners => to = "body"
                                    /\ p \in Tasks => to = "run"
  BY Kinds DEF push, Goto
<1>4. /\ \A q \in Procs : pc'[q] = IF q = p THEN to ELSE pc[q]
      /\ \A q \in Procs : obj'[q] = IF q = p THEN NONE ELSE obj[q]
      /\ \A u \in Tasks : status'[u] = IF u = t THEN "released" ELSE status[u]
  BY <1>0, <1>2, <1>3 DEF Types
<1>5. /\ \A u \in Tasks : u \in Procs
      /\ \A o \in Owners : o \in Procs
  BY DEF Procs
<1>6. \A u \in Tasks : pc'[u] = "gone" <=> pc[u] = "gone"
  BY <1>0, <1>4, <1>5
<1>7. /\ \A o \in Owners : o # s => OfScope(o)' = OfScope(o)
      /\ OfScope(s)' = OfScope(s) \ {t} /\ t \in OfScope(s)
  BY <1>1, <1>2, <1>4 DEF OfScope
<1>8. /\ \A d \in Carriers : d # c => Mine(d)' = Mine(d)
      /\ Mine(c)' = Mine(c) \ {t} /\ t \in Mine(c)
  BY <1>1, <1>2, <1>4 DEF Mine
<1>9. /\ \A o \in Owners : Retired(OfScope(o))' = Retired(OfScope(o))
      /\ \A d \in Carriers : Retired(Mine(d))' = Retired(Mine(d))
  <2>1. /\ \A o \in Owners : OfScope(o) \subseteq Tasks
        /\ \A d \in Carriers : Mine(d) \subseteq Tasks
    BY DEF OfScope, Mine
  <2>2. \A S \in SUBSET Tasks : Retired(S)' = Retired(S)
    BY <1>2, <1>6 DEF Retired
  <2>3. \A S \in SUBSET Tasks : Retired(S \ {t}) = Retired(S)
    BY <1>1 DEF Retired
  <2>4. \A o \in Owners : Retired(OfScope(o))' = Retired(OfScope(o))
    BY <2>1, <1>1, <1>2, <1>6, <1>7 DEF Retired
  <2>5. \A d \in Carriers : Retired(Mine(d))' = Retired(Mine(d))
    BY <2>1, <1>1, <1>2, <1>6, <1>8, SMTT(30) DEF Retired
  <2> QED
    BY <2>4, <2>5
<1>10. t \in scope[s].records /\ pc[s] \notin {"drained", "reported", "end"}
  <2>1. pc[s] \notin {"drained", "reported", "end"}
    BY <1>0, <1>1, <1>7 DEF ScopeDrained, Retired
  <2> QED
    BY <2>1, <1>0, <1>1, <1>7 DEF RecordsKept, Terminal
<1>11. scope[s].admitted = Cardinality(OfScope(s)) /\ scope[s].admitted - 1 \in Nat
       /\ Cardinality(OfScope(s)') = scope[s].admitted - 1
  <2>1. OfScope(s) \in SUBSET Tasks
    BY DEF OfScope
  <2>2. IsFiniteSet(OfScope(s)) /\ Cardinality(OfScope(s)) \in Nat
    BY <2>1, Kinds
  <2>3. Cardinality(OfScope(s) \ {t}) = Cardinality(OfScope(s)) - 1
    BY <2>2, <1>7, FS_RemoveElement
  <2>4. OfScope(s) \ {t} \in SUBSET Tasks
    BY <2>1
  <2>5. Cardinality(OfScope(s) \ {t}) \in Nat
    BY <2>4, Kinds
  <2> QED
    BY <2>3, <2>5, <1>0, <1>7 DEF ScopesCounted
<1>12. /\ scope' \in [Owners -> ScopeRec]
       /\ \A o \in Owners : /\ scope'[o].retired = scope[o].retired
                            /\ scope'[o].failed = scope[o].failed
                            /\ scope'[o].open = scope[o].open
                            /\ scope'[o].admitting = scope[o].admitting
                            /\ o # s => scope'[o] = scope[o]
       /\ scope'[s].records = scope[s].records \ {t}
       /\ scope'[s].admitted = scope[s].admitted - 1
  <2>1. scope[s].admitted - 1 \in Nat /\ scope[s].records \ {t} \in SUBSET Tasks
    BY <1>11, <1>0, ScopeTypes
  <2>2. scope' = [scope EXCEPT ![s] = [scope[s] EXCEPT !.records = scope[s].records \ {t},
                                                       !.admitted = scope[s].admitted - 1]]
    BY <1>2, <1>0 DEF Types, ScopeRec
  <2>3. Types
    BY <1>0
  <2> DEFINE left == scope[s].admitted - 1
             kept == scope[s].records \ {t}
  <2>4. /\ left \in Nat /\ kept \in SUBSET Tasks
        /\ scope' = [scope EXCEPT ![s] = [scope[s] EXCEPT !.records = kept, !.admitted = left]]
    BY <2>1, <2>2
  <2> HIDE DEF left, kept
  <2>5. /\ scope' \in [Owners -> ScopeRec]
        /\ \A o \in Owners : /\ scope'[o].retired = scope[o].retired
                             /\ scope'[o].failed = scope[o].failed
                             /\ scope'[o].open = scope[o].open
                             /\ scope'[o].admitting = scope[o].admitting
                             /\ o # s => scope'[o] = scope[o]
        /\ scope'[s].records = kept
        /\ scope'[s].admitted = left
    BY <2>3, <2>4, Credited, ZenonT(60)
  <2> QED
    BY <2>5 DEF left, kept
<1>13. /\ loads' \in Loads /\ loads'.observed = loads.observed
       /\ \A d \in Carriers : loads'.assigned[d] = IF d = c THEN loads.assigned[c] - 1 ELSE loads.assigned[d]
       /\ Cardinality(Mine(c)') = loads.assigned[c] - 1
  <2>1. Mine(c) \in SUBSET Tasks /\ (Mine(c) \ {t}) \in SUBSET Tasks
    BY DEF Mine
  <2>2. Cardinality(Mine(c) \ {t}) = Cardinality(Mine(c)) - 1 /\ Cardinality(Mine(c) \ {t}) \in Nat
    BY <2>1, <1>8, Kinds, FS_RemoveElement
  <2>3. loads.assigned[c] = Cardinality(Mine(c))
    BY <1>0 DEF CarriersCounted
  <2>4. loads.assigned[c] - 1 \in Nat
    BY <2>2, <2>3
  <2> SUFFICES ASSUME NEW l \in Loads, l = loads, NEW m, m = loads'
               PROVE  /\ m \in Loads /\ m.observed = l.observed
                      /\ \A d \in Carriers : m.assigned[d] = IF d = c THEN l.assigned[c] - 1 ELSE l.assigned[d]
    BY <2>2, <2>3, <1>8, <1>0 DEF Types
  <2>5. m = [l EXCEPT !.assigned = [l.assigned EXCEPT ![c] = l.assigned[c] - 1]]
    BY <1>2 DEF Loads
  <2>6. l.assigned \in [Carriers -> Nat] /\ l.assigned[c] - 1 \in Nat
    BY <2>4 DEF Loads
  <2>9. [l.assigned EXCEPT ![c] = l.assigned[c] - 1] \in [Carriers -> Nat]
    BY <2>6
  <2> SUFFICES ASSUME NEW a \in [Carriers -> Nat], a = [l.assigned EXCEPT ![c] = l.assigned[c] - 1]
               PROVE  /\ m \in Loads /\ m.observed = l.observed
                      /\ \A d \in Carriers : m.assigned[d] = IF d = c THEN l.assigned[c] - 1 ELSE l.assigned[d]
    BY <2>9
  <2>7. m \in Loads /\ m.observed = l.observed /\ m.assigned = a
    BY <2>5 DEF Loads
  <2>8. \A d \in Carriers : a[d] = IF d = c THEN l.assigned[c] - 1 ELSE l.assigned[d]
    BY <2>6
  <2> QED
    BY <2>7, <2>8
<1>14. AllRecords' = AllRecords \ {t} /\ t \in AllRecords /\ AllRecords \in SUBSET Tasks
  <2>1. \A o \in Owners : scope'[o].records = IF o = s THEN scope[s].records \ {t} ELSE scope[o].records
    BY <1>12
  <2>2. \A o \in Owners : o # s => t \notin scope[o].records
    BY <1>0 DEF RecordsCounted, OfScope
  <2>3. AllRecords \in SUBSET Tasks
    BY <1>0, ScopeTypes DEF AllRecords
  <2> QED
    BY <2>1, <2>2, <2>3, <1>10 DEF AllRecords
<1>15. record_count' = Cardinality(AllRecords') /\ record_count' \in Nat
  <2>1. Cardinality(AllRecords \ {t}) = Cardinality(AllRecords) - 1
    BY <1>14, Kinds, FS_RemoveElement
  <2>2. (AllRecords \ {t}) \in SUBSET Tasks
    BY <1>14
  <2>3. Cardinality(AllRecords \ {t}) \in Nat
    BY <2>2, Kinds
  <2> QED
    BY <2>1, <2>3, <1>0, <1>2, <1>14 DEF RecordsCounted
<1>16. Types'
  <2>1. /\ pc' \in [Procs -> Pcs] /\ obj' \in [Procs -> Tasks \cup {NONE}]
        /\ status' \in [Tasks -> Statuses]
    BY <1>0, <1>2, <1>3 DEF Types, Pcs, Statuses
  <2> QED
    BY <2>1, <1>0, <1>2, <1>12, <1>13, <1>15 DEF Types
<1>17. StatusPlace' /\ Carrying' /\ Joins'
  <2>1. StatusPlace'
    BY <1>0, <1>1, <1>3, <1>4, <1>5 DEF StatusPlace, Terminal
  <2>2. \A d \in Carriers : completions[d] \subseteq Tasks
    BY <1>0 DEF Types
  <2>3. \A d \in Carriers : in_flight[d] # NONE => in_flight[d] \in Tasks
    BY <1>0 DEF Types
  <2>4. Carrying'
    BY <1>0, <1>1, <1>2, <1>3, <1>4, <1>5, <2>2, <2>3 DEF Carrying
  <2>5. Joins'
    BY <1>0, <1>1, <1>2, <1>3, <1>4, <1>5, JoinFrame
  <2> QED
    BY <2>1, <2>4, <2>5
<1>18. Fresh' /\ Closed' /\ Pushers'
  <2>1. Fresh'
    <3>1. \A o \in Owners : (pc[o] # "out" => pc'[o] # "out") /\ scope'[o].open = scope[o].open
      BY <1>0, <1>3, <1>4, <1>5, <1>12
    <3>2. \A u \in Tasks : status'[u] = "none" <=> status[u] = "none"
      BY <1>1, <1>4
    <3>3. UNCHANGED <<home, carrier, next_task>>
      BY <1>2
    <3> QED
      BY <1>0, <3>1, <3>2, <3>3 DEF Fresh
  <2>2. Closed'
    BY <1>0, <1>3, <1>4, <1>5, <1>12, Kinds DEF Closed
  <2>3. \A q \in Procs : pc'[q] = "push" => q # p /\ pc[q] = "push" /\ obj'[q] = obj[q] /\ obj[q] # t
    BY <1>0, <1>3, <1>4 DEF Pushers
  <2>4. Pushers'
    BY <2>3, <1>0, <1>4 DEF Pushers
  <2> QED
    BY <2>1, <2>2, <2>4
<1>19. RecordsCounted'
  <2>1. \A o \in Owners : scope'[o].records \subseteq OfScope(o)'
    <3> SUFFICES ASSUME NEW o \in Owners
                 PROVE  scope'[o].records \subseteq OfScope(o)'
      OBVIOUS
    <3>1. CASE o = s
      BY <3>1, <1>0, <1>7, <1>12 DEF RecordsCounted
    <3>2. CASE o # s
      BY <3>2, <1>0, <1>7, <1>12 DEF RecordsCounted
    <3> QED
      BY <3>1, <3>2
  <2> QED
    BY <2>1, <1>15 DEF RecordsCounted
<1>20. ScopesCounted'
  <2> SUFFICES ASSUME NEW o \in Owners
               PROVE  /\ scope'[o].admitted = Cardinality(OfScope(o)')
                      /\ scope'[o].retired = Cardinality(Retired(OfScope(o)))
    BY <1>9 DEF ScopesCounted
  <2>1. CASE o = s
    BY <2>1, <1>0, <1>11, <1>12 DEF ScopesCounted
  <2>2. CASE o # s
    BY <2>2, <1>0, <1>7, <1>12 DEF ScopesCounted
  <2> QED
    BY <2>1, <2>2
<1>21. CarriersCounted'
  <2> SUFFICES ASSUME NEW d \in Carriers
               PROVE  loads'.assigned[d] = Cardinality(Mine(d)')
    BY <1>0, <1>2, <1>9, <1>13 DEF CarriersCounted, Late
  <2>1. CASE d = c
    BY <2>1, <1>13
  <2>2. CASE d # c
    BY <2>2, <1>0, <1>8, <1>13 DEF CarriersCounted
  <2> QED
    BY <2>1, <2>2
<1>22. /\ \A o \in Owners : pc'[o] \in {"drained", "reported", "end"} <=> pc[o] \in {"drained", "reported", "end"}
       /\ \A o \in Owners : pc'[o] \in {"reported", "end"} <=> pc[o] \in {"reported", "end"}
       /\ \A o \in Owners : pc'[o] = "end" <=> pc[o] = "end"
  BY <1>0, <1>3, <1>4, <1>5
<1>23. RecordsKept'
  <2> SUFFICES ASSUME NEW o \in Owners, NEW u \in OfScope(o)'
               PROVE  u \in scope'[o].records \/ pc'[o] = "end" \/ (status'[u] \in Terminal /\ u \in observed')
    BY DEF RecordsKept
  <2>1. u \in OfScope(o) /\ u # t /\ status'[u] = status[u]
    BY <1>4, <1>7 DEF OfScope
  <2>2. u \in scope[o].records \/ pc[o] = "end" \/ (status[u] \in Terminal /\ u \in observed)
    BY <2>1, <1>0 DEF RecordsKept
  <2> QED
    BY <2>1, <2>2, <1>2, <1>12, <1>22
<1>24. ScopeDrained'
  BY <1>0, <1>7, <1>9, <1>10, <1>22 DEF ScopeDrained
<1>25. FailedKept' /\ FailuresReported'
  <2>1. \A u \in Tasks : status'[u] \in Failed => status'[u] = status[u]
    BY <1>4 DEF Failed
  <2>2. \A o \in Owners : OfScope(o) \subseteq Tasks /\ Retired(OfScope(o)) \subseteq Tasks
                          /\ OfScope(o)' \subseteq OfScope(o)
    BY <1>7 DEF OfScope, Retired
  <2>3. FailedKept'
    <3>1. UNCHANGED observed /\ \A o \in Owners : scope'[o].failed = scope[o].failed
      BY <1>2, <1>12
    <3> QED
      BY <2>1, <2>2, <3>1, <1>0, <1>9, <1>22 DEF FailedKept
  <2>4. FailuresReported'
    BY <2>1, <2>2, <1>0, <1>2, <1>22 DEF FailuresReported
  <2> QED
    BY <2>3, <2>4
<1> QED
  BY <1>16, <1>17, <1>18, <1>19, <1>20, <1>21, <1>23, <1>24, <1>25 DEF Inv, Settled

\* The second half of submit_with, whether the inbox accepts or not.
LEMMA Push == ASSUME Inv, NEW p \in Procs, push(p) PROVE Inv'
<1>1. CASE release_reservation(obj[p])
  BY <1>1, PushReleased
<1>2. CASE ~release_reservation(obj[p])
  <2>1. /\ \E st \in {"queued", "start"} : status' = [status EXCEPT ![obj[p]] = st]
        /\ UNCHANGED <<scope, record_count, loads>>
    BY <1>2 DEF push
  <2> QED
    BY <2>1, PushAccepted
<1> QED
  BY <1>1, <1>2

\* The scopes e are those of the state without the records in gone.
Without(gone, e) ==
  /\ e \in [Owners -> ScopeRec]
  /\ \A o \in Owners : /\ e[o].records = scope[o].records \ gone
                       /\ e[o].failed = scope[o].failed \ gone
                       /\ e[o].admitted = scope[o].admitted
                       /\ e[o].retired = scope[o].retired
                       /\ e[o].open = scope[o].open
                       /\ e[o].admitting = scope[o].admitting

\* The map that reserve_with applies to the scopes is an eviction.
LEMMA WithoutEvicted ==
  ASSUME Types, NEW gone, NEW e,
         e = [o \in Owners |-> [scope[o] EXCEPT !.records = @ \ gone, !.failed = @ \ gone]]
  PROVE  Without(gone, e)
<1>1. ASSUME NEW x \in ScopeRec
      PROVE  LET y == [x EXCEPT !.records = @ \ gone, !.failed = @ \ gone]
             IN /\ y \in ScopeRec /\ y.records = x.records \ gone /\ y.failed = x.failed \ gone
                /\ y.admitted = x.admitted /\ y.retired = x.retired /\ y.open = x.open
                /\ y.admitting = x.admitting
  BY DEF ScopeRec
<1> SUFFICES ASSUME NEW o \in Owners
             PROVE  /\ e[o] \in ScopeRec
                    /\ e[o].records = scope[o].records \ gone
                    /\ e[o].failed = scope[o].failed \ gone
                    /\ e[o].admitted = scope[o].admitted
                    /\ e[o].retired = scope[o].retired
                    /\ e[o].open = scope[o].open
                    /\ e[o].admitting = scope[o].admitting
  BY DEF Without
<1>2. e[o] = [scope[o] EXCEPT !.records = @ \ gone, !.failed = @ \ gone]
  OBVIOUS
<1>3. scope[o] \in ScopeRec
  BY DEF Types
<1> QED
  BY <1>1, <1>2, <1>3

\* The scopes g are those of e with record n in scope s.
Enlarged(e, s, n, g) ==
  /\ g \in [Owners -> ScopeRec]
  /\ \A o \in Owners : /\ o # s => g[o] = e[o]
                       /\ g[o].failed = e[o].failed
                       /\ g[o].retired = e[o].retired
                       /\ g[o].open = e[o].open
                       /\ g[o].admitting = e[o].admitting
  /\ g[s].records = e[s].records \cup {n}
  /\ g[s].admitted = e[s].admitted + 1

\* The update that reserve_with makes to its scope adds one record.
LEMMA Grown ==
  ASSUME NEW e \in [Owners -> ScopeRec], NEW s \in Owners, NEW n \in Tasks, NEW g,
         g = [e EXCEPT ![s].records = @ \cup {n}, ![s].admitted = @ + 1]
  PROVE  Enlarged(e, s, n, g)
<1>1. ASSUME NEW x \in ScopeRec
      PROVE  LET y == [x EXCEPT !.records = x.records \cup {n}, !.admitted = x.admitted + 1]
             IN /\ y \in ScopeRec /\ y.records = x.records \cup {n} /\ y.admitted = x.admitted + 1
                /\ y.failed = x.failed /\ y.retired = x.retired /\ y.open = x.open
                /\ y.admitting = x.admitting
  BY DEF ScopeRec
<1> DEFINE r == [e[s] EXCEPT !.records = e[s].records \cup {n}, !.admitted = e[s].admitted + 1]
<1>2. e[s] \in ScopeRec
  OBVIOUS
<1>3. /\ r \in ScopeRec /\ r.records = e[s].records \cup {n} /\ r.admitted = e[s].admitted + 1
      /\ r.failed = e[s].failed /\ r.retired = e[s].retired /\ r.open = e[s].open
      /\ r.admitting = e[s].admitting
  BY <1>1, <1>2
<1>4. g = [e EXCEPT ![s] = r]
  BY <1>2 DEF ScopeRec
<1> HIDE DEF r
<1>5. \A o \in Owners : g[o] = IF o = s THEN r ELSE e[o]
  BY <1>4
<1>6. g \in [Owners -> ScopeRec]
  BY <1>3, <1>4
<1> QED
  BY <1>3, <1>5, <1>6 DEF Enlarged

\* One more task is assigned to carrier c.
Assigned(l, c, m) ==
  /\ m \in Loads /\ m.observed = l.observed
  /\ \A d \in Carriers : m.assigned[d] = IF d = c THEN l.assigned[c] + 1 ELSE l.assigned[d]

\* The update that reserve_with makes to the loads assigns one task.
LEMMA Loaded ==
  ASSUME NEW l \in Loads, NEW c \in Carriers, NEW turn \in Nat, NEW m,
         m = [l EXCEPT !.assigned[c] = @ + 1, !.cursor = turn]
  PROVE  Assigned(l, c, m)
<1>1. l.assigned \in [Carriers -> Nat] /\ l.assigned[c] + 1 \in Nat
  BY DEF Loads
<1>2. [l.assigned EXCEPT ![c] = l.assigned[c] + 1] \in [Carriers -> Nat]
  BY <1>1
<1>3. m = [l EXCEPT !.assigned = [l.assigned EXCEPT ![c] = l.assigned[c] + 1], !.cursor = turn]
  BY DEF Loads
<1> SUFFICES ASSUME NEW a \in [Carriers -> Nat], a = [l.assigned EXCEPT ![c] = l.assigned[c] + 1]
             PROVE  /\ m \in Loads /\ m.observed = l.observed
                    /\ \A d \in Carriers : m.assigned[d] = IF d = c THEN l.assigned[c] + 1 ELSE l.assigned[d]
  BY <1>2 DEF Assigned
<1>4. m \in Loads /\ m.observed = l.observed /\ m.assigned = a
  BY <1>3 DEF Loads
<1>5. \A d \in Carriers : a[d] = IF d = c THEN l.assigned[c] + 1 ELSE l.assigned[d]
  BY <1>1
<1> QED
  BY <1>4, <1>5

\* The records that admission may evict.
Evictable == IF record_count >= MaxVthreads THEN reclaimable \cap AllRecords ELSE {}

\* The counter after an eviction is that of the records left.
LEMMA EvictionCounted ==
  ASSUME Types, RecordsCounted, NEW gone, gone = Evictable
  PROVE  /\ gone \in SUBSET Tasks /\ AllRecords \in SUBSET Tasks
         /\ \A t \in gone : status[t] \in Terminal /\ t \in observed
         /\ record_count - Cardinality(gone) = Cardinality(AllRecords \ gone)
         /\ record_count - Cardinality(gone) \in Nat
<1>1. AllRecords \in SUBSET Tasks
  BY ScopeTypes DEF AllRecords
<1>2. gone \in SUBSET Tasks /\ gone \subseteq AllRecords
      /\ \A t \in gone : status[t] \in Terminal /\ t \in observed
  BY <1>1 DEF Evictable, reclaimable
<1>3. Cardinality(AllRecords \ gone) = Cardinality(AllRecords) - Cardinality(AllRecords \cap gone)
  BY <1>1, Kinds, FS_Difference
<1>4. AllRecords \cap gone = gone
  BY <1>2
<1>5. (AllRecords \ gone) \in SUBSET Tasks
  BY <1>1
<1>6. Cardinality(AllRecords \ gone) \in Nat
  BY <1>5, Kinds
<1> QED
  BY <1>1, <1>2, <1>3, <1>4, <1>6 DEF RecordsCounted

\* Every queue is full: admission is refused, but has evicted and probed.
LEMMA Refused ==
  ASSUME Inv, NEW gone, gone = Evictable,
         Without(gone, scope'),
         record_count' = record_count - Cardinality(gone), loads' = Probed,
         UNCHANGED <<config, status, home, carrier, observed, next_task, in_flight, completions,
                     publishing, aborting, retired_tasks, registered, waiters, pc, obj, report>>
  PROVE  Inv'
<1>0. /\ Types /\ Fresh /\ Pushers /\ Carrying /\ RecordsKept /\ Closed /\ RecordsCounted
      /\ ScopesCounted /\ CarriersCounted /\ ScopeDrained /\ FailedKept /\ FailuresReported
      /\ StatusPlace /\ Joins
  BY Parts
<1>1. /\ scope' \in [Owners -> ScopeRec]
      /\ \A o \in Owners : /\ scope'[o].records = scope[o].records \ gone
                           /\ scope'[o].failed = scope[o].failed \ gone
                           /\ scope'[o].admitted = scope[o].admitted
                           /\ scope'[o].retired = scope[o].retired
                           /\ scope'[o].open = scope[o].open
                           /\ scope'[o].admitting = scope[o].admitting
  BY DEF Without
<1>2. /\ \A o \in Owners : OfScope(o)' = OfScope(o)
      /\ \A o \in Owners : Retired(OfScope(o))' = Retired(OfScope(o))
      /\ \A c \in Carriers : Mine(c)' = Mine(c)
      /\ \A c \in Carriers : Retired(Mine(c))' = Retired(Mine(c))
  BY SameSets
<1>3. /\ \A t \in gone : status[t] \in Terminal /\ t \in observed
      /\ record_count' = Cardinality(AllRecords \ gone) /\ record_count' \in Nat
  <2>1. /\ \A t \in gone : status[t] \in Terminal /\ t \in observed
        /\ record_count - Cardinality(gone) = Cardinality(AllRecords \ gone)
        /\ record_count - Cardinality(gone) \in Nat
    BY <1>0, EvictionCounted
  <2> QED
    BY <2>1
<1>4. AllRecords' = AllRecords \ gone
  BY <1>1 DEF AllRecords
<1>5. /\ loads' \in Loads /\ loads'.assigned = loads.assigned
      /\ \A c \in Carriers : loads'.observed[c] <= retired_tasks[c]
  BY <1>0, ProbeKeeps
<1>6. Types'
  BY <1>0, <1>1, <1>3, <1>5 DEF Types
<1>7. StatusPlace' /\ Carrying' /\ Joins'
  <2>1. StatusPlace' /\ Carrying'
    BY <1>0 DEF StatusPlace, Carrying
  <2>2. Joins'
    BY <1>0, JoinFrame
  <2> QED
    BY <2>1, <2>2
<1>8. Fresh' /\ Pushers' /\ Closed'
  BY <1>0, <1>1 DEF Fresh, Pushers, Closed
<1>9. RecordsCounted' /\ ScopesCounted'
  <2>1. RecordsCounted'
    BY <1>0, <1>1, <1>2, <1>3, <1>4 DEF RecordsCounted
  <2>2. ScopesCounted'
    BY <1>0, <1>1, <1>2 DEF ScopesCounted
  <2> QED
    BY <2>1, <2>2
<1>10. CarriersCounted'
  BY <1>0, <1>2, <1>5 DEF CarriersCounted, Late
<1>11. RecordsKept'
  BY <1>0, <1>1, <1>2, <1>3 DEF RecordsKept
<1>12. ScopeDrained' /\ FailuresReported'
  BY <1>0, <1>2 DEF ScopeDrained, FailuresReported
<1>13. FailedKept'
  <2> SUFFICES ASSUME NEW o \in Owners, pc[o] # "end", NEW t \in Retired(OfScope(o)),
                      status[t] \in Failed, t \notin observed
               PROVE  t \in scope'[o].failed
    BY <1>2 DEF FailedKept
  <2>1. t \in scope[o].failed /\ t \notin gone
    BY <1>0, <1>3 DEF FailedKept
  <2> QED
    BY <2>1, <1>1
<1> QED
  BY <1>6, <1>7, <1>8, <1>9, <1>10, <1>11, <1>12, <1>13 DEF Inv, Settled

\* The next identity is reserved in scope s for carrier c by process p.
LEMMA Reserved ==
  ASSUME Inv, NEW gone, gone = Evictable, NEW e, Without(gone, e),
         NEW s \in Owners, NEW c \in Carriers, NEW p \in Procs, NEW n, n = next_task,
         p \in Owners => pc[p] = "body",
         p \in Tasks => pc[p] \in {"run", "spawn"} /\ status[p] = "running",
         scope[s].open, pc[s] \notin {"drained", "reported", "end"}, n <= config.tasks,
         NEW l \in {loads, Probed},
         pc' = [pc EXCEPT ![p] = "push"], obj' = [obj EXCEPT ![p] = n],
         status' = [status EXCEPT ![n] = "reserved"], home' = [home EXCEPT ![n] = s],
         carrier' = [carrier EXCEPT ![n] = c], next_task' = n + 1,
         record_count' = record_count - Cardinality(gone) + 1,
         Assigned(l, c, loads'), Enlarged(e, s, n, scope'),
         UNCHANGED <<config, observed, in_flight, completions, publishing, aborting, retired_tasks,
                     registered, waiters, report>>
  PROVE  Inv'
<1>0. /\ Types /\ Fresh /\ Pushers /\ Carrying /\ RecordsKept /\ Closed /\ RecordsCounted
      /\ ScopesCounted /\ CarriersCounted /\ ScopeDrained /\ FailedKept /\ FailuresReported
      /\ StatusPlace /\ Joins
  BY Parts
<1>1. /\ l \in Loads /\ l.assigned = loads.assigned
      /\ \A d \in Carriers : l.observed[d] <= retired_tasks[d]
      /\ config.carriers \in Nat \ {0} /\ config.tasks \in Tasks
  <2>1. CASE l = loads
    BY <2>1, <1>0, ProbeKeeps DEF Types, CarriersCounted
  <2>2. CASE l = Probed
    BY <2>2, <1>0, ProbeKeeps
  <2> QED
    BY <2>1, <2>2
<1>2. n \in Tasks /\ n \in Nat
  BY <1>0, <1>1, ScopeAssumption DEF Types, Tasks
<1>3. status[n] = "none" /\ home[n] = NONE /\ carrier[n] = NONE /\ pc[n] = "run" /\ n # p
  BY <1>0, <1>2 DEF Fresh, StatusPlace
<1>4. /\ \A q \in Procs : pc'[q] = IF q = p THEN "push" ELSE pc[q]
      /\ \A q \in Procs : obj'[q] = IF q = p THEN n ELSE obj[q]
      /\ \A t \in Tasks : status'[t] = IF t = n THEN "reserved" ELSE status[t]
      /\ \A t \in Tasks : home'[t] = IF t = n THEN s ELSE home[t]
      /\ \A t \in Tasks : carrier'[t] = IF t = n THEN c ELSE carrier[t]
      /\ pc[p] \in {"body", "run", "spawn"}
  BY <1>0, <1>2 DEF Types, Procs
<1>5. /\ \A t \in Tasks : t \in Procs
      /\ \A o \in Owners : o \in Procs
      /\ \A t \in Tasks : pc'[t] = "gone" <=> pc[t] = "gone"
  BY <1>4 DEF Procs
<1>6. /\ \A o \in Owners : o # s => OfScope(o)' = OfScope(o)
      /\ OfScope(s)' = OfScope(s) \cup {n} /\ n \notin OfScope(s)
      /\ \A o \in Owners : n \notin OfScope(o) /\ OfScope(o) \in SUBSET Tasks
  BY <1>2, <1>3, <1>4 DEF OfScope
<1>7. /\ \A d \in Carriers : d # c => Mine(d)' = Mine(d)
      /\ Mine(c)' = Mine(c) \cup {n} /\ n \notin Mine(c)
      /\ \A d \in Carriers : Mine(d) \in SUBSET Tasks
  BY <1>1, <1>2, <1>3, <1>4, Kinds DEF Mine
<1>8. /\ \A o \in Owners : Retired(OfScope(o))' = Retired(OfScope(o))
      /\ \A d \in Carriers : Retired(Mine(d))' = Retired(Mine(d))
  <2>1. UNCHANGED completions
    OBVIOUS
  <2>2. \A o \in Owners : Retired(OfScope(o))' = Retired(OfScope(o))
    BY <2>1, <1>3, <1>5, <1>6 DEF Retired
  <2>3. \A d \in Carriers : Retired(Mine(d))' = Retired(Mine(d))
    BY <2>1, <1>3, <1>5, <1>7 DEF Retired
  <2> QED
    BY <2>2, <2>3
<1>9. pc[s] \notin {"out", "drained", "end"}
  BY <1>0 DEF Fresh, Closed
<1>10. /\ scope' \in [Owners -> ScopeRec]
       /\ \A o \in Owners : /\ o # s => scope'[o].records = scope[o].records \ gone
                            /\ o # s => scope'[o].admitted = scope[o].admitted
                            /\ scope'[o].failed = scope[o].failed \ gone
                            /\ scope'[o].retired = scope[o].retired
                            /\ scope'[o].open = scope[o].open
                            /\ scope'[o].admitting = scope[o].admitting
       /\ scope'[s].records = (scope[s].records \ gone) \cup {n}
       /\ scope'[s].admitted = scope[s].admitted + 1
  BY DEF Without, Enlarged
<1>11. /\ loads' \in Loads /\ loads'.observed = l.observed
       /\ \A d \in Carriers : loads'.assigned[d] = IF d = c THEN loads.assigned[c] + 1 ELSE loads.assigned[d]
  BY <1>1 DEF Assigned
<1>12. /\ AllRecords \in SUBSET Tasks
       /\ \A t \in gone : status[t] \in Terminal /\ t \in observed
       /\ record_count - Cardinality(gone) = Cardinality(AllRecords \ gone)
       /\ record_count - Cardinality(gone) \in Nat
  BY <1>0, EvictionCounted
<1>13. AllRecords' = (AllRecords \ gone) \cup {n} /\ n \notin AllRecords
  <2>1. n \notin AllRecords
    BY <1>0, <1>6 DEF RecordsCounted, AllRecords
  <2>2. /\ \A o \in Owners : o # s => scope'[o].records = scope[o].records \ gone
        /\ scope'[s].records = (scope[s].records \ gone) \cup {n}
    BY <1>10
  <2>3. \A x : x \in AllRecords' <=> \E o \in Owners : x \in scope'[o].records
    BY DEF AllRecords
  <2>4. \A x : x \in AllRecords <=> \E o \in Owners : x \in scope[o].records
    BY DEF AllRecords
  <2>5. SUFFICES ASSUME NEW x PROVE x \in AllRecords' <=> x \in (AllRecords \ gone) \cup {n}
    BY <2>1
  <2>6. ASSUME NEW o \in Owners, x \in scope'[o].records PROVE x \in (AllRecords \ gone) \cup {n}
    <3>1. CASE o = s
      BY <3>1, <2>6, <2>2, <2>4
    <3>2. CASE o # s
      BY <3>2, <2>6, <2>2, <2>4
    <3> QED
      BY <3>1, <3>2
  <2>7. ASSUME NEW o \in Owners, x \in scope[o].records, x \notin gone PROVE x \in scope'[o].records
    <3>1. CASE o = s
      BY <3>1, <2>7, <2>2
    <3>2. CASE o # s
      BY <3>2, <2>7, <2>2
    <3> QED
      BY <3>1, <3>2
  <2>8. n \in scope'[s].records
    BY <2>2
  <2> QED
    BY <2>3, <2>4, <2>6, <2>7, <2>8
<1>14. record_count' = Cardinality(AllRecords') /\ record_count' \in Nat
  <2>1. (AllRecords \ gone) \in SUBSET Tasks
    BY <1>12
  <2>2. Cardinality((AllRecords \ gone) \cup {n}) = Cardinality(AllRecords \ gone) + 1
    BY <2>1, <1>13, Kinds, FS_AddElement
  <2>3. record_count' = record_count - Cardinality(gone) + 1
    OBVIOUS
  <2> QED
    BY <2>2, <2>3, <1>12, <1>13
<1>15. Types'
  <2>1. /\ pc' \in [Procs -> Pcs] /\ obj' \in [Procs -> Tasks \cup {NONE}]
        /\ status' \in [Tasks -> Statuses]
        /\ home' \in [Tasks -> Owners \cup {NONE}] /\ carrier' \in [Tasks -> Carriers \cup {NONE}]
    BY <1>0, <1>1, <1>2 DEF Types, Pcs, Statuses
  <2>2. next_task' \in Nat \ {0}
    BY <1>2
  <2> QED
    BY <2>1, <2>2, <1>0, <1>10, <1>11, <1>14 DEF Types
<1>16. UNCHANGED <<observed, in_flight, completions, publishing, aborting, retired_tasks, registered,
                   waiters, report>>
  OBVIOUS
<1>17. StatusPlace'
  <2>1. p \in Tasks => status[p] = "running"
    OBVIOUS
  <2> QED
    BY <2>1, <1>0, <1>3, <1>4, <1>5 DEF StatusPlace, Terminal
<1>18. Joins'
  <2>1. \A t \in Tasks : pc[t] \in {"subscribe", "joining"} => t # p
    BY <1>4
  <2> QED
    BY <2>1, <1>0, <1>4, <1>5, <1>16, JoinFrame
<1>19. Carrying'
  <2>1. \A d \in Carriers : \A u \in completions[d] :
          u \in Tasks /\ u # n /\ home[u] \in Owners /\ carrier'[u] = d /\ pc'[u] = "gone" /\ home'[u] = home[u]
    <3>1. \A d \in Carriers : \A u \in completions[d] : u \in Tasks /\ carrier[u] = d /\ pc[u] = "gone"
      BY <1>0 DEF Carrying, Types
    <3>2. \A u \in Tasks : pc[u] = "gone" => u # n /\ home[u] \in Owners
      BY <1>0, <1>3, GoneTerminal DEF Fresh, Terminal
    <3> QED
      BY <3>1, <3>2, <1>4, <1>5
  <2>2. \A t \in Tasks : pc'[t] \in {"drain", "retire"} => in_flight[carrier'[t]] = t
    BY <1>0, <1>3, <1>4, <1>5 DEF Carrying
  <2>3. \A d \in Carriers : in_flight[d] # NONE => in_flight[d] \in Tasks
    BY <1>0 DEF Types
  <2>4. \A d \in Carriers : in_flight[d] # NONE => \A u \in completions[d] : home'[u] = home'[in_flight[d]]
    BY <2>1, <2>3, <1>0, <1>3, <1>4, Kinds DEF Carrying
  <2>5. \A d \in Carriers : aborting[d] # NONE =>
          completions[d] = {} /\ (in_flight[d] # NONE => status'[in_flight[d]] = "aborted")
    BY <2>3, <1>0, <1>3, <1>4 DEF Carrying
  <2>6. \A d \in Carriers : \A t, u \in completions[d] : home'[t] = home'[u]
    BY <2>1, <1>0 DEF Carrying
  <2> QED
    BY <2>1, <2>2, <2>4, <2>5, <2>6, <1>0, <1>16 DEF Carrying
<1>20. /\ \A o \in Owners : pc'[o] \in {"drained", "reported", "end"} <=> pc[o] \in {"drained", "reported", "end"}
       /\ \A o \in Owners : pc'[o] \in {"reported", "end"} <=> pc[o] \in {"reported", "end"}
       /\ \A o \in Owners : pc'[o] = "end" <=> pc[o] = "end"
       /\ \A o \in Owners : pc[o] # "out" => pc'[o] # "out"
       /\ \A o \in Owners : pc'[o] # "push" => pc'[o] = pc[o] /\ obj'[o] = obj[o]
  BY <1>4, <1>5
<1>21. Fresh'
  <2>1. \A o \in Owners : scope'[o].open => pc'[o] # "out"
    BY <1>0, <1>10, <1>20 DEF Fresh
  <2>2. ASSUME NEW t \in Tasks
        PROVE  /\ status'[t] = "none" <=> t >= n + 1
               /\ status'[t] = "none" => home'[t] = NONE /\ carrier'[t] = NONE
               /\ status'[t] # "none" => home'[t] \in Owners /\ carrier'[t] \in Carriers /\ pc'[home'[t]] # "out"
    <3>1. CASE t = n
      BY <3>1, <1>1, <1>2, <1>4, <1>9, <1>20
    <3>2. CASE t # n
      <4>1. status'[t] = status[t] /\ home'[t] = home[t] /\ carrier'[t] = carrier[t]
        BY <3>2, <1>4
      <4>2. status[t] = "none" <=> t >= n
        BY <1>0 DEF Fresh
      <4>3. t >= n <=> t >= n + 1
        BY <3>2, <1>2, Kinds
      <4> QED
        BY <4>1, <4>2, <4>3, <1>0, <1>20 DEF Fresh
    <3> QED
      BY <3>1, <3>2
  <2>3. next_task' = n + 1
    OBVIOUS
  <2> QED
    BY <2>1, <2>2, <2>3 DEF Fresh
<1>22. Closed'
  BY <1>0, <1>10, <1>20 DEF Closed
<1>23. Pushers'
  <2>1. \A q \in Procs : q # p /\ pc'[q] = "push" => pc[q] = "push" /\ obj'[q] = obj[q] /\ obj[q] # n
    BY <1>0, <1>3, <1>4 DEF Pushers
  <2>2. \A q \in Procs : q # p /\ pc'[q] = "push" => obj'[q] \in Tasks /\ status'[obj'[q]] = "reserved"
    BY <2>1, <1>0, <1>4 DEF Pushers
  <2>3. obj'[p] = n /\ status'[n] = "reserved"
    BY <1>2, <1>4
  <2>4. \A q, r \in Procs : pc'[q] = "push" /\ pc'[r] = "push" /\ obj'[q] = obj'[r] => q = r
    BY <2>1, <2>3, <1>0 DEF Pushers
  <2> QED
    BY <2>2, <2>3, <2>4, <1>2 DEF Pushers
<1>24. RecordsCounted'
  <2>1. \A o \in Owners : scope'[o].records \subseteq OfScope(o)'
    <3> SUFFICES ASSUME NEW o \in Owners
                 PROVE  scope'[o].records \subseteq OfScope(o)'
      OBVIOUS
    <3>1. scope[o].records \subseteq OfScope(o)
      BY <1>0 DEF RecordsCounted
    <3>2. CASE o = s
      BY <3>1, <3>2, <1>6, <1>10
    <3>3. CASE o # s
      BY <3>1, <3>3, <1>6, <1>10
    <3> QED
      BY <3>2, <3>3
  <2> QED
    BY <2>1, <1>14 DEF RecordsCounted
<1>25. ScopesCounted'
  <2>1. Cardinality(OfScope(s)') = Cardinality(OfScope(s)) + 1
    <3>1. IsFiniteSet(OfScope(s))
      BY <1>6, Kinds
    <3>2. Cardinality(OfScope(s) \cup {n}) = Cardinality(OfScope(s)) + 1
      BY <3>1, <1>6, FS_AddElement
    <3> QED
      BY <3>2, <1>6
  <2> SUFFICES ASSUME NEW o \in Owners
               PROVE  /\ scope'[o].admitted = Cardinality(OfScope(o)')
                      /\ scope'[o].retired = Cardinality(Retired(OfScope(o)))
    BY <1>8 DEF ScopesCounted
  <2>2. scope[o].admitted = Cardinality(OfScope(o)) /\ scope[o].retired = Cardinality(Retired(OfScope(o)))
    BY <1>0 DEF ScopesCounted
  <2>3. CASE o = s
    BY <2>1, <2>2, <2>3, <1>10
  <2>4. CASE o # s
    BY <2>2, <2>4, <1>6, <1>10
  <2> QED
    BY <2>3, <2>4
<1>26. CarriersCounted'
  <2>1. Cardinality(Mine(c)') = Cardinality(Mine(c)) + 1
    <3>1. IsFiniteSet(Mine(c))
      BY <1>1, <1>7, Kinds
    <3>2. Cardinality(Mine(c) \cup {n}) = Cardinality(Mine(c)) + 1
      BY <3>1, <1>7, FS_AddElement
    <3> QED
      BY <3>2, <1>7
  <2> SUFFICES ASSUME NEW d \in Carriers
               PROVE  /\ loads'.assigned[d] = Cardinality(Mine(d)')
                      /\ retired_tasks[d] + Late(d) = Cardinality(Retired(Mine(d)))
                      /\ loads'.observed[d] <= retired_tasks[d]
    BY <1>8, <1>16 DEF CarriersCounted, Late
  <2>2. loads.assigned[d] = Cardinality(Mine(d)) /\ retired_tasks[d] + Late(d) = Cardinality(Retired(Mine(d)))
    BY <1>0 DEF CarriersCounted
  <2>3. loads'.observed[d] <= retired_tasks[d]
    BY <1>1, <1>11
  <2>4. CASE d = c
    BY <2>1, <2>2, <2>3, <2>4, <1>11
  <2>5. CASE d # c
    BY <2>2, <2>3, <2>5, <1>7, <1>11
  <2> QED
    BY <2>4, <2>5
<1>27. RecordsKept'
  <2> SUFFICES ASSUME NEW o \in Owners, NEW t \in OfScope(o)'
               PROVE  t \in scope'[o].records \/ pc'[o] = "end" \/ (status'[t] \in Terminal /\ t \in observed)
    BY <1>16 DEF RecordsKept
  <2>1. CASE t = n
    <3>1. o = s
      BY <2>1, <1>6
    <3> QED
      BY <2>1, <3>1, <1>10
  <2>2. CASE t # n
    <3>1. t \in OfScope(o) /\ t \in Tasks /\ status'[t] = status[t]
      BY <2>2, <1>4, <1>6
    <3>2. t \in scope[o].records \/ pc[o] = "end" \/ (status[t] \in Terminal /\ t \in observed)
      BY <3>1, <1>0 DEF RecordsKept
    <3>3. t \in scope[o].records /\ t \notin gone => t \in scope'[o].records
      BY <1>10
    <3> QED
      BY <3>1, <3>2, <3>3, <1>12, <1>20
  <2> QED
    BY <2>1, <2>2
<1>28. ScopeDrained'
  BY <1>0, <1>6, <1>8, <1>9, <1>20 DEF ScopeDrained
<1>29. FailedKept'
  <2> SUFFICES ASSUME NEW o \in Owners, pc[o] # "end", NEW t \in Retired(OfScope(o)),
                      status'[t] \in Failed, t \notin observed
               PROVE  t \in scope'[o].failed
    BY <1>8, <1>16, <1>20 DEF FailedKept
  <2>1. t \in Tasks /\ t # n
    BY <1>6 DEF Retired
  <2>2. status'[t] = status[t]
    BY <2>1, <1>4
  <2>3. t \in scope[o].failed /\ t \notin gone
    BY <2>2, <1>0, <1>12 DEF FailedKept
  <2> QED
    BY <2>3, <1>10
<1>30. FailuresReported'
  <2> SUFFICES ASSUME NEW o \in Owners \ Supervisors, pc[o] \in {"reported", "end"},
                      NEW t \in OfScope(o)', status'[t] \in Failed, t \notin observed
               PROVE  t \in report[o]
    BY <1>16, <1>20 DEF FailuresReported
  <2>1. o # s /\ t \in OfScope(o) /\ t \in Tasks /\ t # n
    BY <1>6, <1>9
  <2>2. status'[t] = status[t]
    BY <2>1, <1>4
  <2> QED
    BY <2>1, <2>2, <1>0 DEF FailuresReported
<1> QED
  BY <1>15, <1>17, <1>18, <1>19, <1>21, <1>22, <1>23, <1>24, <1>25, <1>26, <1>27, <1>28, <1>29, <1>30
     DEF Inv, Settled

\* admit, for a transferable task or a local child.
LEMMA Admit ==
  ASSUME Inv, NEW p \in Procs, NEW s \in Owners, NEW c \in Carriers, NEW l \in {loads, Probed}, NEW q,
         Room(s), admit(p, s, c, l, q), pc[s] \notin {"drained", "reported", "end"},
         p \in Owners => pc[p] = "body",
         p \in Tasks => pc[p] \in {"run", "spawn"} /\ status[p] = "running",
         UNCHANGED <<config, observed, joinVars, kernelVars, report>>
  PROVE  Inv'
<1>1. Types /\ CarriersCounted
  BY Parts
<1>2. UNCHANGED <<config, observed, in_flight, completions, publishing, aborting, retired_tasks, registered,
                  waiters, report>>
  BY DEF joinVars, kernelVars
<1>3. Gone = Evictable
  BY DEF Gone, Evictable, AllRecords
<1> SUFFICES ASSUME NEW g, g = Evictable, NEW e, e = Evicted, NEW n, n = next_task PROVE Inv'
  OBVIOUS
<1>4. Without(g, e)
  <2>1. e = [o \in Owners |-> [scope[o] EXCEPT !.records = @ \ g, !.failed = @ \ g]]
    BY <1>3, Zenon DEF Evicted
  <2> QED
    BY <2>1, <1>1, WithoutEvicted
<1>5. /\ scope[s].open /\ n <= config.tasks
  BY DEF Room
<1>6. /\ pc' = [pc EXCEPT ![p] = "push"] /\ obj' = [obj EXCEPT ![p] = n]
      /\ status' = [status EXCEPT ![n] = "reserved"] /\ home' = [home EXCEPT ![n] = s]
      /\ carrier' = [carrier EXCEPT ![n] = c] /\ next_task' = n + 1
      /\ record_count' = record_count - Cardinality(g) + 1
  BY <1>3 DEF admit
<1>7. /\ Probed \in Loads /\ loads \in Loads /\ config.carriers \in Nat \ {0} /\ config.tasks \in Tasks
  BY <1>1, ProbeKeeps DEF Types
<1>8. Assigned(l, c, loads')
  <2>1. (c + 1) % config.carriers \in Nat
    BY <1>7, Turns DEF Carriers
  <2>2. loads' = [l EXCEPT !.assigned[c] = @ + 1, !.cursor = (c + 1) % config.carriers]
    BY DEF admit
  <2>3. l \in Loads
    BY <1>7
  <2> SUFFICES ASSUME NEW turn \in Nat, NEW k \in Loads, NEW m,
                      m = [k EXCEPT !.assigned[c] = @ + 1, !.cursor = turn]
               PROVE  Assigned(k, c, m)
    BY <2>1, <2>2, <2>3
  <2> QED
    BY Loaded
<1>9. n \in Tasks
  <2>1. next_task \in Nat \ {0}
    BY <1>1 DEF Types
  <2>2. config.tasks \in 1..MaxTasks /\ MaxTasks \in Nat
    BY <1>7, ScopeAssumption DEF Tasks
  <2> QED
    BY <2>1, <2>2, <1>5 DEF Tasks
<1>10. Enlarged(e, s, n, scope')
  <2>1. scope' = [e EXCEPT ![s].records = @ \cup {n}, ![s].admitted = @ + 1]
    BY DEF admit
  <2>2. e \in [Owners -> ScopeRec]
    BY <1>4 DEF Without
  <2> QED
    BY <1>9, <2>1, <2>2, Grown
<1> QED
  BY <1>2, <1>4, <1>5, <1>6, <1>8, <1>10, Reserved

\* reserve_with, whether a carrier is found or not.
LEMMA Reserve ==
  ASSUME Inv, NEW p \in Procs, NEW s \in Owners, reserve_with(p, s),
         p \in Owners => pc[p] = "body", p \in Tasks => pc[p] = "run" /\ status[p] = "running"
  PROVE  Inv'
<1>1. /\ scope[s].admitting /\ Room(s)
      /\ UNCHANGED <<config, observed, joinVars, kernelVars, report>>
  BY DEF reserve_with
<1>2. Types /\ CarriersCounted /\ Closed
  BY Parts
<1>3. pc[s] \notin {"drained", "reported", "end"}
  BY <1>1, <1>2 DEF Closed
<1>4. CASE /\ scope' = Evicted /\ record_count' = record_count - Cardinality(Gone)
           /\ loads' = Probed
           /\ UNCHANGED <<status, home, carrier, next_task, pc, obj>>
  <2>1. UNCHANGED <<in_flight, completions, publishing, aborting, retired_tasks, registered, waiters>>
    BY <1>1 DEF joinVars, kernelVars
  <2> SUFFICES ASSUME NEW g, g = Evictable PROVE Inv'
    OBVIOUS
  <2>2. g = Gone
    BY DEF Gone, Evictable, AllRecords
  <2>3. Without(g, scope')
    <3>1. scope' = [o \in Owners |-> [scope[o] EXCEPT !.records = @ \ g, !.failed = @ \ g]]
      BY <1>4, <2>2, Zenon DEF Evicted
    <3> QED
      BY <3>1, <1>2, WithoutEvicted
  <2> QED
    BY <1>1, <1>4, <2>1, <2>2, <2>3, Refused
<1>5. ASSUME NEW c \in carriers, admit(p, s, c, Probed, NONE) PROVE Inv'
  <2>1. c \in Carriers
    BY <1>2, ProbeKeeps
  <2> QED
    BY <1>1, <1>3, <1>5, <2>1, Admit
<1> QED
  BY <1>4, <1>5 DEF reserve_with

\* A running task was not retired, so that its scope is not drained: it may
\* admit local children whether the scope was closed or not.
LEMMA ReserveLocal ==
  ASSUME Inv, NEW p \in Tasks, reserve_local(p)
  PROVE  Inv'
<1>1. /\ Types /\ StatusPlace /\ Fresh /\ ScopeDrained /\ p \in Procs /\ p \notin Owners
      /\ status[p] = "running" /\ pc[p] = "spawn"
  BY Parts, Kinds DEF reserve_local, Running, Procs
<1>2. home[p] \in Owners /\ carrier[p] \in Carriers
  BY <1>1 DEF Fresh
<1>3. UNCHANGED <<config, observed, joinVars, kernelVars, report>>
  BY DEF reserve_local
<1>4. CASE Room(home[p])
  <2>1. admit(p, home[p], carrier[p], loads, p)
    BY <1>4 DEF reserve_local
  <2>2. pc[home[p]] \notin {"drained", "reported", "end"}
    <3>1. p \in OfScope(home[p]) /\ p \notin Retired(OfScope(home[p]))
      BY <1>1 DEF OfScope, Retired
    <3> QED
      BY <3>1, <1>1, <1>2 DEF ScopeDrained
  <2> QED
    BY <1>1, <1>2, <1>3, <1>4, <2>1, <2>2, Admit
<1>5. CASE ~Room(home[p])
  <2>1. /\ pc' = [pc EXCEPT ![p] = "run"]
        /\ UNCHANGED <<scope, status, home, carrier, next_task, record_count, loads, obj>>
    BY <1>5 DEF reserve_local
  <2> QED
    BY <1>1, <1>3, <2>1, Spawn DEF joinVars, kernelVars
<1> QED
  BY <1>4, <1>5

-----------------------------------------------------------------------------
(* Every step *)

\* Every step of an owner keeps the invariant,
LEMMA OwnerSteps == ASSUME Inv, NEW o \in Owners, OwnerStep(o) PROVE Inv'
<1>1. ASSUME begin_owned(o) PROVE Inv'
  BY <1>1, BeginOwned
<1>2. ASSUME NEW b \in BOOLEAN, close_scope(o, b) PROVE Inv'
  BY <1>2, CloseScope
<1>3. ASSUME NEW b \in BOOLEAN, abort_scope(o, b) PROVE Inv'
  BY <1>3, AbortScope
<1>4. ASSUME pc[o] = "body", NEW s \in Owners, reserve_with(o, s) PROVE Inv'
  <2>1. o \in Procs /\ o \notin Tasks
    BY Kinds DEF Procs
  <2> QED
    BY <1>4, <2>1, Reserve
<1>5. ASSUME NEW t \in Tasks, os_join(o, t) PROVE Inv'
  BY <1>5, OsJoin
<1>6. ASSUME push(o) PROVE Inv'
  <2>1. o \in Procs
    BY DEF Procs
  <2> QED
    BY <1>6, <2>1, Push
<1>7. ASSUME abort_inboxes(o) PROVE Inv'
  BY <1>7, AbortInboxes
<1>8. ASSUME version(o) PROVE Inv'
  BY <1>8, Version
<1>9. ASSUME NEW pending \in SUBSET notices, look(o, pending) PROVE Inv'
  BY <1>9, Look
<1>10. ASSUME unblock(o) PROVE Inv'
  BY <1>10, Unblock
<1>11. ASSUME time_out(o) PROVE Inv'
  BY <1>11, TimeOut
<1>12. ASSUME finish_scope(o) PROVE Inv'
  BY <1>12, FinishScope
<1>13. ASSUME unobserved(o) PROVE Inv'
  BY <1>13, Reported
<1> QED
  BY <1>1, <1>2, <1>3, <1>4, <1>5, <1>6, <1>7, <1>8, <1>9, <1>10, <1>11, <1>12, <1>13, Zenon DEF OwnerStep

\* every step of a task,
LEMMA TaskSteps == ASSUME Inv, NEW t \in Tasks, TaskStep(t) PROVE Inv'
<1>0. t \in Procs /\ t \notin Owners
  BY Kinds DEF Procs
<1>1. ASSUME NEW u \in Tasks, announce(t, u) PROVE Inv'
  BY <1>1, Announce
<1>2. ASSUME Running(t), pc[t] = "run", NEW s \in Owners, reserve_with(t, s) PROVE Inv'
  <2>1. status[t] = "running"
    BY <1>2 DEF Running
  <2> QED
    BY <1>0, <1>2, <2>1, Reserve
<1>3. ASSUME push(t) PROVE Inv'
  BY <1>0, <1>3, Push
<1>4. ASSUME enroll(t) PROVE Inv'
  BY <1>4, Enroll
<1>5. ASSUME leave_wait(t) PROVE Inv'
  BY <1>5, LeaveWait
<1>6. ASSUME park(t) PROVE Inv'
  BY <1>6, Park
<1>7. ASSUME wake(t) PROVE Inv'
  BY <1>7, Wake
<1>8. ASSUME NEW st \in {"completed", "panicked"}, complete_task(t, st) PROVE Inv'
  BY <1>8, CompleteTask
<1>9. ASSUME drain(t) PROVE Inv'
  BY <1>9, Drain
<1>10. ASSUME queue_completion(t) PROVE Inv'
  BY <1>10, QueueCompletion
<1>11. ASSUME spawn(t) PROVE Inv'
  <2>1. /\ pc[t] = "run" /\ pc' = [pc EXCEPT ![t] = "spawn"] /\ status[t] = "running"
        /\ UNCHANGED <<config, status, home, carrier, observed, scope, record_count, next_task, loads,
                       registered, waiters, retired_tasks, completions, publishing, aborting, report,
                       obj, in_flight>>
    BY <1>11 DEF spawn, Goto, Running, recVars, admVars, joinVars, kernelVars
  <2> QED
    BY <2>1, Spawn
<1>12. ASSUME reserve_local(t) PROVE Inv'
  BY <1>12, ReserveLocal
<1> QED
  BY <1>1, <1>2, <1>3, <1>4, <1>5, <1>6, <1>7, <1>8, <1>9, <1>10, <1>11, <1>12 DEF TaskStep

\* every step of a carrier,
LEMMA KernelSteps == ASSUME Inv, NEW c \in Carriers, KernelStep(c) PROVE Inv'
<1>1. ASSUME receive(c) PROVE Inv'
  BY <1>1, Receive
<1>8. ASSUME receive_local(c) PROVE Inv'
  BY <1>8, ReceiveLocal
<1>2. ASSUME flush_completions(c) PROVE Inv'
  BY <1>2, FlushCompletions
<1>3. ASSUME publish_completions(c) PROVE Inv'
  BY <1>3, PublishCompletions
<1>4. ASSUME end_abort(c) PROVE Inv'
  BY <1>4, EndAbort
<1>5. ASSUME NEW t \in Tasks, dispatch(c, t) PROVE Inv'
  BY <1>5, Dispatch
<1>6. ASSUME NEW t \in Tasks, discard(c, t) PROVE Inv'
  BY <1>6, Discard
<1>7. ASSUME NEW s \in Owners, begin_abort(c, s) PROVE Inv'
  BY <1>7, BeginAbort
<1> QED
  BY <1>1, <1>2, <1>3, <1>4, <1>5, <1>6, <1>7, <1>8 DEF KernelStep

\* and so every step of the runtime.
LEMMA InvNext == Inv /\ [Next]_vars => Inv'
<1> SUFFICES ASSUME Inv, [Next]_vars PROVE Inv'
  OBVIOUS
<1>1. CASE Next
  BY <1>1, OwnerSteps, TaskSteps, KernelSteps DEF Next
<1>2. CASE UNCHANGED vars
  <2>1. /\ UNCHANGED <<config, scope, status, home, carrier, observed, next_task, record_count, loads,
                       waiters, registered, pc, obj, in_flight, completions, publishing, aborting,
                       retired_tasks, report>>
    BY <1>2 DEF vars, recVars, admVars, joinVars, kernelVars
  <2>2. Settled'
    BY <2>1, Parts, TaskFrame, GoneTerminal
  <2>3. Joins'
    BY <2>1, Parts, JoinFrame
  <2>4. Types' /\ StatusPlace' /\ Carrying'
    BY <2>1, Parts DEF Types, StatusPlace, Carrying
  <2> QED
    BY <2>2, <2>3, <2>4 DEF Inv
<1> QED
  BY <1>1, <1>2

-----------------------------------------------------------------------------
(* What the runtime promises of a scope *)

\* The parts of Inv hold in every reachable state: admission, rollback,
\* eviction, batches and joins keep their books with the tasks, in
\* control_placement.rs, control_admission.rs, kernel.rs and completion.rs.
THEOREM ScopeInvariance == Spec => []Inv
BY InvInit, InvNext, PTL DEF Spec

\* control_scope_progress.rs:88, control_placement.rs:79: the counters of
\* records, credits, loads and waiters agree with the tasks, so that no
\* checked_sub of the runtime fails, however many scopes share its carriers.
THEOREM CountsStayAgreed == Spec => []CountsAgree
<1>1. Inv => CountsAgree
  BY Parts, Counted DEF Joins
<1> QED
  BY <1>1, ScopeInvariance, PTL

\* runtime_scope.rs:93: an owner gives its scope up only when every task the
\* scope admitted was reclaimed and its batch published, the local children
\* included that its tasks admitted after it was closed.
THEOREM ScopesAreDrained == Spec => []ScopeDrained
<1>1. Inv => ScopeDrained
  BY Parts
<1> QED
  BY <1>1, ScopeInvariance, PTL

\* control_scope.rs:207: the report of a root scope names every failure that
\* no handle took, although records are evicted and failures batched.
THEOREM FailuresAreReported == Spec => []FailuresReported
<1>1. Inv => FailuresReported
  BY Parts
<1> QED
  BY <1>1, ScopeInvariance, PTL

=============================================================================
