----------------------------- MODULE MCServices -----------------------------
\* The life of a runtime beside its two services, the blocking pool and the
\* reactor, each of these with two sets of bounds: the initial state picks a
\* part and the others do not move.
EXTENDS Services

CONSTANT t1
VARIABLE part

\* The pool is full with two jobs and its workers do not fail, or with one and
\* they do; two readers fit into the reactor and it fails, or they take turns.
Narrow == INSTANCE Blocking WITH Capacity <- 1, MaxFaults <- 1
Once == [t \in Readers |-> 1]
Twice == [t \in Readers |-> IF t = t1 THEN 2 ELSE 1]
Again == INSTANCE Readiness WITH Capacity <- 1, Calls <- Twice, MaxFaults <- 0

ASSUME PoolAssumption == Narrow!BlockingAssumption /\ Pool!BlockingAssumption
ASSUME ReactorAssumption == Reactor!ReadinessAssumption /\ Again!ReadinessAssumption

poolVars == <<queue, completed, running, discarding, stopped, failed, waiting,
              abandoned, output, winner, call, worker, panics>>
reactorVars == <<waits, closed, closing, driver, avail, sent, op, errors>>
allVars == <<part, poolVars, reactorVars, vars>>

MCInit == /\ Narrow!Init /\ Reactor!Init /\ Init
          /\ part \in {"narrow", "wide", "reactor", "again", "life"}

MCNext ==
  \/ part = "narrow" /\ Narrow!Next /\ UNCHANGED <<part, reactorVars, vars>>
  \/ part = "wide" /\ Pool!Next /\ UNCHANGED <<part, reactorVars, vars>>
  \/ part = "reactor" /\ Reactor!Next /\ UNCHANGED <<part, poolVars, vars>>
  \/ part = "again" /\ Again!Next /\ UNCHANGED <<part, poolVars, vars>>
  \/ part = "life" /\ Next /\ UNCHANGED <<part, poolVars, reactorVars>>

CallerTurn(c) ==
  \/ part = "narrow" /\ Narrow!CallerStep(c)
  \/ part = "wide" /\ Pool!CallerStep(c)
WorkerTurn(w) ==
  \/ part = "narrow" /\ Narrow!WorkerStep(w)
  \/ part = "wide" /\ Pool!WorkerStep(w)
ReaderTurn(t) ==
  \/ part = "reactor" /\ Reactor!TaskStep(t)
  \/ part = "again" /\ Again!TaskStep(t)
DriverTurn ==
  \/ part = "reactor" /\ Reactor!DriverStep
  \/ part = "again" /\ Again!DriverStep
CloserTurn ==
  part \in {"reactor", "again"} /\ \E e \in closing : Reactor!select_closed(e)

\* The fairness of the modules, each in its own part.
MCFairness ==
  /\ \A c \in Callers : WF_poolVars(CallerTurn(c))
  /\ \A w \in Workers : WF_poolVars(WorkerTurn(w))
  /\ \A t \in Readers : WF_reactorVars(ReaderTurn(t))
  /\ WF_reactorVars(DriverTurn) /\ WF_reactorVars(CloserTurn)
  /\ \A r \in Runtimes :
       /\ WF_vars(part = "life" /\ CallerThread(r))
       /\ WF_vars(part = "life" /\ CarrierThread(r))
       /\ WF_vars(part = "life" /\ Coordinator(r))
       /\ WF_vars(part = "life" /\ run_reactor(r))
       /\ WF_vars(part = "life" /\ NativeThread(r))
  /\ WF_vars(part = "life" /\ OwnerThread)
MCSpec == MCInit /\ [][MCNext]_allVars /\ MCFairness

\* blocking/pool.rs:181: every call comes back and a stopped pool empties.
PoolSettles == Pool!PoolSettles
\* readiness/driver.rs:117: data, a stop or a failure wakes the reader.
ReadersWake == Reactor!ReadersWake
=============================================================================
