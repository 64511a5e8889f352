------------------------------ MODULE Services ------------------------------
\* The life of a runtime and its two services, the blocking pool and the
\* reactor, each with bounds of its own.
EXTENDS Lifecycle

CONSTANTS Readers, IoCapacity, Messages, Calls, IoFaults,
          Callers, Workers, PoolCapacity, PoolFaults
VARIABLES
  waits, closed, closing, driver, avail, sent, op, errors,
  queue, completed, running, discarding, stopped, failed, waiting,
  abandoned, output, winner, call, worker, panics

Reactor == INSTANCE Readiness WITH Capacity <- IoCapacity, MaxFaults <- IoFaults
Pool == INSTANCE Blocking WITH Capacity <- PoolCapacity, MaxFaults <- PoolFaults

\* readiness.rs:181: an entry never outlives its wait.
EntriesOwned == Reactor!EntriesOwned
\* blocking/pool.rs:116: what the pool owns is charged, within its capacity.
CapacityHeld == Pool!CapacityHeld
\* blocking.rs:78: a caller that Ready won finds its result.
ResultCommitted == Pool!ResultCommitted
=============================================================================
