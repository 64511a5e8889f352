------------------------------ MODULE FairLock ------------------------------
(***************************************************************************)
(* What a virtual mutex promises, without its queue lock, its ownership    *)
(* capability or its wait cells: one holder at most, a line of waiters     *)
(* served first come first served, nobody overtaking the line, and only a  *)
(* waiter that has given up leaving it unserved.                           *)
(***************************************************************************)
EXTENDS Sequences, SequencesExt

CONSTANT Tasks

VARIABLES
  holders,    \* who may touch the value or pass it on
  line,       \* the waiters, oldest first
  quit        \* the waiters in line that have given up

lockVars == <<holders, line, quit>>

LockInit == holders = {} /\ line = <<>> /\ quit = {}

Acquire(t) ==
  /\ holders = {} /\ line = <<>>
  /\ holders' = {t}
  /\ UNCHANGED <<line, quit>>

Join(t) ==
  /\ holders # {} /\ t \notin ToSet(line)
  /\ line' = Append(line, t)
  /\ UNCHANGED <<holders, quit>>

Quit(t) ==
  /\ t \in ToSet(line)
  /\ quit' = quit \cup {t}
  /\ UNCHANGED <<holders, line>>

Leave(t) ==
  /\ t \in quit
  /\ line' = RemoveFirst(line, t)
  /\ quit' = quit \ {t}
  /\ UNCHANGED holders

\* A waiter that gave up may still be handed the lock: it passes it on.
Pass ==
  /\ line # <<>>
  /\ holders' = {Head(line)}
  /\ line' = Tail(line)
  /\ quit' = quit \ {Head(line)}

Free ==
  /\ holders # {} /\ line = <<>>
  /\ holders' = {}
  /\ UNCHANGED <<line, quit>>

LockNext ==
  \/ \E t \in Tasks : Acquire(t) \/ Join(t) \/ Quit(t) \/ Leave(t)
  \/ Pass \/ Free

Fair == LockInit /\ [][LockNext]_lockVars
=============================================================================
