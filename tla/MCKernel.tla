------------------------------ MODULE MCKernel ------------------------------
(* Finite instances of Kernel: two owned tasks that reuse a slot, an owner *)
(* with two borrowed children, and two owners of which one has a child     *)
(* while the scope of the other is aborted.  A part of its own, beside the *)
(* first cast, is the ready queue under any arrivals.                      *)
EXTENDS Scheduler

VARIABLE part

MCOwnerOf == [k \in Kids |-> "r1"]
MCScopeOf == [r \in Roots |-> IF r = "r1" THEN "s1" ELSE "s2"]
Reuse == [tasks |-> {"r1", "r2"}, aborts |-> {"s1", All}]
MCCasts ==
  {Reuse,
   [tasks |-> {"r1", "k1", "k2"}, aborts |-> {"s1"}],
   [tasks |-> {"r1", "r2", "k1"}, aborts |-> {"s2"}]}

MCInit ==
  /\ Init /\ Order!Init
  /\ part \in {"kernel", "order"}
  /\ part = "order" => requests[All] = "none"

MCNext ==
  \/ part = "kernel" /\ Next /\ UNCHANGED <<part, lanes>>
  \/ part = "order" /\ Order!Next /\ UNCHANGED <<part, vars>>

MCSpec == MCInit /\ [][MCNext]_<<vars, part, lanes>>
=============================================================================
