------------------------------ MODULE MCScope ------------------------------
(* A finite instance of Scope: a root scope whose tasks join and spawn     *)
(* under every stall policy, a root scope at max_vthreads, local scopes    *)
(* below a root scope and below a supervisor, a supervisor that is given   *)
(* up and retried, and an owner of either kind side by side.               *)
EXTENDS Scope

CONSTANTS o1, o2

Workload(policy, n, owners, tasks, each, sharing, locals, joins, until) ==
  [stall |-> policy, carriers |-> n, owners |-> owners, tasks |-> tasks, each |-> each,
   sharing |-> sharing, locals |-> locals, joins |-> joins, until |-> until]

Workloads ==
  {Workload(policy, 2, {o1}, 2, 2, TRUE, FALSE, TRUE, FALSE) : policy \in {"off", "report", "abort"}}
  \cup {Workload("off", 2, {o1}, 3, 3, FALSE, FALSE, TRUE, FALSE),
        Workload("off", 1, {o1}, 3, 3, FALSE, TRUE, TRUE, FALSE),
        Workload("abort", 1, {o1}, 2, 2, FALSE, TRUE, FALSE, FALSE),
        Workload("off", 1, {o2}, 2, 2, FALSE, TRUE, FALSE, FALSE),
        Workload("off", 2, {o2}, 2, 2, FALSE, FALSE, FALSE, TRUE),
        Workload("off", 1, {o1, o2}, 2, 1, FALSE, FALSE, FALSE, FALSE)}
=============================================================================
