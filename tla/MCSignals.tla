----------------------------- MODULE MCSignals -----------------------------
\* What carries a wake or a cancellation to a task, explored side by side: the
\* queue of wake notices, the graph of tokens, and its delivery to tasks.
\* Checkpoints and waits touch disjoint state of a task, so they need not be
\* interleaved with each other.
EXTENDS Signals, TLC

VARIABLE part

MCAncestries == {<<{}, {0}, {0}, {1, 2}, {1, 2}, {3, 4}, {3, 4}>>,
                 <<{}, {0}, {0}, {1, 2}, {1, 3}, {3, 4}>>}
ASSUME DeliveryAssumption == CancelTaskAssumption

queueVars == <<head, consumer, next, slot, issued, ppc, phead, opc, oindex, oreversed,
               ohead, token, left, retained, sent, ahead, alarm, got>>
graphVars == <<node, graph, live, retired, due, known, dirty, ancestors, requested>>

MCInit ==
  /\ Init /\ Graph!Init /\ Queue!Init
  /\ part \in {"check", "wait", "graph", "queue"}
  /\ part # "graph" => node = MaxIds
MCNext ==
  \/ /\ part = "check" /\ (Tasks \/ Checkpoints \/ Cancels)
     /\ UNCHANGED <<graphVars, queueVars, part>>
  \/ /\ part = "wait" /\ (Tasks \/ Parking \/ Cancels)
     /\ UNCHANGED <<graphVars, queueVars, part>>
  \/ part = "graph" /\ Graph!Next /\ UNCHANGED <<vars, queueVars, part>>
  \/ part = "queue" /\ Queue!Next /\ UNCHANGED <<vars, graphVars, part>>
MCSpec == MCInit /\ [][MCNext]_<<vars, graphVars, queueVars, part>>

Symmetry == Permutations(Executions) \cup Permutations(Parkers)
=============================================================================
