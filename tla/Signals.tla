------------------------------ MODULE Signals ------------------------------
\* What carries a wake or a cancellation to a task: the waits of CancelTask
\* beside the queue of wake notices and the graph of tokens, each under
\* variables of its own.
EXTENDS CancelTask

CONSTANTS Capacity, MaxNotices, NoNotice, MaxIds, RetirementBatch, Ancestries
VARIABLES
  head, consumer, next, slot, issued, ppc, phead, opc, oindex, oreversed, ohead,
  token, left, retained, sent, ahead, alarm, got,
  node, graph, live, retired, due, known, dirty, ancestors, requested

Queue == INSTANCE WakeQueue
Graph == INSTANCE CancelGraph WITH Seeds <- Ancestries, next <- node

ASSUME QueueAssumption == Queue!WakeQueueAssumption
ASSUME GraphAssumption == Graph!CancelGraphAssumption

\* wait_hub.rs:77: a discard misses no notice of its registration.
DiscardComplete == Queue!DiscardComplete
\* wake_queue_core.rs:94: the wake list hands out notices first in, first out.
ImplementsFifo == Queue!ImplementsFifo
\* cancellation_graph.rs:190: a token is cancelled exactly with an ancestor.
CancelExact == Graph!CancelExact
=============================================================================
