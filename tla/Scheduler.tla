----------------------------- MODULE Scheduler -----------------------------
\* The kernel and, beside it, its ready queue under any arrivals.
EXTENDS Kernel

CONSTANT MaxLane
VARIABLE lanes

Order == INSTANCE ReadyOrder

\* ready_queue.rs:6: an entry with N older ones is served within 4 * (N + 1)
\* selections.
HeadsServed == Order!HeadsServed
=============================================================================
