------------------------------ MODULE Channels ------------------------------
\* A channel under names of its own, to stand beside the mutex in SyncProofs.
CONSTANTS SendTasks, RecvTasks, BufferCapacity, WaitCapacity, ChannelCalls
VARIABLES values, endpoints, closed, waits, place, cell, token, made

Chan == INSTANCE Channel WITH
  Capacity <- BufferCapacity, MaxCalls <- ChannelCalls,
  pc <- place, phase <- cell, permit <- token, calls <- made

ASSUME ChannelAssumption == Chan!ChannelAssumption

\* channel/wait.rs:28: the front of a line that could go on is awake.
FrontAwake == Chan!FrontAwake
=============================================================================
