SPECIFICATION MCSpec
CONSTANTS
  s1 = s1
  s2 = s2
  r1 = r1
  r2 = r2
  SendTasks = {s1, s2}
  RecvTasks = {r1, r2}
  BufferCapacity = 1
  WaitCapacity = 2
  ChannelCalls = 1
INVARIANT FrontAwake
PROPERTY CallsReturn
CHECK_DEADLOCK FALSE
