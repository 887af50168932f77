\* Two threads push two streams over two connections.
CONSTANTS
  Streams = {s1, s2}
  NoStream = NoStream
  Pushers = {p1, p2}
  MaxConn = 2
  MaxPosts = 1
  ExitVisible = TRUE
SPECIFICATION FairSpec
CHECK_DEADLOCK FALSE
INVARIANT IInv
PROPERTY OutboxSpec
PROPERTY Drains
PROPERTY StopReturns
