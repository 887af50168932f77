\* Three streams over two connections.
CONSTANTS
  Streams = {s1, s2, s3}
  NoStream = NoStream
  MaxConn = 2
SPECIFICATION FairSpec
CHECK_DEADLOCK FALSE
INVARIANT IInv
PROPERTY InboxSpec
PROPERTY Progress
