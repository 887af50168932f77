\* One node and ADMIN over three connections; no symmetry, for liveness.
CONSTANTS
  n1 = n1
  n2 = n2
  Nodes = {n1}
  Admin = ADMIN
  Rank <- MCRank
  Clients = {c1, c2, c3}
  None = None
  MaxStreams = 1
SPECIFICATION FairSpec
INVARIANT Safe
PROPERTY Served
PROPERTY BrokenRemoved
PROPERTY Answered
