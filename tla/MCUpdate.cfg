\* One node, started twice, three things the administrator does, two faults.
CONSTANTS
  Binaries <- MCBinaries
  Forced <- MCForced
  First <- MCFirst
  Address = Address
  Token = Token
  Unset = Unset
  None = None
  Torn = Torn
  here = here
  there = there
  MaxStarts = 2
  MaxAdmin = 3
  MaxFaults = 2
SPECIFICATION Spec
CHECK_DEADLOCK FALSE
INVARIANT Safe
INVARIANT ServerKnows
PROPERTY KeepsIdentity
PROPERTY UpdateEnds
PROPERTY Converges
