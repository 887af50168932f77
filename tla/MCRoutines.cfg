\* One routine, two nodes, two crashes, two writes that fail.
CONSTANTS
  n1 = n1
  n2 = n2
  plain = plain
  bare = bare
  headed = headed
  Names = {r}
  Nodes <- MCNodes
  Streams = {plain, bare, headed}
  Bare = {bare}
  Headed = {headed}
  Inputs <- MCInputs
  None = None
  MaxCrashes = 2
  MaxFailures = 2
SPECIFICATION Spec
INVARIANT Safe
INVARIANT AckedOnDisk
INVARIANT OncePlusFaults
