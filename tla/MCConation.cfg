\* Two objects, a value, a text and a file; streams of up to two arguments.
CONSTANTS
  Objects = {s1, s2}
  b = b
  t = t
  f = f
  Args <- MCArgs
  TypeOf <- MCTypeOf
  Text <- MCText
  Commands = {c1}
  Flags = {1}
  Idents = {3}
  IdentValues = 4
  Gone = Gone
  Null = Null
  MaxArgs = 2
  MaxOnWire = 2
  MaxList = 2
  MaxStreamArgsSize = 26
  NET_MAX_CHUNK_SIZE = 20
  Fragments = {9}
SPECIFICATION ConationFairSpec
INVARIANT Safe
INVARIANT ChecksAgree
PROPERTY ListSpec
PROPERTY Delivered
CHECK_DEADLOCK FALSE
