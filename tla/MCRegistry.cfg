\* Two nodes, with a token each or the same one.
CONSTANTS
  Nodes = {n1, n2}
  Tokens = {t1, t2}
  Groups = {g0, g1}
  NoGroup = g0
  Revisions = {r1, r2}
  None = None
SPECIFICATION Spec
SYMMETRY Symmetry
INVARIANT Safe
INVARIANT AdminViewCurrent
INVARIANT KilledStaysOut
PROPERTY GroupKept
