\* Two nodes, two tokens, an item, and the setting of the login.
CONSTANTS
  Nodes = {n1, n2}
  Admin = Admin
  Keys = {k1}
  Data = {d1}
  Tokens = {t1, t2}
  Grants <- MCGrants
  Settings = {logins}
  Values = {v1}
  AdminLogins = logins
  Empty = Empty
  Groups = {g1, g2}
  None = None
SPECIFICATION Spec
SYMMETRY Symmetry
INVARIANT Safe
PROPERTY OthersKept
