\* Interval is four times Pingout, as in netcore.h.
CONSTANTS
  Interval = 12
  Pingout = 3
  Delay = 1
  Handshake = 2
SPECIFICATION Spec
INVARIANT Safe
INVARIANT DeadClientDropped
INVARIANT NodeComesBack
