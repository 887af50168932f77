\* Two variables, three arguments, integers of two and three bits.
CONSTANTS
  Handles = {s1, s2}
  Values <- MCValues
  Strings <- MCStrings
  Contents = {3}
  Empty = 0
  Cut <- MCCut
  Base <- MCBase
  Numeral <- MCNumeral
  Default <- MCDefault
  MaxCode = 2
  Failed = 2
  Codes = {c1}
  Idents = {7}
  MaxArgs = 3
  MaxOthers = 1
  Half32 = 2
  Half64 = 4
  Gone = Gone
  Null = Null
SPECIFICATION LuaSpec
INVARIANT LuaSafe
INVARIANT ComesBack
PROPERTY ListSpec
CHECK_DEADLOCK FALSE
