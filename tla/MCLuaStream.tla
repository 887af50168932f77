---------------------------- MODULE MCLuaStream -----------------------------
\* LuaStream with arguments that are taken whole, changed or refused.
EXTENDS LuaStream

\* "", "2", a path to a file "2", and "2" with a NUL and more behind it.
MCStrings == {0, 1, 2, 3}
MCCut(s) == IF s = 3 THEN 1 ELSE s
MCBase(s) == IF s = 2 THEN 1 ELSE s
MCNumeral(s) == IF s \in {1, 3} THEN 2 ELSE 0
MCDefault(c) == 1

Text(s) == Lua("string", s)
Num(n) == Lua("number", n)
Value(type, vals) == [type |-> type, vals |-> vals]

\* 9 is a number that is no integer.
MCValues ==
  {Value("ODHEADER", <<Text(3), Text(1)>>), Value("STRING", <<Text(3)>>),
   Value("UINT64", <<Num(-3)>>), Value("INT32", <<Num(3)>>), Value("UINT32", <<Num(-1)>>),
   Value("INT64", <<Num(9)>>), Value("BINSTREAM", <<Text(3)>>),
   Value("NETCMDSTATUS", <<Num(1), Text(0)>>), Value("NETCMDSTATUS", <<Lua("boolean", 1)>>),
   Value("FILE", <<Text(2)>>), Value("FILE", <<Text(3), Lua("nil", 0)>>),
   Value("FILE", <<Text(2), Text(1)>>), Value("NETCMDSTATUS", <<Num(3)>>),
   Value("BOOL", <<Lua("boolean", 1)>>), Value("BOOL", <<Num(1)>>), Value("NONE", <<>>)}
=============================================================================
