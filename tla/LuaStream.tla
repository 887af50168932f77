------------------------------ MODULE LuaStream ------------------------------
(***************************************************************************)
(* What a script of a node sees of Conation streams: the class             *)
(* VL.ConationStream (node/script.cpp), a Lua table around a               *)
(* ConationStream, with its calls to make, clone, fill, read and answer    *)
(* one.  A script is any order of calls.  An exception that a call lets    *)
(* out passes the Lua interpreter and the job, and ends the node.          *)
(*                                                                         *)
(* Half32 and Half64 are 2^31 and 2^63 of the code; an integer of Lua (5.3)  *)
(* has 64 bits.  Texts are numbered.                                       *)
(***************************************************************************)
EXTENDS Integers, Sequences, SequencesExt, FiniteSetsExt

CONSTANTS
  Handles,     \* the script's variables
  Values,      \* what it pushes: a type, and Lua values, [kind, is] each
  Strings,     \* the texts, Empty among them
  Contents,    \* those that the files hold
  Empty,
  Cut(_),      \* a text up to its first NUL, which is what a C string has of it
  Base(_),     \* StripPathFromFilename
  Numeral(_),  \* the number that a text is a numeral of, or 0
  Default(_),  \* the message of a status code that comes without one
  MaxCode, Failed,  \* STATUS_MAXPOPULATED and STATUS_FAILED
  Codes, Idents,
  MaxArgs,     \* bound: arguments of all streams together
  MaxOthers,   \* bound: those of them that are no ODHEADER and no STRING
  Half32, Half64,
  Gone, Null

-----------------------------------------------------------------------------
(* Values                                                                  *)

Unsigned(n, half) == n % (2 * half)
\* A mistake one could make: the sign forgotten.
SignLost(n, half) == Unsigned(n, half)
Signed(n, half) ==
  IF Unsigned(n, half) < half THEN Unsigned(n, half) ELSE Unsigned(n, half) - 2 * half
Number(half) == -half..(half - 1)

Integral == {"INT32", "UINT32", "INT64", "UINT64"}
CTexts == {"STRING", "SCRIPT", "FILEPATH", "ODHEADER"}

Lua(kind, is) == [kind |-> kind, is |-> is]

\* lua_tointeger.  Numbers that are no integer of 64 bits are those outside the
\* range.
ToInteger(x) ==
  CASE x.kind = "number" /\ x.is \in Number(Half64) -> x.is
    [] x.kind = "string" -> Numeral(x.is)
    [] OTHER -> 0

Kinds(v) == [k \in DOMAIN v.vals |-> v.vals[k].kind]

\* What the case of the type lets pass.  A status may be of any kind that is
\* taken for a number in range, with a text or without.  The contents of a file
\* must have 0 for their lua_type, which is that of nil.
Accepts(v) ==
  \/ v.type \in Integral /\ Kinds(v) = <<"number">>
  \/ v.type = "BOOL" /\ Kinds(v) = <<"boolean">>
  \/ v.type \in {"STRING", "SCRIPT", "FILEPATH", "BINSTREAM"} /\ Kinds(v) = <<"string">>
  \/ v.type = "ODHEADER" /\ Kinds(v) = <<"string", "string">>
  \/ v.type = "FILE" /\ Kinds(v) \in {<<"string">>, <<"string", "nil">>}
  \/ /\ v.type = "NETCMDSTATUS" /\ Len(v.vals) \in {1, 2}
     /\ ToInteger(v.vals[1]) \in 0..MaxCode
     /\ Len(v.vals) = 2 => v.vals[2].kind = "string"
IsPath(v) == v.type = "FILE" /\ Len(v.vals) = 1

\* NetCmdStatus: no code is that of a failure, no message the code's own.
Code(x) == IF ToInteger(x) = 0 THEN Failed ELSE ToInteger(x)
Message(v) ==
  IF Len(v.vals) = 2 /\ Cut(v.vals[2].is) # Empty
  THEN Cut(v.vals[2].is) ELSE Default(Code(v.vals[1]))

\* The fields of the argument that Lua values are converted to; contents is what
\* the file of a path has in it.
Stored(v, contents) ==
  LET x == v.vals[1] IN
  CASE v.type = "INT32" -> <<Signed(ToInteger(x), Half32)>>
    [] v.type = "UINT32" -> <<Unsigned(ToInteger(x), Half32)>>
    [] v.type = "INT64" -> <<Signed(ToInteger(x), Half64)>>
    [] v.type = "UINT64" -> <<Unsigned(ToInteger(x), Half64)>>
    [] v.type = "NETCMDSTATUS" -> <<Code(x), Message(v)>>
    [] v.type = "FILE" -> IF IsPath(v) THEN <<Base(Cut(x.is)), contents>> ELSE <<Cut(x.is), Empty>>
    [] v.type \in CTexts -> [k \in DOMAIN v.vals |-> Cut(v.vals[k].is)]
    [] OTHER -> <<x.is>>

\* from is not in the code: it is what the script pushed.
Argument(v, contents) == [type |-> v.type, value |-> Stored(v, contents), from |-> v.vals]

\* An ODHEADER the other way round.
Turned(a) ==
  [type |-> a.type, value |-> <<a.value[2], a.value[1]>>, from |-> <<a.from[2], a.from[1]>>]
Pushable == {v \in Values : Accepts(v)}
Pushed == {Argument(v, contents) : v \in Pushable, contents \in Contents}
Arguments == Pushed \cup {Turned(a) : a \in {x \in Pushed : x.type = "ODHEADER"}}

\* The Lua values of an argument, behind its type: an unsigned of 64 bits is read
\* as a signed one, "we just have to hope it fits", and a status begins with
\* whether it went well, OK and WARN.
Given(a) ==
  CASE a.type \in {"INT64", "UINT64"} -> <<Lua("number", Signed(a.value[1], Half64))>>
    [] a.type \in {"INT32", "UINT32"} -> <<Lua("number", a.value[1])>>
    [] a.type = "BOOL" -> <<Lua("boolean", a.value[1])>>
    [] a.type = "NETCMDSTATUS" ->
         <<Lua("boolean", IF a.value[1] \in {1, 4} THEN 1 ELSE 0),
           Lua("number", a.value[1]), Lua("string", a.value[2])>>
    [] OTHER -> [k \in DOMAIN a.value |-> Lua("string", a.value[k])]

-----------------------------------------------------------------------------
(* Streams                                                                 *)

Stream(header, args, place, stale) ==
  [header |-> header, args |-> args, place |-> place, stale |-> stale]
Fresh(header, args) == Stream(header, args, 0, FALSE)
Header(code, report, ident) == [code |-> code, report |-> report, ident |-> ident]

Headers == [code : Codes, report : BOOLEAN, ident : Idents]
Streams == [header : Headers, args : Seq(Arguments), place : Nat, stale : BOOLEAN]

ASSUME LuaAssumption ==
  /\ Half32 \in Nat \ {0} /\ Half64 \in Nat /\ Half64 >= 2 * Half32 /\ MaxArgs \in Nat
  /\ MaxCode \in Nat /\ MaxCode < Half64 /\ Failed \in 1..MaxCode
  /\ Values \subseteq [type : STRING, vals : Seq([kind : STRING, is : Int])]
  /\ \A v \in Values : \A k \in DOMAIN v.vals : v.vals[k].kind = "string" => v.vals[k].is \in Strings
  /\ Strings \subseteq Int /\ Empty \in Strings /\ Contents \subseteq Strings
  /\ \A s \in Strings : /\ Cut(s) \in Strings /\ Cut(Cut(s)) = Cut(s)
                        /\ Base(s) \in Strings /\ Cut(Base(Cut(s))) = Base(Cut(s))
                        /\ Numeral(s) \in Number(Half64)
  /\ \A c \in 1..MaxCode : Default(c) \in Strings \ {Empty} /\ Cut(Default(c)) = Default(c)
  /\ Gone \notin Headers \cup Streams

VARIABLES
  object,    \* Handles -> stream, or Gone
  self,      \* the handle that was called
  popped,    \* what the call gave the script, if it was a pop
  died,      \* the call whose exception ended the node, or ""
  given      \* history: what each stream was popped of, through a place that
             \* holds, since it was at its start

luaVars == <<object, self, popped, died, given>>

Live(h) == died = "" /\ object[h] # Gone
Has(h) == object[h].args
IsOther(a) == a.type \notin {"ODHEADER", "STRING"}
Size == FoldFunction(LAMBDA o, n : IF o = Gone THEN n ELSE n + Len(o.args), 0, object)
OtherArgs ==
  FoldFunction(LAMBDA o, n : IF o = Gone THEN n ELSE n + Len(SelectSeq(o.args, IsOther)), 0, object)
Types(h) == [k \in DOMAIN Has(h) |-> Has(h)[k].type]

Returns(h, what) == self' = h /\ popped' = what
Changes(h, o) ==
  /\ object' = [object EXCEPT ![h] = o]
  /\ given' = [given EXCEPT ![h] = IF o = Gone THEN <<>> ELSE SubSeq(@, 1, o.place)]
Quiet(h) == Returns(h, Null) /\ UNCHANGED <<object, died, given>>
Throws(h, call) == died' = call /\ Returns(h, Null) /\ UNCHANGED <<object, given>>

\* VerifyLuaFuncArgs, or no VL_INTRNL in the table: the call returns nothing.
NotAStream(h) == died = "" /\ object[h] = Gone /\ Quiet(h)

\* VL.ConationStream.New of a code, flags and an ident.
New(h, code, ident) ==
  /\ died = "" /\ object[h] = Gone
  /\ Changes(h, Fresh(Header(code, FALSE, ident), <<>>))
  /\ Returns(h, Null) /\ UNCHANGED died

\* A mistake one could make: the copy constructor, with the place in the list.
CloneWithPlace(t, h) ==
  /\ Live(h) /\ object[t] = Gone /\ t # h /\ Size + Len(Has(h)) <= MaxArgs
  /\ object' = [object EXCEPT ![t] = object[h]]
  /\ Returns(t, Null) /\ UNCHANGED <<died, given>>

\* New of a stream, of a worker's or a job's, and of the bytes GetData gave.
Clone(t, h) ==
  /\ Live(h) /\ object[t] = Gone /\ t # h /\ Size + Len(Has(h)) <= MaxArgs
  /\ Changes(t, Fresh(object[h].header, Has(h)))
  /\ Returns(t, Null) /\ UNCHANGED died

\* The table is collected, and with it the stream.
Collect(h) ==
  /\ Live(h) /\ Changes(h, Gone) /\ Returns(h, Null) /\ UNCHANGED died

\* Index points into the vector: a push that has to move the vector leaves it
\* pointing to where it was.
Put(h, a) ==
  \E moved \in IF object[h].place = 0 THEN {FALSE} ELSE BOOLEAN :
    /\ Changes(h, Stream(object[h].header, Append(Has(h), a), object[h].place,
                         object[h].stale \/ moved))
    /\ Returns(h, Null) /\ UNCHANGED died

\* A file is read from its path; when that is not there, the exception is not caught.
Push(h, v) ==
  /\ Live(h)
  /\ \/ /\ Accepts(v) /\ Size < MaxArgs /\ (IsOther(v) => OtherArgs < MaxOthers)
        /\ \E contents \in Contents : Put(h, Argument(v, contents))
     \/ Accepts(v) /\ IsPath(v) /\ Throws(h, "Push_File")
     \/ ~Accepts(v) /\ Quiet(h)

Steps(h) == Stream(object[h].header, Has(h), object[h].place + 1, FALSE)
Gives(h) ==
  /\ object' = [object EXCEPT ![h] = Steps(h)]
  /\ given' = [given EXCEPT ![h] = Append(@, Has(h)[object[h].place + 1])]
  /\ Returns(h, Has(h)[object[h].place + 1])

\* A mistake one could make: the first argument looked at twice.
PopTwice(h) ==
  /\ Live(h) /\ ~object[h].stale /\ object[h].place < Len(Has(h))
  /\ object' = [object EXCEPT ![h] = Steps(h)]
  /\ given' = [given EXCEPT ![h] = Append(@, Has(h)[1])]
  /\ Returns(h, Has(h)[1]) /\ UNCHANGED died

\* Through a place that points into freed memory, what is read may be an
\* argument that was there, the next one or another, nothing, or what ends the node.
PopStale(h) ==
  \/ Throws(h, "Pop")
  \/ \E a \in Arguments \cup {Null} : Returns(h, a) /\ UNCHANGED <<object, died, given>>

\* Pop gives the next argument, or nothing when there is none.
Pop(h) ==
  /\ Live(h)
  /\ \/ ~object[h].stale /\ object[h].place < Len(Has(h)) /\ Gives(h) /\ UNCHANGED died
     \/ ~object[h].stale /\ object[h].place = Len(Has(h)) /\ Quiet(h)
     \/ object[h].stale /\ PopStale(h)

\* The step of for ... in stream:Iter(): a pop, packed into a table.
DoCSIter(h) == Pop(h)

\* The list of the types: there is none for a stream without arguments, and what
\* is not there is looked into.
GetArgTypes(h) ==
  /\ Live(h)
  /\ IF Has(h) = <<>> THEN Throws(h, "GetArgTypes") ELSE Quiet(h)

\* Reading what is there: CountArguments, GetHeader, GetData,
\* GetArgData, VerifyArgTypes and VerifyArgTypesStartWith, and SendStream,
\* which sends a copy; Iter gives the function of the loop.
CountArguments(h) == Live(h) /\ Quiet(h)
GetHeader(h) == Live(h) /\ Quiet(h)
GetData(h) == Live(h) /\ Quiet(h)
GetArgData(h) == Live(h) /\ Quiet(h)
VerifyArgs(h) == Live(h) /\ Quiet(h)
SendStream(h) == Live(h) /\ Quiet(h)
GetCSIter(h) == Live(h) /\ Quiet(h)

Rewind(h) ==
  /\ Live(h)
  /\ Changes(h, Fresh(object[h].header, Has(h)))
  /\ Returns(h, Null) /\ UNCHANGED died

JobTypes == <<"ODHEADER", "STRING", "STRING">>

\* The three arguments that EXECFUNC puts before those of the function; a
\* stream that has others throws.
PopJobArguments(h) ==
  /\ Live(h)
  /\ IF IsPrefix(JobTypes, Types(h))
     THEN /\ object' = [object EXCEPT ![h] = Stream(object[h].header, Has(h), 3, FALSE)]
          /\ given' = [given EXCEPT ![h] = SubSeq(Has(h), 1, 3)]
          /\ Returns(h, Null) /\ UNCHANGED died
     ELSE Throws(h, "PopJobArguments")

Reply(h) ==
  Fresh(Header(object[h].header.code, TRUE, object[h].header.ident),
        IF Types(h)[1] = "ODHEADER" THEN <<Turned(Has(h)[1])>> ELSE <<>>)

\* BuildResponse: a report of the same command and ident, from where the first
\* ODHEADER says the stream went to where it came from; it peeks at a copy.  A
\* stream with no arguments throws.
BuildResponse(t, h) ==
  /\ Live(h) /\ object[t] = Gone /\ t # h /\ Size < MaxArgs
  /\ IF Has(h) = <<>> THEN Throws(h, "BuildResponse")
     ELSE Changes(t, Reply(h)) /\ Returns(t, Null) /\ UNCHANGED died

-----------------------------------------------------------------------------
LuaInit ==
  /\ object = [h \in Handles |-> Gone]
  /\ self \in Handles /\ popped = Null /\ died = ""
  /\ given = [h \in Handles |-> <<>>]

Reads(h) ==
  \/ CountArguments(h) \/ GetArgTypes(h) \/ GetHeader(h) \/ GetData(h) \/ GetArgData(h)
  \/ VerifyArgs(h) \/ SendStream(h) \/ GetCSIter(h)

LuaNext ==
  \E h \in Handles :
    \/ NotAStream(h) \/ Collect(h) \/ Pop(h) \/ DoCSIter(h) \/ Reads(h) \/ Rewind(h)
    \/ PopJobArguments(h)
    \/ \E code \in Codes, ident \in Idents : New(h, code, ident)
    \/ \E v \in Values : Push(h, v)
    \/ \E t \in Handles : Clone(t, h) \/ BuildResponse(t, h)

LuaSpec == LuaInit /\ [][LuaNext]_luaVars

-----------------------------------------------------------------------------
LuaTypeOK ==
  /\ object \in [Handles -> Streams \cup {Gone}] /\ given \in [Handles -> Seq(Arguments)]
  /\ \A h \in Handles : object[h] # Gone => object[h].place <= Len(Has(h))
  /\ self \in Handles /\ popped \in Arguments \cup {Null}
  /\ died \in {"", "Push_File", "Pop", "GetArgTypes", "PopJobArguments", "BuildResponse"}

\* Is the k-th Lua value of a push one that the argument has room for: a number
\* of its width; a text without NUL; a code that is a number and not 0, and a
\* message that is not empty; of a file's path, one without directories.
Survives(a, k) ==
  LET x == a.from[k] IN
  CASE a.type = "INT32" -> x.is \in Number(Half32)
    [] a.type = "UINT32" -> x.is \in 0..(2 * Half32 - 1)
    [] a.type \in {"INT64", "UINT64"} -> x.is \in Number(Half64)
    [] a.type = "NETCMDSTATUS" ->
         IF k = 1 THEN x.kind = "number" /\ x.is \in 1..MaxCode ELSE Cut(x.is) = x.is /\ x.is # Empty
    [] a.type = "FILE" ->
         x.kind = "string" /\ Cut(x.is) = x.is /\ (Len(a.from) = 1 => Base(x.is) = x.is)
    [] a.type \in CTexts -> Cut(x.is) = x.is
    [] OTHER -> TRUE
GivenBack(a) == IF a.type = "NETCMDSTATUS" THEN Tail(Given(a)) ELSE Given(a)

\* A value that was pushed comes back as it was exactly when the argument has room
\* for it; the others come back changed and no call says so.
ComesBack ==
  \A h \in Handles :
    object[h] # Gone =>
      \A i \in DOMAIN Has(h) : \A k \in DOMAIN Has(h)[i].from :
        Survives(Has(h)[i], k) <=> GivenBack(Has(h)[i])[k] = Has(h)[i].from[k]

\* Popping and iterating, in any mix and with any other calls between them, give
\* every argument once and in order from where the stream was last at its start;
\* a clone and a reply start there.  Not so a pop through a place that a push
\* between two pops left behind: nothing is said of what that gives.
GivenOnce ==
  \A h \in Handles :
    object[h] # Gone => given[h] = SubSeq(Has(h), 1, object[h].place)

\* Every stream a script holds is well formed, and it has given its arguments
\* once and in order.
LuaSafe == LuaTypeOK /\ GivenOnce

\* What the call gave, if the place it went by held.
Told == IF object[self] # Gone /\ object[self].stale THEN Null ELSE popped

\* A stream of a script is an argument list (ArgList), for every order of calls
\* up to the one that ends the node, but for what is popped through a place that
\* a push left behind.
List == INSTANCE ArgList WITH
  Objects <- Handles, Args <- Arguments, Headers <- Headers, Nothing <- Null,
  header <- [h \in Handles |-> IF object[h] = Gone THEN Gone ELSE object[h].header],
  content <- [h \in Handles |-> IF object[h] = Gone THEN <<>> ELSE object[h].args],
  place <- [h \in Handles |-> IF object[h] = Gone THEN 0 ELSE object[h].place],
  popped <- Told, channel <- <<>>
ListSpec == List!Spec
=============================================================================
