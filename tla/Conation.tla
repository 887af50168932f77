------------------------------ MODULE Conation -------------------------------
(* Conation::ConationStream (libvolition/conation.cpp): streams in memory as
   vectors of bytes with an iterator, and on their way between two programs
   (Net::Write and Net::Read of libvolition/netcore.cpp).

   The bytes behind the header are a sequence of cells, one for each argument
   that the vector has bytes of; a cell tells where its bytes end.  The text of
   an argument is a number of bytes; its size on the stream follows from its
   type.  Offsets, and Index, count from the start of the vector. *)
EXTENDS Integers, Sequences, SequencesExt

CONSTANTS
  Objects,            \* the ConationStream objects of the programs
  Args,               \* arguments
  TypeOf,             \* Args -> ArgTypes
  Text,               \* Args -> bytes of text, name or file
  Commands, Flags, Idents,
  IdentValues,        \* idents that fit beside the flags, 2^IDENT_NUM_IDENT_BITS
  Gone,               \* no object: not constructed, freed, or moved from
  Null,               \* no pointer, no argument
  MaxArgs,            \* bound on the arguments of a stream
  MaxOnWire,          \* bound on the streams sent and not read
  MaxList,            \* bound on the lists of types that handlers check against
  MaxStreamArgsSize,
  NET_MAX_CHUNK_SIZE,
  Fragments           \* sizes SSL_read may return besides all it is asked for

ArgTypes == {"NETCMDSTATUS", "INT32", "UINT32", "INT64", "UINT64", "BINSTREAM",
             "STRING", "FILEPATH", "SCRIPT", "FILE", "BOOL", "ODHEADER"}

\* A stream object: its vector and its Index.
StreamStates ==
  [header : [cmd : Commands, composite : Nat], declared : Nat,
   cells : Seq([arg : Args, end : Nat]), index : Nat \cup {Null}]

ASSUME ConationAssumption ==
  /\ TypeOf \in [Args -> ArgTypes] /\ Text \in [Args -> Nat]
  /\ IdentValues \in Nat \ {0} /\ Flags \subseteq Nat /\ Idents \subseteq 0..(IdentValues - 1)
  /\ Null \notin Args \cup Nat
  /\ Gone \notin StreamStates \cup [cmd : Commands, flags : Flags, ident : Idents]
  /\ MaxArgs \in Nat /\ MaxOnWire \in Nat /\ MaxList \in Nat /\ MaxStreamArgsSize \in Nat
  /\ NET_MAX_CHUNK_SIZE \in Nat \ {0} /\ Fragments \subseteq Nat \ {0}

VARIABLES
  stream,   \* Objects -> stream, or Gone
  popped,   \* what the operation returned, if it was a pop
  died,     \* the function that ended the program, or ""
  wire,     \* streams given to Net::Write and not read to their end
  sent,     \* bytes of the last of them that Net::Write has written
  read,     \* bytes of the first of them that the other side has read
  up        \* the connection

conationVars == <<stream, popped, died, wire, sent, read, up>>

STREAM_HEADER_SIZE == 17   \* code, size of the arguments, ident composite
ARG_HEADER_SIZE == 10      \* type and size

-----------------------------------------------------------------------------
(* Sizes *)

\* CheckValidSize: the types with one size.
FixedSize ==
  [t \in {"INT32", "UINT32", "INT64", "UINT64", "BOOL"} |->
     CASE t \in {"INT32", "UINT32"} -> 4 [] t = "BOOL" -> 1 [] OTHER -> 8]

\* What a type adds to its text: a status code, the zeros that end names.
Overhead(t) == CASE t \in {"NETCMDSTATUS", "FILE"} -> 1 [] t = "ODHEADER" -> 2 [] OTHER -> 0

SizeOf(a) ==
  IF TypeOf[a] \in DOMAIN FixedSize THEN FixedSize[TypeOf[a]]
                                    ELSE Overhead(TypeOf[a]) + Text[a]

CellSize(a) == ARG_HEADER_SIZE + SizeOf(a)

\* Where the first k arguments end; where all end is the size of the vector.
EndOf(cells, k) == IF k = 0 THEN STREAM_HEADER_SIZE ELSE cells[k].end
BytesSize(cells) == EndOf(cells, Len(cells))

Added(cells, a) == Append(cells, [arg |-> a, end |-> BytesSize(cells) + CellSize(a)])

Least(m, n) == IF m < n THEN m ELSE n

\* The bytes before an offset: the last cell may be cut.
Cut(cells, offset) ==
  [k \in {i \in DOMAIN cells : EndOf(cells, i - 1) < offset} |->
     [cells[k] EXCEPT !.end = Least(@, offset)]]

\* The bytes of some cells, but for the first k, behind those of others.
Joined(cells, more, k) ==
  cells \o [i \in 1..(Len(more) - k) |->
              [more[k + i] EXCEPT !.end = @ - EndOf(more, k) + BytesSize(cells)]]

\* IntegrityCheck: walking from size to size ends at the end of the bytes.
Integral(cells) ==
  \A k \in DOMAIN cells : cells[k].end = EndOf(cells, k - 1) + CellSize(cells[k].arg)

\* GetArgTypes, and CountArguments as its length.
GetArgTypes(s) == [k \in DOMAIN s.cells |-> TypeOf[s.cells[k].arg]]

-----------------------------------------------------------------------------
(* The ident composite *)

BuildIdentComposite(flags, ident) == flags * IdentValues + ident
GetIdentFlags(composite) == composite \div IdentValues
GetIdentInteger(composite) == composite % IdentValues

Header(cmd, flags, ident) == [cmd |-> cmd, composite |-> BuildIdentComposite(flags, ident)]
Headers == {Header(c, f, i) : c \in Commands, f \in Flags, i \in Idents}

-----------------------------------------------------------------------------
(* The checks of argument types that every handler makes first *)

VerifyArgTypes(s, list) ==
  LET types == GetArgTypes(s) IN
  IF types = <<>> THEN list = <<>> \/ list[1] = "NONE"
  ELSE Len(types) = Len(list) /\ \A k \in DOMAIN list : list[k] = types[k]

VerifyArgTypesStartWith(s, list) ==
  LET types == GetArgTypes(s) IN
  IF types = <<>> THEN list = <<>> \/ list[1] = "NONE"
  ELSE Len(types) >= Len(list) /\ \A k \in DOMAIN list : list[k] = types[k]

\* A mistake one could make: the offset is counted and then not skipped.
VerifyArgTypePatternAtStart(s, offset, list) ==
  LET types == GetArgTypes(s)
      rest == Len(types) - offset
  IN  /\ types # <<>> /\ rest >= 1 /\ rest >= Len(list) /\ list # <<>>
      /\ rest % Len(list) = 0
      /\ \A k \in 1..rest : types[k] = list[((k - 1) % Len(list)) + 1]

\* The loop of VerifyArgTypePattern, if no round finds another type than the
\* list has: inc[k] is PatternInc after k rounds.
VerifyArgTypePattern(s, offset, list) ==
  LET types == GetArgTypes(s)
      rest == Len(types) - offset
      at(inc, k) == IF inc[k - 1] = Len(list) THEN 0 ELSE inc[k - 1]
  IN  /\ types # <<>> /\ rest >= 1 /\ rest >= Len(list) /\ list # <<>>
      /\ \E inc \in [0..rest -> 0..Len(list)] :
           /\ inc[0] = 0 /\ inc[rest] = Len(list)
           /\ \A k \in 1..rest : /\ types[offset + k] = list[at(inc, k) + 1]
                                  /\ inc[k] = at(inc, k) + 1

-----------------------------------------------------------------------------
(* Operations on the objects *)

Live(s) == died = "" /\ stream[s] # Gone

\* Composing is looked at between transfers: it touches nothing of them.
Idle == wire = <<>>

UnchangedLink == UNCHANGED <<wire, sent, read, up>>

Set(s, new) == stream' = [stream EXCEPT ![s] = new] /\ UnchangedLink

\* An exception no caller catches, or memory that is not there.
Terminate(where) == died' = where /\ popped' = Null /\ UNCHANGED stream /\ UnchangedLink

\* AutoSetStreamArgsSize: the header gets the size that the vector has.
Sized(s, cells) ==
  [s EXCEPT !.cells = cells, !.declared = BytesSize(cells) - STREAM_HEADER_SIZE]

Fresh(h) == [header |-> h, declared |-> 0, cells |-> <<>>, index |-> Null]

ConationInit ==
  /\ stream = [s \in Objects |-> Gone]
  /\ popped = Null /\ died = ""
  /\ wire = <<>> /\ sent = 0 /\ read = 0 /\ up = TRUE

Construct(s, h) ==
  /\ Idle /\ died = "" /\ stream[s] = Gone
  /\ Set(s, Fresh(h))
  /\ popped' = Null /\ UNCHANGED died

\* AlterHeader with what GetHeader gave, and another code.
AlterHeader(s, c) ==
  /\ Idle /\ Live(s)
  /\ Set(s, [stream[s] EXCEPT !.header =
               Header(c, GetIdentFlags(@.composite), GetIdentInteger(@.composite))])
  /\ popped' = Null /\ UNCHANGED died

\* Index points into the vector and is not moved with it: pushes come before
\* the first pop, or after Rewind.
Pushes(s, a, types) ==
  /\ Idle /\ Live(s) /\ stream[s].index = Null /\ Len(stream[s].cells) < MaxArgs
  /\ TypeOf[a] \in types
  /\ Set(s, Sized(stream[s], Added(stream[s].cells, a)))
  /\ popped' = Null /\ UNCHANGED died

\* A mistake one could make: the size is not written into the header.
PushFileUnsized(s, a) ==
  /\ Idle /\ Live(s) /\ stream[s].index = Null /\ Len(stream[s].cells) < MaxArgs
  /\ TypeOf[a] = "FILE"
  /\ Set(s, [stream[s] EXCEPT !.cells = Added(@, a)])
  /\ popped' = Null /\ UNCHANGED died

PushValue(s, a) == Pushes(s, a, DOMAIN FixedSize \cup {"NETCMDSTATUS"})

PushText(s, a) == Pushes(s, a, {"BINSTREAM", "ODHEADER", "STRING", "SCRIPT", "FILEPATH"})

PushFile(s, a) == Pushes(s, a, {"FILE"})

\* Push_File of a path: a file that is not there, or not read, is Err_Misused,
\* with the type on the stream already; nothing that calls it catches that.
PushFilePath(s, a) ==
  /\ Idle /\ Live(s) /\ TypeOf[a] = "FILE"
  /\ PushFile(s, a) \/ Terminate("Push_File")

\* PushArgument of what was popped from another stream.
PushArgument(s) == popped # Null /\ Pushes(s, popped, ArgTypes)

\* Index, when it is set or used, and the cell there.
Offset(s) == IF s.index = Null THEN STREAM_HEADER_SIZE ELSE s.index
CellAt(s) == CHOOSE k \in 1..(Len(s.cells) + 1) : EndOf(s.cells, k - 1) = Offset(s)

\* The argument that the switch over the types builds: it takes Size bytes, of
\* which the text is what the type does not add.
Decoded(cells, k) ==
  IF cells[k].end - EndOf(cells, k - 1) = CellSize(cells[k].arg) THEN cells[k].arg ELSE Null

\* PopArgument; want is the type the typed pops insist on, after the fact.
PopArgument(s, want) ==
  LET st == stream[s]
      k == CellAt(st)
      gets == Decoded(st.cells, k) IN
  /\ Idle /\ Live(s)
  /\ \/ st.index = Null /\ st.cells = <<>> /\ Terminate("PopArgument")   \* Bytes->at() is out of range
     \/ /\ st.cells # <<>> /\ k > Len(st.cells)           \* out of arguments
        /\ popped' = Null
        /\ UNCHANGED <<stream, died>> /\ UnchangedLink
     \/ /\ k <= Len(st.cells) /\ st.declared + STREAM_HEADER_SIZE = BytesSize(st.cells)
        /\ Set(s, [st EXCEPT !.index = EndOf(st.cells, k)])
        /\ popped' = IF TypeOf[gets] \in want THEN gets ELSE Null
        /\ UNCHANGED died
     \/ /\ k <= Len(st.cells) /\ st.declared + STREAM_HEADER_SIZE # BytesSize(st.cells)
        /\ Terminate("PopArgument")                                      \* Err_CorruptStream

Rewind(s) ==
  /\ Idle /\ Live(s)
  /\ Set(s, [stream[s] EXCEPT !.index = Null])
  /\ popped' = Null /\ UNCHANGED died

\* WipeArgs leaves Index: it is called before any pop.
WipeArgs(s) ==
  /\ Idle /\ Live(s) /\ stream[s].index = Null
  /\ Set(s, [stream[s] EXCEPT !.cells = <<>>, !.declared = 0])
  /\ popped' = Null /\ UNCHANGED died

\* The copy constructor and operator=: Index is put to the same offset.
Copy(t, s) ==
  /\ Idle /\ Live(s) /\ t # s /\ Integral(stream[s].cells)
  /\ Set(t, stream[s])
  /\ popped' = Null /\ UNCHANGED died

\* A stream made of the bytes of another, as a row of a table or a BINSTREAM
\* has them: the size in their header says how many there are.
Load(t, s) ==
  LET cells == Cut(stream[s].cells, STREAM_HEADER_SIZE + stream[s].declared) IN
  /\ Idle /\ Live(s) /\ stream[t] = Gone /\ Integral(cells)
  /\ Set(t, [stream[s] EXCEPT !.cells = cells, !.index = Null])
  /\ popped' = Null /\ UNCHANGED died

Move(t, s) ==
  /\ Idle /\ Live(s) /\ t # s
  /\ stream' = [stream EXCEPT ![t] = stream[s], ![s] = Gone]
  /\ UnchangedLink /\ popped' = Null /\ UNCHANGED died

Free(s) ==
  /\ Idle /\ Live(s)
  /\ Set(s, Gone)
  /\ popped' = Null /\ UNCHANGED died

\* A mistake one could make: all of the input, wherever its Index is.
AppendArgDataWhole(t, s) ==
  /\ Idle /\ Live(t) /\ Live(s) /\ t # s
  /\ Len(stream[t].cells) + Len(stream[s].cells) <= MaxArgs
  /\ Set(t, [Sized(stream[t], Joined(stream[t].cells, stream[s].cells, 0)) EXCEPT !.index = Null])
  /\ popped' = Null /\ UNCHANGED died

\* The number of bytes to copy takes the header off twice when Index is set,
\* since an offset from data() has it in it: the copy is short by a header, and
\* when less than a header is left its unsigned size is so large that memcpy
\* leaves the memory there is.
AppendArgData(t, s) ==
  LET from == stream[s]
      to == stream[t]
      total == BytesSize(from.cells)
      n == (total - STREAM_HEADER_SIZE) - (IF from.index = Null THEN 0 ELSE from.index)
      cells == Joined(to.cells, Cut(from.cells, Offset(from) + n), CellAt(from) - 1) IN
  /\ Idle /\ Live(t) /\ Live(s) /\ t # s
  /\ Len(to.cells) + Len(from.cells) <= MaxArgs
  /\ \/ from.index = total /\ UNCHANGED conationVars
     \/ from.index # total /\ n < 0 /\ Terminate("AppendArgData")
     \/ /\ from.index # total /\ n >= 0 /\ Integral(cells)
        /\ Set(t, [Sized(to, cells) EXCEPT !.index = Null])
        /\ popped' = Null /\ UNCHANGED died
     \/ /\ from.index # total /\ n >= 0 /\ ~Integral(cells)
        /\ Terminate("AppendArgData")                                     \* Err_CorruptStream

-----------------------------------------------------------------------------
(* Between two programs *)

WireSize(s) == BytesSize(s.cells)

\* Transmit, from a write queue, which frees the stream when it is written.
Transmit(s) ==
  /\ Live(s) /\ up /\ Len(wire) < MaxOnWire
  /\ sent = IF wire = <<>> THEN 0 ELSE WireSize(Last(wire))
  /\ wire' = Append(wire, [stream[s] EXCEPT !.index = Null])
  /\ sent' = 0
  /\ stream' = [stream EXCEPT ![s] = Gone]
  /\ popped' = Null /\ UNCHANGED <<died, read, up>>

\* A mistake one could make: no loop over the chunks.
WriteOneChunk ==
  /\ wire # <<>> /\ up /\ died = "" /\ sent = 0
  /\ sent' = Least(NET_MAX_CHUNK_SIZE, WireSize(Last(wire)))
  /\ popped' = Null /\ UNCHANGED <<stream, died, wire, read, up>>

\* One round of the loop in Net::Write.
WriteChunk ==
  /\ wire # <<>> /\ up /\ died = "" /\ sent < WireSize(Last(wire))
  /\ sent' = sent + Least(NET_MAX_CHUNK_SIZE, WireSize(Last(wire)) - sent)
  /\ popped' = Null /\ UNCHANGED <<stream, died, wire, read, up>>

\* The header first, then as many bytes as it says.
Needed ==
  IF read < STREAM_HEADER_SIZE THEN STREAM_HEADER_SIZE
                               ELSE STREAM_HEADER_SIZE + Head(wire).declared

Refused == read = STREAM_HEADER_SIZE /\ Head(wire).declared > MaxStreamArgsSize

\* One round of the loop in Net::Read.
ReadChunk ==
  LET there == (IF Len(wire) = 1 THEN sent ELSE WireSize(Head(wire))) - read
      most == Least(Least(Needed - read, NET_MAX_CHUNK_SIZE), there) IN
  /\ wire # <<>> /\ died = "" /\ ~Refused /\ most > 0
  /\ \E n \in Fragments \cup {most} : n <= most /\ read' = read + n
  /\ popped' = Null /\ UNCHANGED <<stream, died, wire, sent, up>>

\* The end of the constructor that downloads a stream.
Download(t) ==
  LET cells == Cut(Head(wire).cells, STREAM_HEADER_SIZE + Head(wire).declared) IN
  /\ wire # <<>> /\ died = "" /\ stream[t] = Gone
  /\ read >= STREAM_HEADER_SIZE /\ ~Refused /\ read = Needed /\ Integral(cells)
  /\ stream' = [stream EXCEPT ![t] = [Head(wire) EXCEPT !.cells = cells, !.index = Null]]
  /\ wire' = Tail(wire) /\ read' = 0
  /\ sent' = IF Len(wire) = 1 THEN 0 ELSE sent
  /\ popped' = Null /\ UNCHANGED <<died, up>>

\* A read or write fails, the reader throws, and both sides close.
GiveUp == wire' = <<>> /\ sent' = 0 /\ read' = 0 /\ up' = FALSE /\ popped' = Null /\ UNCHANGED <<stream, died>>

DownloadFails == wire # <<>> /\ ~up /\ died = "" /\ GiveUp
DownloadRefused == wire # <<>> /\ died = "" /\ Refused /\ GiveUp

Breaks ==
  /\ wire # <<>> /\ up /\ died = "" /\ up' = FALSE
  /\ popped' = Null /\ UNCHANGED <<stream, died, wire, sent, read>>

Reconnect ==
  /\ wire = <<>> /\ ~up /\ died = "" /\ up' = TRUE
  /\ popped' = Null /\ UNCHANGED <<stream, died, wire, sent, read>>

-----------------------------------------------------------------------------
Wants == {ArgTypes} \cup {{TypeOf[a]} : a \in Args}

Compose(s) ==
  \/ \E h \in Headers : Construct(s, h)
  \/ \E c \in Commands : AlterHeader(s, c)
  \/ \E a \in Args : \/ PushValue(s, a) \/ PushText(s, a)
                     \/ PushFile(s, a) \/ PushFilePath(s, a)
  \/ PushArgument(s) \/ Rewind(s) \/ WipeArgs(s) \/ Free(s)
  \/ \E want \in Wants : PopArgument(s, want)
  \/ \E t \in Objects : \/ Copy(t, s) \/ Load(t, s) \/ Move(t, s)
                        \/ AppendArgData(t, s)

Downloads == ReadChunk \/ (\E t \in Objects : Download(t)) \/ DownloadFails \/ DownloadRefused

ConationNext ==
  \/ \E s \in Objects : Compose(s) \/ Transmit(s)
  \/ WriteChunk \/ Downloads
  \/ Breaks \/ Reconnect

ConationSpec == ConationInit /\ [][ConationNext]_conationVars

\* The threads of the two queues run; nothing makes a program start a transfer.
ConationFairSpec ==
  ConationSpec /\ WF_conationVars(WriteChunk) /\ WF_conationVars(Downloads)

-----------------------------------------------------------------------------
(* Properties *)

\* A well-formed stream: the vector is whole arguments, of which the iterator
\* stands at the beginning of one or behind the last, and the size in the header
\* is the size of the vector, whatever was pushed, wiped, appended, loaded or
\* received.  PopArgument, the receiver and the tables that keep streams rely on
\* it (conation.cpp:645, :170, :108).
WellFormed(st) ==
  /\ st.header \in Headers
  /\ Len(st.cells) <= MaxArgs /\ Integral(st.cells)
  /\ st.index = Null \/ \E k \in DOMAIN st.cells : st.index = EndOf(st.cells, k)
  /\ st.declared + STREAM_HEADER_SIZE = BytesSize(st.cells)

ConationTypeOK ==
  /\ stream \in [Objects -> StreamStates \cup {Gone}]
  /\ popped \in Args \cup {Null} /\ up \in BOOLEAN
  /\ died \in {"", "Push_File", "PopArgument", "AppendArgData"}
  /\ wire \in Seq(StreamStates)
  /\ sent \in Nat /\ read \in Nat

\* Every stream is well formed after every call and on its way, and an argument
\* was popped from a stream that is still there.
Safe ==
  /\ ConationTypeOK
  /\ \A s \in Objects : stream[s] # Gone => WellFormed(stream[s])
  /\ \A k \in DOMAIN wire : WellFormed(wire[k])
  /\ popped # Null => \E s \in Objects : stream[s] # Gone

\* The lists that handlers check against.
Lists == BoundedSeq({TypeOf[a] : a \in Args} \cup {"NONE"}, MaxList)

\* The three checks say what their names say: the types are the list, begin
\* with it, or are from the offset on one or more repetitions of it.
ChecksAgree ==
  \A s \in {o \in Objects : stream[o] # Gone} :
    LET types == GetArgTypes(stream[s])
        none(list) == types = <<>> /\ list # <<>> /\ list[1] = "NONE" IN
    \A list \in Lists :
      /\ VerifyArgTypes(stream[s], list) <=> types = list \/ none(list)
      /\ VerifyArgTypesStartWith(stream[s], list) <=> IsPrefix(list, types) \/ none(list)
      /\ \A offset \in 0..MaxArgs :
           VerifyArgTypePattern(stream[s], offset, list) <=>
             \E n \in 1..MaxArgs :
               /\ list # <<>>
               /\ Len(types) = offset + n * Len(list)
               /\ \A k \in 1..(n * Len(list)) : types[offset + k] = list[((k - 1) % Len(list)) + 1]

\* A stream is the list of its arguments, its header and a place in the list,
\* and arrives on the other side as that, in order, or not at all.
Contents(st) == [k \in DOMAIN st.cells |-> st.cells[k].arg]
Title(st) == [cmd |-> st.header.cmd, flags |-> GetIdentFlags(st.header.composite),
              ident |-> GetIdentInteger(st.header.composite)]

List == INSTANCE ArgList WITH
  Nothing <- Null,
  Headers <- [cmd : Commands, flags : Flags, ident : Idents],
  header <- [s \in Objects |-> IF stream[s] = Gone THEN Gone ELSE Title(stream[s])],
  content <- [s \in Objects |-> IF stream[s] = Gone THEN <<>> ELSE Contents(stream[s])],
  place <- [s \in Objects |-> IF stream[s] = Gone THEN 0 ELSE CellAt(stream[s]) - 1],
  channel <- [k \in DOMAIN wire |-> [header |-> Title(wire[k]), content |-> Contents(wire[k])]]

\* The bytes implement the list (conation.cpp as a whole).
ListSpec == List!Spec

\* A stream that is sent begins to arrive, and one that has begun is received,
\* refused or given up: the loops over chunks on both sides (netcore.cpp:325,
\* :366) end and leave nothing of a stream for the next one.
Delivered ==
  /\ (wire # <<>>) ~> (read > 0 \/ wire = <<>>)
  /\ (read > 0) ~> (read = 0)

\* "Merges the seeked argument data of the input into this stream"
\* (conation.h:306).
MergesSeeked ==
  [][\A s, t \in Objects : AppendArgData(t, s) =>
       Contents(stream[t])' = Contents(stream[t]) \o
         SubSeq(Contents(stream[s]), CellAt(stream[s]), Len(stream[s].cells))]_conationVars
=============================================================================
