------------------------------ MODULE ArgList ------------------------------
(* What a Conation stream promises its users: a header and a list of typed
   arguments with a place in it.  Arguments are pushed at the end and popped
   from the front, a copy is a stream of its own, and what is sent arrives
   whole, in order, or not at all. *)
EXTENDS Integers, Sequences

CONSTANTS Objects, Args, Headers, Gone, Nothing

VARIABLES
  header,   \* Objects -> Headers, or Gone
  content,  \* Objects -> sequence of arguments
  place,    \* Objects -> number of arguments popped
  popped,   \* what the operation gave, if it was a pop
  channel   \* header and content of the streams on their way

vars == <<header, content, place, popped, channel>>

Live(s) == header[s] # Gone

Init ==
  /\ header = [s \in Objects |-> Gone]
  /\ content = [s \in Objects |-> <<>>]
  /\ place = [s \in Objects |-> 0]
  /\ popped = Nothing
  /\ channel = <<>>

Put(s, h, c, p) ==
  /\ header' = [header EXCEPT ![s] = h]
  /\ content' = [content EXCEPT ![s] = c]
  /\ place' = [place EXCEPT ![s] = p]

Make(s, h) == ~Live(s) /\ Put(s, h, <<>>, 0) /\ popped' = Nothing /\ UNCHANGED channel

\* A stream made to answer another: it may begin with an argument.
Answer(t, s, h, a) ==
  /\ Live(s) /\ ~Live(t)
  /\ \E c \in {<<>>, <<a>>} : Put(t, h, c, 0)
  /\ popped' = Nothing /\ UNCHANGED channel

Retitle(s, h) ==
  /\ Live(s)
  /\ header' = [header EXCEPT ![s] = h]
  /\ popped' = Nothing /\ UNCHANGED <<content, place, channel>>

Push(s, a) ==
  /\ Live(s)
  /\ content' = [content EXCEPT ![s] = Append(@, a)]
  /\ popped' = Nothing /\ UNCHANGED <<header, place, channel>>

\* Several arguments from the start, of which the caller looks at the types.
PopFirst(s, n) ==
  /\ Live(s) /\ n <= Len(content[s])
  /\ place' = [place EXCEPT ![s] = n]
  /\ popped' = Nothing /\ UNCHANGED <<header, content, channel>>

\* One argument, or Nothing behind the last one.  A pop of a certain type gives
\* Nothing for an argument of another, and the argument is popped all the same.
Pop(s) ==
  /\ Live(s)
  /\ IF place[s] < Len(content[s])
     THEN /\ popped' \in {content[s][place[s] + 1], Nothing}
          /\ place' = [place EXCEPT ![s] = @ + 1]
     ELSE popped' = Nothing /\ UNCHANGED place
  /\ UNCHANGED <<header, content, channel>>

Rewind(s) ==
  /\ Live(s)
  /\ place' = [place EXCEPT ![s] = 0]
  /\ popped' = Nothing /\ UNCHANGED <<header, content, channel>>

Wipe(s) == Live(s) /\ Put(s, header[s], <<>>, 0) /\ popped' = Nothing /\ UNCHANGED channel

\* A copy with its place, a new stream of the same bytes, or the stream itself.
Copy(t, s) ==
  Live(s) /\ Put(t, header[s], content[s], place[s]) /\ popped' = Nothing /\ UNCHANGED channel

Load(t, s) ==
  Live(s) /\ Put(t, header[s], content[s], 0) /\ popped' = Nothing /\ UNCHANGED channel

Move(t, s) ==
  /\ Live(s) /\ s # t
  /\ header' = [header EXCEPT ![t] = header[s], ![s] = Gone]
  /\ content' = [content EXCEPT ![t] = content[s], ![s] = <<>>]
  /\ place' = [place EXCEPT ![t] = place[s], ![s] = 0]
  /\ popped' = Nothing /\ UNCHANGED channel

\* The arguments of s go behind those of t; when some of s were popped, those
\* that were not, and the last ones may be missing.
Merge(t, s) ==
  /\ Live(t) /\ Live(s) /\ s # t
  /\ \E last \in place[s]..Len(content[s]) :
       /\ place[s] = 0 => last = Len(content[s])
       /\ Put(t, header[t], content[t] \o SubSeq(content[s], place[s] + 1, last), 0)
  /\ popped' = Nothing /\ UNCHANGED channel

Free(s) == Put(s, Gone, <<>>, 0) /\ popped' = Nothing /\ UNCHANGED channel

Send(s) ==
  /\ Live(s)
  /\ channel' = Append(channel, [header |-> header[s], content |-> content[s]])
  /\ Put(s, Gone, <<>>, 0)
  /\ popped' = Nothing

Receive(t) ==
  /\ channel # <<>> /\ ~Live(t)
  /\ Put(t, Head(channel).header, Head(channel).content, 0)
  /\ channel' = Tail(channel)
  /\ popped' = Nothing

Lose == channel' = <<>> /\ popped' = Nothing /\ UNCHANGED <<header, content, place>>

Next ==
  \/ \E s \in Objects : \/ \E h \in Headers : Make(s, h) \/ Retitle(s, h)
                        \/ \E a \in Args : Push(s, a)
                        \/ \E n \in 0..Len(content[s]) : PopFirst(s, n)
                        \/ Pop(s) \/ Rewind(s) \/ Wipe(s) \/ Free(s)
                        \/ Send(s) \/ Receive(s)
                        \/ \E t \in Objects, h \in Headers, a \in Args : Answer(t, s, h, a)
                        \/ \E t \in Objects : Copy(t, s) \/ Load(t, s) \/ Move(t, s) \/ Merge(t, s)
  \/ Lose

Spec == Init /\ [][Next]_vars
=============================================================================
