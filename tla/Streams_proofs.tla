--------------------------- MODULE Streams_proofs ---------------------------
(***************************************************************************)
(* Proofs about the streams of libvolition: Conation, for any objects,     *)
(* arguments, sizes and fragments, and WriteQueue, for any streams, any    *)
(* threads, any number of connections and either behaviour of              *)
(* pthread_kill.                                                           *)
(***************************************************************************)
EXTENDS Conation, WriteQueue, SequenceTheorems, WellFoundedInduction, TLAPS

-----------------------------------------------------------------------------
(* Conation: induction up to a number, and numbers.                        *)

\* A set of numbers that is not empty has a least one.
LEMMA LeastOne ==
  ASSUME NEW S \in SUBSET Nat, S # {}
  PROVE  \E x \in S : \A y \in S : x <= y
<1>1. PICK x \in S : \A y \in S : ~(<<y, x>> \in OpToRel(<, Nat))
  BY NatLessThanWellFounded, WFMin
<1>2. ASSUME NEW y \in S
      PROVE  x <= y
  <2> SUFFICES ASSUME y < x PROVE FALSE
    BY x \in Nat, y \in Nat
  <2>1. <<y, x>> \in Nat \X Nat /\ <<y, x>>[1] < <<y, x>>[2]
    OBVIOUS
  <2> QED
    BY <1>1, <2>1 DEF OpToRel
<1> QED
  BY <1>2

\* Induction up to a number, for a set.
LEMMA UpTo ==
  ASSUME NEW n \in Nat, NEW S, 0 \in S, \A k \in 1..n : k - 1 \in S => k \in S
  PROVE  0..n \subseteq S
<1> SUFFICES ASSUME (0..n) \ S # {} PROVE FALSE
  OBVIOUS
<1>1. PICK x \in (0..n) \ S : \A y \in (0..n) \ S : x <= y
  <2>1. (0..n) \ S \in SUBSET Nat
    OBVIOUS
  <2> QED
    BY <2>1, LeastOne
<1>2. x \in 1..n /\ x - 1 \in 0..n /\ ~(x <= x - 1)
  BY <1>1
<1>3. x - 1 \in S
  BY <1>1, <1>2
<1> QED
  BY <1>1, <1>2, <1>3

-----------------------------------------------------------------------------
Cells == Seq([arg : Args, end : Nat])

\* An argument takes its header at least.
LEMMA CellSizes ==
  ASSUME NEW a \in Args
  PROVE  CellSize(a) \in Nat /\ CellSize(a) >= 10
<1>1. TypeOf[a] \in ArgTypes /\ Text[a] \in Nat
  BY ConationAssumption
<1>2. ASSUME TypeOf[a] \in {"INT32", "UINT32", "INT64", "UINT64", "BOOL"}
      PROVE  FixedSize[TypeOf[a]] \in Nat
  BY <1>2 DEF FixedSize
<1>3. DOMAIN FixedSize = {"INT32", "UINT32", "INT64", "UINT64", "BOOL"}
  BY DEF FixedSize
<1>4. Overhead(TypeOf[a]) \in Nat
  BY <1>1 DEF Overhead, ArgTypes
<1>5. SizeOf(a) \in Nat
  BY <1>1, <1>2, <1>3, <1>4 DEF SizeOf
<1> QED
  BY <1>5 DEF CellSize, ARG_HEADER_SIZE

\* Whole arguments end one behind the other.
LEMMA Ends ==
  ASSUME NEW cells \in Cells, Integral(cells)
  PROVE  /\ \A k \in 0..Len(cells) : EndOf(cells, k) \in Nat /\ EndOf(cells, k) >= STREAM_HEADER_SIZE
         /\ \A j, k \in 0..Len(cells) : j < k => EndOf(cells, j) + 10 <= EndOf(cells, k)
<1>0. /\ Len(cells) \in Nat /\ DOMAIN cells = 1..Len(cells)
      /\ \A k \in 1..Len(cells) : cells[k].arg \in Args /\ cells[k].end \in Nat
  <2>1. \A k \in 1..Len(cells) : cells[k] \in [arg : Args, end : Nat]
    BY ElementOfSeq DEF Cells
  <2> QED
    BY <2>1 DEF Cells
<1>1. \A k \in 0..Len(cells) : EndOf(cells, k) \in Nat
  BY <1>0 DEF EndOf, STREAM_HEADER_SIZE
<1>2. \A k \in 1..Len(cells) : EndOf(cells, k - 1) + 10 <= EndOf(cells, k)
  <2> TAKE k \in 1..Len(cells)
  <2>1. cells[k].end = EndOf(cells, k - 1) + CellSize(cells[k].arg)
    BY <1>0 DEF Integral
  <2>2. EndOf(cells, k) = cells[k].end /\ k - 1 \in 0..Len(cells)
    BY <1>0 DEF EndOf
  <2>3. CellSize(cells[k].arg) \in Nat /\ CellSize(cells[k].arg) >= 10
    BY <1>0, CellSizes
  <2> QED
    BY <2>1, <2>2, <2>3, <1>1
<1> DEFINE S == {k \in 0..Len(cells) :
                   /\ EndOf(cells, k) >= STREAM_HEADER_SIZE
                   /\ \A j \in 0..Len(cells) : j < k => EndOf(cells, j) + 10 <= EndOf(cells, k)}
<1>3. 0 \in S
  BY <1>0 DEF EndOf, STREAM_HEADER_SIZE
<1>4. ASSUME NEW k \in 1..Len(cells), k - 1 \in S
      PROVE  k \in S
  <2>1. k \in 0..Len(cells) /\ k - 1 \in 0..Len(cells)
    BY <1>0
  <2>2. /\ EndOf(cells, k - 1) >= STREAM_HEADER_SIZE
        /\ \A j \in 0..Len(cells) : j < k - 1 => EndOf(cells, j) + 10 <= EndOf(cells, k - 1)
    BY <1>4
  <2>3. EndOf(cells, k - 1) + 10 <= EndOf(cells, k)
    BY <1>2
  <2>4. \A j \in 0..Len(cells) : j < k => j < k - 1 \/ j = k - 1
    BY <1>0
  <2>5. EndOf(cells, k - 1) \in Nat /\ EndOf(cells, k) \in Nat
    BY <2>1, <1>1
  <2>6. EndOf(cells, k) >= STREAM_HEADER_SIZE
    BY <2>2, <2>3, <2>5 DEF STREAM_HEADER_SIZE
  <2>7. ASSUME NEW j \in 0..Len(cells), j < k
        PROVE  EndOf(cells, j) + 10 <= EndOf(cells, k)
    <3>1. EndOf(cells, j) \in Nat
      BY <1>1
    <3>2. CASE j < k - 1
      BY <3>1, <3>2, <2>2, <2>3, <2>5
    <3>3. CASE j = k - 1
      BY <3>3, <2>3
    <3> QED
      BY <3>2, <3>3, <2>4, <2>7
  <2> QED
    BY <2>1, <2>6, <2>7
<1> HIDE DEF S
<1>5. 0..Len(cells) \subseteq S
  BY <1>0, <1>3, <1>4, UpTo
<1> QED
  BY <1>1, <1>5 DEF S

\* An argument more.
LEMMA AddedCells ==
  ASSUME NEW cells \in Cells, Integral(cells), NEW a \in Args
  PROVE  /\ Added(cells, a) \in Cells /\ Integral(Added(cells, a))
         /\ Len(Added(cells, a)) = Len(cells) + 1
         /\ \A k \in 1..Len(cells) : Added(cells, a)[k] = cells[k]
         /\ Added(cells, a)[Len(cells) + 1].arg = a
<1> DEFINE cell == [arg |-> a, end |-> BytesSize(cells) + CellSize(a)]
           new == Added(cells, a)
<1>0. Len(cells) \in Nat /\ DOMAIN cells = 1..Len(cells)
  BY DEF Cells
<1>1. BytesSize(cells) \in Nat
  BY <1>0, Ends DEF BytesSize
<1>2. cell \in [arg : Args, end : Nat]
  BY <1>1, CellSizes
<1>3. /\ new \in Cells /\ Len(new) = Len(cells) + 1 /\ DOMAIN new = 1..(Len(cells) + 1)
      /\ \A k \in 1..Len(cells) : new[k] = cells[k]
      /\ new[Len(cells) + 1] = cell
  <2> HIDE DEF cell
  <2>1. new = Append(cells, cell)
    BY DEF Added, cell
  <2> HIDE DEF new
  <2> QED
    BY <2>1, <1>0, <1>2, AppendProperties DEF Cells
<1> HIDE DEF new
<1>4. \A k \in 0..Len(cells) : EndOf(new, k) = EndOf(cells, k)
  BY <1>0, <1>3 DEF EndOf
<1>5. ASSUME NEW k \in 1..(Len(cells) + 1)
      PROVE  new[k].end = EndOf(new, k - 1) + CellSize(new[k].arg)
  <2>1. CASE k \in 1..Len(cells)
    <3>1. cells[k].end = EndOf(cells, k - 1) + CellSize(cells[k].arg)
      BY <2>1, <1>0 DEF Integral
    <3>2. k - 1 \in 0..Len(cells)
      BY <2>1, <1>0
    <3> QED
      BY <2>1, <3>1, <3>2, <1>3, <1>4
  <2>2. CASE k = Len(cells) + 1
    <3>1. k - 1 = Len(cells) /\ k - 1 \in 0..Len(cells)
      BY <2>2, <1>0
    <3> QED
      BY <2>2, <3>1, <1>3, <1>4 DEF BytesSize
  <2> QED
    BY <2>1, <2>2, <1>0
<1> QED
  BY <1>3, <1>5 DEF Integral, new

\* The first bytes are the first arguments, of which the last may be cut.
LEMMA CutCells ==
  ASSUME NEW cells \in Cells, Integral(cells), NEW offset \in Nat
  PROVE  \E m \in 0..Len(cells) :
           /\ Cut(cells, offset) \in Cells /\ Len(Cut(cells, offset)) = m
           /\ \A k \in 1..m : Cut(cells, offset)[k].arg = cells[k].arg
           /\ \A p \in 0..Len(cells) : EndOf(cells, p) <= offset =>
                p <= m /\ EndOf(Cut(cells, offset), p) = EndOf(cells, p)
           /\ \A j, k \in 0..m : j < k => EndOf(Cut(cells, offset), j) < EndOf(Cut(cells, offset), k)
<1> DEFINE begun == {i \in DOMAIN cells : EndOf(cells, i - 1) < offset}
           cut == Cut(cells, offset)
<1>0. /\ Len(cells) \in Nat /\ DOMAIN cells = 1..Len(cells)
      /\ \A k \in 1..Len(cells) : cells[k] \in [arg : Args, end : Nat]
  <2>1. \A k \in 1..Len(cells) : cells[k] \in [arg : Args, end : Nat]
    BY ElementOfSeq DEF Cells
  <2> QED
    BY <2>1 DEF Cells
<1>1. /\ \A k \in 0..Len(cells) : EndOf(cells, k) \in Nat
      /\ \A j, k \in 0..Len(cells) : j < k => EndOf(cells, j) < EndOf(cells, k)
  <2>1. /\ \A k \in 0..Len(cells) : EndOf(cells, k) \in Nat
        /\ \A j, k \in 0..Len(cells) : j < k => EndOf(cells, j) + 10 <= EndOf(cells, k)
    BY Ends
  <2>2. \A x, y \in Nat : x + 10 <= y => x < y
    OBVIOUS
  <2> QED
    BY <2>1, <2>2
<1>2. PICK m \in 0..Len(cells) : begun = 1..m
  <2> DEFINE R == {k \in 0..Len(cells) : k \notin begun /\ k # 0} \cup {Len(cells) + 1}
  <2>1. PICK r \in R : \A y \in R : r <= y
    <3>1. R \in SUBSET Nat /\ R # {}
      BY <1>0
    <3> HIDE DEF R
    <3> QED
      BY <3>1, LeastOne
  <2>2. r \in 1..(Len(cells) + 1) /\ r - 1 \in 0..Len(cells)
    BY <2>1, <1>0
  <2>3. \A k \in 1..(r - 1) : k \in begun
    <3> TAKE k \in 1..(r - 1)
    <3>1. k \in 0..Len(cells) /\ k # 0 /\ ~(r <= k)
      BY <2>2, <1>0
    <3> QED
      BY <3>1, <2>1
  <2>4. ASSUME NEW k \in begun
        PROVE  k \in 1..(r - 1)
    <3>1. k \in 1..Len(cells) /\ EndOf(cells, k - 1) < offset
      BY <1>0
    <3> SUFFICES ASSUME r <= k PROVE FALSE
      BY <3>1, <2>2, <1>0
    <3>2. r \in 1..Len(cells) /\ r \notin begun /\ r - 1 \in 0..Len(cells) /\ k - 1 \in 0..Len(cells)
      BY <3>1, <2>1, <2>2, <1>0
    <3>3. ~(EndOf(cells, r - 1) < offset)
      BY <3>2, <1>0
    <3>4. r - 1 = k - 1 \/ r - 1 < k - 1
      BY <3>1, <3>2, <1>0
    <3>5. EndOf(cells, r - 1) \in Nat /\ EndOf(cells, k - 1) \in Nat
      BY <3>2, <1>1
    <3>6. EndOf(cells, r - 1) <= EndOf(cells, k - 1)
      BY <3>2, <3>4, <3>5, <1>1
    <3> QED
      BY <3>1, <3>3, <3>5, <3>6
  <2>5. begun = 1..(r - 1)
    BY <2>3, <2>4
  <2> QED
    BY <2>2, <2>5
<1>3. /\ cut \in [1..m -> [arg : Args, end : Nat]]
      /\ \A k \in 1..m : cut[k].arg = cells[k].arg /\ cut[k].end = Least(cells[k].end, offset)
  <2>1. cut = [k \in 1..m |-> [cells[k] EXCEPT !.end = Least(@, offset)]]
    BY <1>2 DEF Cut
  <2>2. ASSUME NEW k \in 1..m
        PROVE  /\ [cells[k] EXCEPT !.end = Least(@, offset)] \in [arg : Args, end : Nat]
               /\ [cells[k] EXCEPT !.end = Least(@, offset)].arg = cells[k].arg
               /\ [cells[k] EXCEPT !.end = Least(@, offset)].end = Least(cells[k].end, offset)
    <3>1. cells[k] \in [arg : Args, end : Nat]
      BY <1>0, <1>2
    <3>2. Least(cells[k].end, offset) \in Nat
      BY <3>1 DEF Least
    <3> QED
      BY <3>1, <3>2
  <2> HIDE DEF cut
  <2> QED
    BY <2>1, <2>2
<1> HIDE DEF cut, begun
<1>4. cut \in Cells /\ Len(cut) = m
  <2>1. m \in Nat
    BY <1>0, <1>2
  <2> QED
    BY <2>1, <1>3, SeqDef, LenProperties DEF Cells
<1>5. \A k \in 1..m : EndOf(cells, k - 1) < offset
  <2> TAKE k \in 1..m
  <2>1. k \in begun
    BY <1>2
  <2> QED
    BY <2>1 DEF begun
<1>6. \A k \in 0..m : EndOf(cut, k) = IF k = 0 THEN STREAM_HEADER_SIZE ELSE Least(EndOf(cells, k), offset)
  BY <1>0, <1>2, <1>3 DEF EndOf
<1>7. ASSUME NEW p \in 0..Len(cells), EndOf(cells, p) <= offset
      PROVE  p <= m /\ EndOf(cut, p) = EndOf(cells, p)
  <2>1. p <= m
    <3> SUFFICES ASSUME p # 0 PROVE p \in begun
      BY <1>0, <1>2
    <3>1. p \in 1..Len(cells) /\ p - 1 \in 0..Len(cells) /\ p - 1 < p
      BY <1>0
    <3>2. EndOf(cells, p - 1) < EndOf(cells, p) /\ EndOf(cells, p) \in Nat /\ EndOf(cells, p - 1) \in Nat
      BY <3>1, <1>1
    <3> QED
      BY <3>1, <3>2, <1>0, <1>7 DEF begun
  <2>2. p \in 0..m
    BY <2>1, <1>0, <1>2
  <2>3. EndOf(cells, p) \in Nat
    BY <1>1
  <2>4. CASE p = 0
    BY <2>4 DEF EndOf
  <2>5. CASE p # 0
    BY <2>2, <2>3, <2>5, <1>6, <1>7 DEF Least
  <2> QED
    BY <2>1, <2>4, <2>5
<1>8. ASSUME NEW j \in 0..m, NEW k \in 0..m, j < k
      PROVE  EndOf(cut, j) < EndOf(cut, k)
  <2>1. k \in 1..m /\ k - 1 \in 0..Len(cells) /\ j \in 0..Len(cells) /\ k \in 0..Len(cells)
    BY <1>0, <1>2, <1>8
  <2>2. EndOf(cells, j) < EndOf(cells, k) /\ EndOf(cells, j) \in Nat /\ EndOf(cells, k) \in Nat
    BY <2>1, <1>1, <1>8
  <2>3. EndOf(cells, j) < offset
    <3>1. j = k - 1 \/ j < k - 1
      BY <2>1, <1>0, <1>8
    <3>2. EndOf(cells, k - 1) < offset /\ EndOf(cells, k - 1) \in Nat
      BY <2>1, <1>1, <1>5
    <3> QED
      BY <3>1, <3>2, <2>1, <2>2, <1>1
  <2>4. EndOf(cut, j) = EndOf(cells, j)
    BY <1>7, <2>1, <2>2, <2>3
  <2>5. EndOf(cut, k) = Least(EndOf(cells, k), offset)
    BY <2>1, <1>6
  <2> QED
    BY <2>2, <2>3, <2>4, <2>5 DEF Least
<1> QED
  BY <1>2, <1>3, <1>4, <1>7, <1>8 DEF cut

\* Behind some cells come the others, but for those left out, as long as they were.
LEMMA JoinedCells ==
  ASSUME NEW cells \in Cells, Integral(cells), NEW more \in Cells, NEW p \in 0..Len(more),
         \A j, k \in 0..Len(more) : j < k => EndOf(more, j) < EndOf(more, k)
  PROVE  /\ Joined(cells, more, p) \in Cells
         /\ Len(Joined(cells, more, p)) = Len(cells) + (Len(more) - p)
         /\ \A k \in 1..Len(cells) : Joined(cells, more, p)[k] = cells[k]
         /\ \A i \in 1..(Len(more) - p) : Joined(cells, more, p)[Len(cells) + i].arg = more[p + i].arg
         /\ Integral(more) => Integral(Joined(cells, more, p))
<1> DEFINE n == Len(more) - p
           moved(i) == [more[p + i] EXCEPT !.end = @ - EndOf(more, p) + BytesSize(cells)]
           tail == [i \in 1..n |-> moved(i)]
           new == Joined(cells, more, p)
<1>0. /\ Len(cells) \in Nat /\ DOMAIN cells = 1..Len(cells)
      /\ Len(more) \in Nat /\ DOMAIN more = 1..Len(more) /\ p \in Nat
      /\ n \in Nat /\ p + n = Len(more)
      /\ \A k \in 1..Len(more) : more[k] \in [arg : Args, end : Nat]
  <2>1. \A k \in 1..Len(more) : more[k] \in [arg : Args, end : Nat]
    BY ElementOfSeq DEF Cells
  <2> QED
    BY <2>1 DEF Cells
<1> HIDE DEF n
<1>1. BytesSize(cells) \in Nat
  BY <1>0, Ends DEF BytesSize
<1>2. \A k \in 0..Len(more) : EndOf(more, k) \in Nat
  BY <1>0 DEF EndOf, STREAM_HEADER_SIZE
<1>3. ASSUME NEW i \in 1..n
      PROVE  /\ moved(i) \in [arg : Args, end : Nat]
             /\ moved(i).arg = more[p + i].arg
             /\ moved(i).end = EndOf(more, p + i) - EndOf(more, p) + BytesSize(cells)
  <2>1. p + i \in 1..Len(more) /\ p + i \in 0..Len(more) /\ p < p + i
    BY <1>0
  <2>2. more[p + i] \in [arg : Args, end : Nat] /\ more[p + i].end = EndOf(more, p + i)
    BY <2>1, <1>0 DEF EndOf
  <2>3. EndOf(more, p) < EndOf(more, p + i)
    BY <2>1
  <2>4. EndOf(more, p) \in Nat /\ EndOf(more, p + i) \in Nat
    BY <2>1, <1>2
  <2>5. EndOf(more, p + i) - EndOf(more, p) + BytesSize(cells) \in Nat
    BY <2>3, <2>4, <1>1
  <2> QED
    BY <2>2, <2>5
<1> HIDE DEF moved
<1>4. tail \in Cells /\ Len(tail) = n /\ \A i \in 1..n : tail[i] = moved(i)
  <2>1. tail \in [1..n -> [arg : Args, end : Nat]] /\ \A i \in 1..n : tail[i] = moved(i)
    BY <1>3
  <2> HIDE DEF tail
  <2> QED
    BY <2>1, <1>0, SeqDef, LenProperties DEF Cells
<1>5. new = cells \o tail
  BY DEF Joined, n, moved
<1> HIDE DEF tail, new
<1>6. /\ new \in Cells /\ Len(new) = Len(cells) + n
      /\ \A k \in 1..(Len(cells) + n) :
           new[k] = IF k <= Len(cells) THEN cells[k] ELSE tail[k - Len(cells)]
  <2>1. cells \in Seq([arg : Args, end : Nat]) /\ tail \in Seq([arg : Args, end : Nat])
    BY <1>4 DEF Cells
  <2> QED
    BY <2>1, <1>4, <1>5, ConcatProperties DEF Cells
<1>7. \A k \in 1..Len(cells) : new[k] = cells[k]
  BY <1>0, <1>6
<1>8. \A i \in 1..n : new[Len(cells) + i] = moved(i)
  <2> TAKE i \in 1..n
  <2>1. /\ Len(cells) + i \in 1..(Len(cells) + n) /\ ~(Len(cells) + i <= Len(cells))
        /\ (Len(cells) + i) - Len(cells) = i
    BY <1>0
  <2>2. new[Len(cells) + i] = tail[(Len(cells) + i) - Len(cells)]
    BY <2>1, <1>6
  <2> QED
    BY <2>1, <2>2, <1>4
<1>9. \A k \in 0..Len(cells) : EndOf(new, k) = EndOf(cells, k)
  BY <1>0, <1>7 DEF EndOf
<1>10. \A i \in 0..n :
         EndOf(new, Len(cells) + i) = EndOf(more, p + i) - EndOf(more, p) + BytesSize(cells)
  <2> TAKE i \in 0..n
  <2>1. CASE i = 0
    <3>1. EndOf(new, Len(cells) + i) = BytesSize(cells) /\ p + i = p
      BY <2>1, <1>0, <1>9 DEF BytesSize
    <3>2. EndOf(more, p) \in Nat
      BY <1>2
    <3> QED
      BY <3>1, <3>2, <1>1
  <2>2. CASE i \in 1..n
    <3>1. Len(cells) + i # 0
      BY <2>2, <1>0
    <3> QED
      BY <3>1, <2>2, <1>3, <1>8 DEF EndOf
  <2> QED
    BY <2>1, <2>2, <1>0
<1>11. ASSUME Integral(more), NEW k \in 1..Len(new)
       PROVE  new[k].end = EndOf(new, k - 1) + CellSize(new[k].arg)
  <2>1. CASE k \in 1..Len(cells)
    <3>1. cells[k].end = EndOf(cells, k - 1) + CellSize(cells[k].arg)
      BY <2>1, <1>0 DEF Integral
    <3>2. k - 1 \in 0..Len(cells)
      BY <2>1, <1>0
    <3> QED
      BY <2>1, <3>1, <3>2, <1>7, <1>9
  <2>2. CASE k \notin 1..Len(cells)
    <3> DEFINE i == k - Len(cells)
    <3>1. i \in 1..n /\ i - 1 \in 0..n /\ k = Len(cells) + i /\ k - 1 = Len(cells) + (i - 1)
          /\ p + i \in 1..Len(more) /\ p + (i - 1) = (p + i) - 1 /\ (p + i) - 1 \in 0..Len(more)
      <4>1. k \in Nat /\ k > Len(cells) /\ k <= Len(cells) + n
        BY <2>2, <1>0, <1>6
      <4>2. i \in Nat /\ 1 <= i /\ i <= n /\ k = Len(cells) + i
        BY <4>1, <1>0
      <4> HIDE DEF i
      <4> QED
        BY <4>2, <1>0
    <3> HIDE DEF i
    <3>2. /\ more[p + i].end = EndOf(more, (p + i) - 1) + CellSize(more[p + i].arg)
          /\ more[p + i].end = EndOf(more, p + i)
      <4>1. p + i \in DOMAIN more /\ p + i # 0
        BY <3>1, <1>0
      <4> QED
        BY <4>1, <1>11 DEF Integral, EndOf
    <3>3. EndOf(new, k - 1) = EndOf(more, (p + i) - 1) - EndOf(more, p) + BytesSize(cells)
      BY <3>1, <1>10
    <3>4. /\ new[k].end = EndOf(more, p + i) - EndOf(more, p) + BytesSize(cells)
          /\ new[k].arg = more[p + i].arg
      BY <3>1, <1>3, <1>8
    <3>5. /\ EndOf(more, (p + i) - 1) \in Nat /\ EndOf(more, p) \in Nat
          /\ EndOf(more, p + i) \in Nat
      <4>1. p + i \in 0..Len(more) /\ p \in 0..Len(more)
        BY <3>1, <1>0
      <4> QED
        BY <4>1, <3>1, <1>2
    <3>6. CellSize(more[p + i].arg) \in Nat
      BY <3>1, <1>0, CellSizes
    <3> QED
      BY <3>2, <3>3, <3>4, <3>5, <3>6, <1>1
  <2> QED
    BY <2>1, <2>2
<1>12. DOMAIN new = 1..Len(new)
  BY <1>6 DEF Cells
<1>13. Integral(more) => Integral(new)
  BY <1>11, <1>12 DEF Integral
<1>14. \A i \in 1..n : new[Len(cells) + i].arg = more[p + i].arg
  BY <1>3, <1>8
<1> QED
  BY <1>6, <1>7, <1>13, <1>14 DEF new, n

\* Index is at one cell, or behind the last.
LEMMA TheCell ==
  ASSUME NEW st \in StreamStates, WellFormed(st)
  PROVE  /\ Offset(st) \in Nat
         /\ CellAt(st) \in 1..(Len(st.cells) + 1)
         /\ EndOf(st.cells, CellAt(st) - 1) = Offset(st)
         /\ \A k \in 0..Len(st.cells) : EndOf(st.cells, k) = Offset(st) => k = CellAt(st) - 1
<1>0. st.cells \in Cells /\ Integral(st.cells) /\ Len(st.cells) \in Nat /\ DOMAIN st.cells = 1..Len(st.cells)
  BY DEF StreamStates, WellFormed, Cells
<1>1. /\ \A k \in 0..Len(st.cells) : EndOf(st.cells, k) \in Nat
      /\ \A j, k \in 0..Len(st.cells) : j < k => EndOf(st.cells, j) < EndOf(st.cells, k)
  <2>1. /\ \A k \in 0..Len(st.cells) : EndOf(st.cells, k) \in Nat
        /\ \A j, k \in 0..Len(st.cells) : j < k => EndOf(st.cells, j) + 10 <= EndOf(st.cells, k)
    BY <1>0, Ends
  <2> QED
    BY <2>1
<1>2. \E k \in 0..Len(st.cells) : EndOf(st.cells, k) = Offset(st)
  BY <1>0 DEF WellFormed, Offset, EndOf
<1>3. \E k \in 1..(Len(st.cells) + 1) : EndOf(st.cells, k - 1) = Offset(st)
  <2>1. PICK k \in 0..Len(st.cells) : EndOf(st.cells, k) = Offset(st)
    BY <1>2
  <2>2. k + 1 \in 1..(Len(st.cells) + 1) /\ (k + 1) - 1 = k
    BY <1>0
  <2> QED
    BY <2>1, <2>2
<1>4. CellAt(st) \in 1..(Len(st.cells) + 1) /\ EndOf(st.cells, CellAt(st) - 1) = Offset(st)
  BY <1>3 DEF CellAt
<1>5. ASSUME NEW k \in 0..Len(st.cells), EndOf(st.cells, k) = Offset(st)
      PROVE  k = CellAt(st) - 1
  <2> DEFINE c == CellAt(st) - 1
  <2>1. c \in 0..Len(st.cells) /\ EndOf(st.cells, c) = EndOf(st.cells, k)
    BY <1>0, <1>4, <1>5
  <2> HIDE DEF c
  <2>2. EndOf(st.cells, c) \in Nat /\ EndOf(st.cells, k) \in Nat
    BY <2>1, <1>1
  <2>3. ~(c < k) /\ ~(k < c)
    BY <2>1, <2>2, <1>1
  <2>4. c = k
    BY <2>1, <2>3, <1>0
  <2> QED
    BY <2>4 DEF c
<1> QED
  BY <1>1, <1>2, <1>4, <1>5

-----------------------------------------------------------------------------
(* The values of a stream.                                                 *)

Good(st) == st \in StreamStates /\ WellFormed(st)

\* Division of a number that was put together from quotient and remainder.
LEMMA Arithmetic ==
  ASSUME NEW d \in Nat \ {0}, NEW q \in Nat, NEW r \in 0..(d - 1)
  PROVE  (q * d + r) \div d = q /\ (q * d + r) % d = r /\ q * d + r \in Nat
<1>1. (q * d + r) \div d = q
  OBVIOUS
<1>2. (q * d + r) % d = r
  OBVIOUS
<1>3. q * d \in Nat
  OBVIOUS
<1> QED
  BY <1>1, <1>2, <1>3

\* The composite gives back the flags and the ident.
LEMMA Composites ==
  ASSUME NEW c \in Commands, NEW f \in Flags, NEW i \in Idents
  PROVE  /\ Header(c, f, i) \in Headers /\ Header(c, f, i) \in [cmd : Commands, composite : Nat]
         /\ Header(c, f, i).cmd = c
         /\ GetIdentFlags(Header(c, f, i).composite) = f
         /\ GetIdentInteger(Header(c, f, i).composite) = i
<1>1. IdentValues \in Nat \ {0} /\ f \in Nat /\ i \in 0..(IdentValues - 1)
  BY ConationAssumption
<1> DEFINE n == f * IdentValues + i
<1>2. n \div IdentValues = f /\ n % IdentValues = i /\ n \in Nat
  BY <1>1, Arithmetic
<1>3. Header(c, f, i) = [cmd |-> c, composite |-> n]
  BY DEF Header, BuildIdentComposite
<1> HIDE DEF n
<1> QED
  BY <1>2, <1>3 DEF Headers, GetIdentFlags, GetIdentInteger

\* What GetHeader reads from the header of a stream.
LEMMA HeaderParts ==
  ASSUME NEW h \in Headers
  PROVE  /\ h.cmd \in Commands /\ GetIdentFlags(h.composite) \in Flags
         /\ GetIdentInteger(h.composite) \in Idents
         /\ h \in [cmd : Commands, composite : Nat]
<1>1. PICK c \in Commands, f \in Flags, i \in Idents : h = Header(c, f, i)
  BY DEF Headers
<1> QED
  BY <1>1, Composites

Titles == [cmd : Commands, flags : Flags, ident : Idents]

\* What a well-formed stream shows of itself.
LEMMA GoodStream ==
  ASSUME NEW st, Good(st)
  PROVE  /\ st.cells \in Cells /\ Integral(st.cells) /\ Len(st.cells) \in 0..MaxArgs
         /\ DOMAIN st.cells = 1..Len(st.cells)
         /\ st.declared + STREAM_HEADER_SIZE = BytesSize(st.cells)
         /\ st.header \in Headers
         /\ Title(st) \in Titles
         /\ Contents(st) \in Seq(Args) /\ Len(Contents(st)) = Len(st.cells)
         /\ \A k \in 1..Len(st.cells) : Contents(st)[k] = st.cells[k].arg /\ st.cells[k].arg \in Args
         /\ CellAt(st) - 1 \in 0..Len(st.cells)
         /\ st # Gone
<1>1. /\ st.cells \in Cells /\ Integral(st.cells) /\ Len(st.cells) \in 0..MaxArgs
      /\ DOMAIN st.cells = 1..Len(st.cells) /\ st.header \in Headers
      /\ st.declared + STREAM_HEADER_SIZE = BytesSize(st.cells)
  BY ConationAssumption DEF Good, StreamStates, WellFormed, Cells
<1>2. Title(st) \in Titles
  BY <1>1, HeaderParts DEF Title, Titles
<1>3. \A k \in 1..Len(st.cells) : st.cells[k].arg \in Args
  <2>1. \A k \in 1..Len(st.cells) : st.cells[k] \in [arg : Args, end : Nat]
    BY <1>1, ElementOfSeq DEF Cells
  <2> QED
    BY <2>1
<1>4. Contents(st) \in [1..Len(st.cells) -> Args]
  BY <1>1, <1>3 DEF Contents
<1>5. Contents(st) \in Seq(Args) /\ Len(Contents(st)) = Len(st.cells)
  BY <1>1, <1>4, SeqDef, LenProperties
<1>6. CellAt(st) - 1 \in 0..Len(st.cells)
  BY <1>1, TheCell DEF Good
<1>7. st # Gone
  BY ConationAssumption DEF Good
<1> QED
  BY <1>1, <1>2, <1>3, <1>5, <1>6, <1>7 DEF Contents

\* Two sequences with the same elements.
LEMMA SameSeq ==
  ASSUME NEW S, NEW s \in Seq(S), NEW r \in Seq(S), Len(s) = Len(r),
         \A k \in 1..Len(s) : s[k] = r[k]
  PROVE  s = r
BY SeqEqual

\* At the beginning.
LEMMA AtStart ==
  ASSUME NEW st, Good(st), st.index = Null
  PROVE  CellAt(st) = 1
<1>1. EndOf(st.cells, 0) = Offset(st) /\ 0 \in 0..Len(st.cells)
  BY GoodStream DEF EndOf, Offset
<1>2. 0 = CellAt(st) - 1 /\ CellAt(st) \in 1..(Len(st.cells) + 1) /\ Len(st.cells) \in Nat
  BY <1>1, TheCell, GoodStream DEF Good
<1> QED
  BY <1>2

\* A stream that is constructed.
LEMMA FreshStream ==
  ASSUME NEW h \in Headers
  PROVE  /\ Good(Fresh(h)) /\ Contents(Fresh(h)) = <<>> /\ CellAt(Fresh(h)) = 1
         /\ Title(Fresh(h)) = [cmd |-> h.cmd, flags |-> GetIdentFlags(h.composite),
                               ident |-> GetIdentInteger(h.composite)]
<1> DEFINE st == Fresh(h)
<1>1. /\ st.header = h /\ st.declared = 0 /\ st.cells = <<>> /\ st.index = Null
      /\ st \in StreamStates
  BY HeaderParts DEF Fresh, StreamStates
<1> HIDE DEF st
<1>2. Good(st)
  BY <1>1, ConationAssumption DEF Good, WellFormed, Integral, BytesSize, EndOf, STREAM_HEADER_SIZE
<1>4. CellAt(st) = 1
  BY <1>1, <1>2, AtStart
<1> QED
  BY <1>1, <1>2, <1>4 DEF st, Contents, Title

\* A stream whose command was altered.
LEMMA RetitledStream ==
  ASSUME NEW st, Good(st), NEW c \in Commands,
         NEW h, h = Header(c, GetIdentFlags(st.header.composite), GetIdentInteger(st.header.composite))
  PROVE  /\ Good([st EXCEPT !.header = h])
         /\ Title([st EXCEPT !.header = h]) \in Titles
         /\ Contents([st EXCEPT !.header = h]) = Contents(st)
         /\ CellAt([st EXCEPT !.header = h]) = CellAt(st)
<1> DEFINE new == [st EXCEPT !.header = h]
<1>1. h \in Headers
  BY HeaderParts, Composites, GoodStream
<1>2. /\ new \in StreamStates /\ new.header = h /\ new.cells = st.cells
      /\ new.index = st.index /\ new.declared = st.declared
  BY <1>1, HeaderParts DEF Good, StreamStates
<1> HIDE DEF new
<1>3. Good(new)
  BY <1>1, <1>2 DEF Good, WellFormed
<1> QED
  BY <1>2, <1>3, GoodStream DEF Contents, CellAt, Offset, new

\* AutoSetStreamArgsSize: the vector and its size in the header.
LEMMA SizedStream ==
  ASSUME NEW st \in StreamStates, NEW cells \in Cells,
         BytesSize(cells) \in Nat, BytesSize(cells) >= STREAM_HEADER_SIZE
  PROVE  /\ Sized(st, cells) \in StreamStates
         /\ Sized(st, cells).header = st.header /\ Sized(st, cells).cells = cells
         /\ Sized(st, cells).index = st.index
         /\ Sized(st, cells).declared = BytesSize(cells) - STREAM_HEADER_SIZE
<1> DEFINE d == BytesSize(cells) - STREAM_HEADER_SIZE
<1>1. d \in Nat
  BY DEF STREAM_HEADER_SIZE
<1>2. Sized(st, cells) = [st EXCEPT !.cells = cells, !.declared = d]
  BY DEF Sized
<1> HIDE DEF d
<1>3. /\ [st EXCEPT !.cells = cells, !.declared = d] \in StreamStates
      /\ [st EXCEPT !.cells = cells, !.declared = d].header = st.header
      /\ [st EXCEPT !.cells = cells, !.declared = d].cells = cells
      /\ [st EXCEPT !.cells = cells, !.declared = d].index = st.index
      /\ [st EXCEPT !.cells = cells, !.declared = d].declared = d
  BY <1>1 DEF StreamStates, Cells
<1> QED
  BY <1>2, <1>3 DEF d

\* A stream with one more argument.
LEMMA PushedStream ==
  ASSUME NEW st, Good(st), NEW a \in Args, st.index = Null, Len(st.cells) < MaxArgs
  PROVE  /\ Good(Sized(st, Added(st.cells, a)))
         /\ Title(Sized(st, Added(st.cells, a))) = Title(st)
         /\ Contents(Sized(st, Added(st.cells, a))) = Append(Contents(st), a)
         /\ CellAt(Sized(st, Added(st.cells, a))) = CellAt(st)
<1> DEFINE cells == Added(st.cells, a)
           new == Sized(st, cells)
<1>0. st.cells \in Cells /\ Integral(st.cells) /\ Len(st.cells) \in Nat
  BY GoodStream
<1>1. /\ cells \in Cells /\ Integral(cells) /\ Len(cells) = Len(st.cells) + 1
      /\ \A k \in 1..Len(st.cells) : cells[k] = st.cells[k]
      /\ cells[Len(st.cells) + 1].arg = a
  BY <1>0, AddedCells
<1> HIDE DEF cells
<1>2. BytesSize(cells) \in Nat /\ BytesSize(cells) >= STREAM_HEADER_SIZE
  <2>1. Len(cells) \in 0..Len(cells)
    BY <1>0, <1>1
  <2> QED
    BY <2>1, <1>1, Ends DEF BytesSize
<1>3. /\ new \in StreamStates /\ new.header = st.header /\ new.cells = cells
      /\ new.index = Null /\ new.declared = BytesSize(cells) - STREAM_HEADER_SIZE
  BY <1>1, <1>2, SizedStream DEF Good
<1> HIDE DEF new
<1>4. Good(new)
  BY <1>0, <1>1, <1>2, <1>3, ConationAssumption DEF Good, WellFormed, STREAM_HEADER_SIZE
<1>5. Contents(new) = Append(Contents(st), a)
  <2>1. /\ Contents(new) \in Seq(Args) /\ Len(Contents(new)) = Len(st.cells) + 1
        /\ \A k \in 1..(Len(st.cells) + 1) : Contents(new)[k] = cells[k].arg
    BY <1>1, <1>3, <1>4, GoodStream
  <2>2. /\ Contents(st) \in Seq(Args) /\ Len(Contents(st)) = Len(st.cells)
        /\ \A k \in 1..Len(st.cells) : Contents(st)[k] = st.cells[k].arg
    BY GoodStream
  <2> DEFINE s == Append(Contents(st), a)
  <2>3. /\ s \in Seq(Args) /\ Len(s) = Len(st.cells) + 1
        /\ \A k \in 1..Len(st.cells) : s[k] = st.cells[k].arg
        /\ s[Len(st.cells) + 1] = a
    BY <2>2, AppendProperties
  <2> HIDE DEF s
  <2>4. \A k \in 1..(Len(st.cells) + 1) : Contents(new)[k] = s[k]
    <3> TAKE k \in 1..(Len(st.cells) + 1)
    <3>1. k \in 1..Len(st.cells) \/ k = Len(st.cells) + 1
      BY <1>0
    <3> QED
      BY <3>1, <2>1, <2>3, <1>1
  <2>5. Contents(new) = s
    BY <2>1, <2>3, <2>4, SameSeq
  <2> QED
    BY <2>5 DEF s
<1>6. CellAt(st) = 1 /\ CellAt(new) = 1
  <2>1. \A o : Good(o) /\ o.index = Null => CellAt(o) = 1
    <3> SUFFICES ASSUME NEW o, Good(o), o.index = Null PROVE CellAt(o) = 1
      OBVIOUS
    <3>1. EndOf(o.cells, 0) = Offset(o) /\ 0 \in 0..Len(o.cells)
      BY GoodStream DEF EndOf, Offset
    <3>2. 0 = CellAt(o) - 1 /\ CellAt(o) \in 1..(Len(o.cells) + 1) /\ Len(o.cells) \in Nat
      BY <3>1, TheCell, GoodStream DEF Good
    <3> QED
      BY <3>2
  <2> QED
    BY <2>1, <1>3, <1>4
<1> QED
  BY <1>3, <1>4, <1>5, <1>6 DEF new, cells, Title

\* A stream whose Index is null, as of Rewind, a load or a download.
LEMMA RewoundStream ==
  ASSUME NEW st, Good(st)
  PROVE  /\ Good([st EXCEPT !.index = Null])
         /\ Title([st EXCEPT !.index = Null]) = Title(st)
         /\ Contents([st EXCEPT !.index = Null]) = Contents(st)
         /\ CellAt([st EXCEPT !.index = Null]) = 1
<1> DEFINE new == [st EXCEPT !.index = Null]
<1>1. /\ new \in StreamStates /\ new.header = st.header /\ new.cells = st.cells
      /\ new.index = Null /\ new.declared = st.declared
  BY DEF Good, StreamStates
<1> HIDE DEF new
<1>2. Good(new)
  BY <1>1 DEF Good, WellFormed
<1>3. Title(new) = Title(st) /\ Contents(new) = Contents(st) /\ CellAt(new) = 1
  BY <1>1, <1>2, AtStart DEF Title, Contents
<1> QED
  BY <1>2, <1>3 DEF new

\* A stream whose Index went behind the argument it was at.
LEMMA PoppedStream ==
  ASSUME NEW st, Good(st), CellAt(st) <= Len(st.cells)
  PROVE  /\ Good([st EXCEPT !.index = EndOf(st.cells, CellAt(st))])
         /\ Title([st EXCEPT !.index = EndOf(st.cells, CellAt(st))]) = Title(st)
         /\ Contents([st EXCEPT !.index = EndOf(st.cells, CellAt(st))]) = Contents(st)
         /\ CellAt([st EXCEPT !.index = EndOf(st.cells, CellAt(st))]) = CellAt(st) + 1
         /\ CellAt(st) \in 1..Len(st.cells)
         /\ Decoded(st.cells, CellAt(st)) = Contents(st)[CellAt(st)]
<1> DEFINE k == CellAt(st)
           new == [st EXCEPT !.index = EndOf(st.cells, k)]
<1>0. /\ k \in 1..Len(st.cells) /\ k \in 0..Len(st.cells) /\ k - 1 \in 0..Len(st.cells)
      /\ st.cells \in Cells /\ Integral(st.cells)
      /\ DOMAIN st.cells = 1..Len(st.cells) /\ Len(st.cells) \in Nat
  <2>1. k \in 1..(Len(st.cells) + 1) /\ Len(st.cells) \in Nat
    BY TheCell, GoodStream DEF Good
  <2>2. k \in 1..Len(st.cells)
    BY <2>1
  <2> HIDE DEF k
  <2> QED
    BY <2>2, <2>1, GoodStream
<1> HIDE DEF k
<1>1. EndOf(st.cells, k) \in Nat /\ EndOf(st.cells, k - 1) \in Nat
  BY <1>0, Ends
<1>2. /\ new \in StreamStates /\ new.header = st.header /\ new.cells = st.cells
      /\ new.index = EndOf(st.cells, k) /\ new.declared = st.declared
  BY <1>1 DEF Good, StreamStates
<1> HIDE DEF new
<1>3. Good(new)
  BY <1>0, <1>2 DEF Good, WellFormed
<1>4. CellAt(new) = k + 1
  <2>1. Offset(new) = EndOf(new.cells, k)
    BY <1>1, <1>2, ConationAssumption DEF Offset
  <2>2. k = CellAt(new) - 1 /\ CellAt(new) \in 1..(Len(new.cells) + 1)
    BY <2>1, <1>0, <1>2, <1>3, TheCell DEF Good
  <2> QED
    BY <2>2, <1>0, <1>2
<1>5. Decoded(st.cells, k) = Contents(st)[k]
  <2>1. st.cells[k].end = EndOf(st.cells, k - 1) + CellSize(st.cells[k].arg)
    BY <1>0 DEF Integral
  <2>2. st.cells[k].arg \in Args /\ Contents(st)[k] = st.cells[k].arg
    BY <1>0, GoodStream
  <2>3. CellSize(st.cells[k].arg) \in Nat
    BY <2>2, CellSizes
  <2>4. st.cells[k].end - EndOf(st.cells, k - 1) = CellSize(st.cells[k].arg)
    BY <2>1, <2>3, <1>1
  <2> QED
    BY <2>2, <2>4 DEF Decoded
<1> QED
  BY <1>0, <1>2, <1>3, <1>4, <1>5 DEF Title, Contents, new, k

\* A stream without its arguments.
LEMMA WipedStream ==
  ASSUME NEW st, Good(st), st.index = Null
  PROVE  /\ Good([st EXCEPT !.cells = <<>>, !.declared = 0])
         /\ Title([st EXCEPT !.cells = <<>>, !.declared = 0]) = Title(st)
         /\ Contents([st EXCEPT !.cells = <<>>, !.declared = 0]) = <<>>
         /\ CellAt([st EXCEPT !.cells = <<>>, !.declared = 0]) = 1
<1> DEFINE new == [st EXCEPT !.cells = <<>>, !.declared = 0]
<1>1. /\ new \in StreamStates /\ new.header = st.header /\ new.cells = <<>>
      /\ new.index = Null /\ new.declared = 0
  <2>1. <<>> \in Seq([arg : Args, end : Nat]) /\ 0 \in Nat
    OBVIOUS
  <2>2. st \in StreamStates
    BY DEF Good
  <2> QED
    BY <2>1, <2>2 DEF StreamStates
<1> HIDE DEF new
<1>2. Good(new)
  BY <1>1, ConationAssumption DEF Good, WellFormed, Integral, BytesSize, EndOf, STREAM_HEADER_SIZE
<1>3. Title(new) = Title(st) /\ Contents(new) = <<>> /\ CellAt(new) = 1
  BY <1>1, <1>2, AtStart DEF Title, Contents
<1> QED
  BY <1>2, <1>3 DEF new

\* The size in the header cuts nothing off.
LEMMA WholeStream ==
  ASSUME NEW st, Good(st)
  PROVE  Cut(st.cells, STREAM_HEADER_SIZE + st.declared) = st.cells
<1> DEFINE offset == BytesSize(st.cells)
           cut == Cut(st.cells, offset)
<1>0. /\ st.cells \in Cells /\ Integral(st.cells) /\ DOMAIN st.cells = 1..Len(st.cells)
      /\ Len(st.cells) \in Nat /\ STREAM_HEADER_SIZE + st.declared = offset
      /\ \A k \in 1..Len(st.cells) : st.cells[k] \in [arg : Args, end : Nat]
  <2>1. \A k \in 1..Len(st.cells) : st.cells[k] \in [arg : Args, end : Nat]
    BY GoodStream, ElementOfSeq DEF Cells
  <2>2. st.declared \in Nat
    BY DEF Good, StreamStates
  <2> QED
    BY <2>1, <2>2, GoodStream DEF STREAM_HEADER_SIZE
<1>1. /\ \A k \in 0..Len(st.cells) : EndOf(st.cells, k) \in Nat
      /\ \A j, k \in 0..Len(st.cells) : j < k => EndOf(st.cells, j) + 10 <= EndOf(st.cells, k)
  BY <1>0, Ends
<1>2. \A k \in 1..Len(st.cells) : EndOf(st.cells, k - 1) < offset /\ st.cells[k].end <= offset
  <2> TAKE k \in 1..Len(st.cells)
  <2>1. k - 1 \in 0..Len(st.cells) /\ k \in 0..Len(st.cells) /\ k - 1 < Len(st.cells)
        /\ Len(st.cells) \in 0..Len(st.cells) /\ (k < Len(st.cells) \/ k = Len(st.cells))
    BY <1>0
  <2>2. EndOf(st.cells, k) = st.cells[k].end
    BY <2>1 DEF EndOf
  <2>3. EndOf(st.cells, k - 1) + 10 <= offset /\ EndOf(st.cells, k - 1) \in Nat /\ offset \in Nat
    BY <2>1, <1>1 DEF BytesSize
  <2>4. EndOf(st.cells, k) + 10 <= offset \/ EndOf(st.cells, k) = offset
    BY <2>1, <1>1 DEF BytesSize
  <2>5. EndOf(st.cells, k) \in Nat
    BY <2>1, <1>1
  <2> QED
    BY <2>2, <2>3, <2>4, <2>5
<1>3. {i \in DOMAIN st.cells : EndOf(st.cells, i - 1) < offset} = 1..Len(st.cells)
  BY <1>0, <1>2
<1>4. cut = [k \in 1..Len(st.cells) |-> [st.cells[k] EXCEPT !.end = Least(@, offset)]]
  BY <1>3 DEF Cut
<1> HIDE DEF offset
<1>5. \A k \in 1..Len(st.cells) : [st.cells[k] EXCEPT !.end = Least(@, offset)] = st.cells[k]
  <2> TAKE k \in 1..Len(st.cells)
  <2>1. st.cells[k] \in [arg : Args, end : Nat] /\ st.cells[k].end <= offset
    BY <1>0, <1>2
  <2>2. offset \in Nat
    BY <1>0, <1>1 DEF offset, BytesSize
  <2>3. Least(st.cells[k].end, offset) = st.cells[k].end
    BY <2>1, <2>2 DEF Least
  <2> QED
    BY <2>1, <2>3
<1>6. st.cells = [k \in 1..Len(st.cells) |-> st.cells[k]]
  BY <1>0, LenProperties DEF Cells
<1> HIDE DEF cut
<1>7. cut = [k \in 1..Len(st.cells) |-> st.cells[k]]
  BY <1>4, <1>5
<1> QED
  BY <1>0, <1>6, <1>7 DEF cut

Merged(to, cells) == [Sized(to, cells) EXCEPT !.index = Null]

\* Behind the arguments of one stream come those of another from its place on,
\* all of them or the first ones.
LEMMA AppendedStream ==
  ASSUME NEW to, Good(to), NEW from, Good(from),
         Len(to.cells) + Len(from.cells) <= MaxArgs,
         NEW n \in Nat,
         n \in {(BytesSize(from.cells) - STREAM_HEADER_SIZE)
                  - (IF from.index = Null THEN 0 ELSE from.index)},
         NEW cells \in {Joined(to.cells, Cut(from.cells, Offset(from) + n), CellAt(from) - 1)},
         Integral(cells)
  PROVE  /\ Good(Merged(to, cells))
         /\ Title(Merged(to, cells)) = Title(to)
         /\ CellAt(Merged(to, cells)) = 1
         /\ \E last \in (CellAt(from) - 1)..Len(Contents(from)) :
              /\ CellAt(from) - 1 = 0 => last = Len(Contents(from))
              /\ Contents(Merged(to, cells)) =
                   Contents(to) \o SubSeq(Contents(from), (CellAt(from) - 1) + 1, last)
<1> DEFINE p == CellAt(from) - 1
           offset == Offset(from) + n
           cut == Cut(from.cells, offset)
           sized == Sized(to, cells)
           new == [sized EXCEPT !.index = Null]
<1>0. /\ from.cells \in Cells /\ Integral(from.cells) /\ Len(from.cells) \in Nat
      /\ to.cells \in Cells /\ Integral(to.cells) /\ Len(to.cells) \in Nat
      /\ p \in 0..Len(from.cells) /\ Offset(from) \in Nat
      /\ EndOf(from.cells, p) = Offset(from)
      /\ \A k \in 0..Len(from.cells) : EndOf(from.cells, k) = Offset(from) => k = p
      /\ MaxArgs \in Nat
  BY GoodStream, TheCell, ConationAssumption DEF Good
<1>1. offset \in Nat /\ Offset(from) <= offset
  BY <1>0
<1> HIDE DEF p, cut, sized
<1>2. p = 0 => offset = EndOf(from.cells, Len(from.cells))
  <2> SUFFICES ASSUME p = 0 PROVE offset = BytesSize(from.cells)
    BY DEF BytesSize
  <2>1. from.index = Null
    <3>1. \A k \in DOMAIN from.cells : k \in 0..Len(from.cells) /\ k # 0
      BY <1>0, GoodStream
    <3> SUFFICES ASSUME from.index # Null PROVE FALSE
      OBVIOUS
    <3>2. PICK k \in DOMAIN from.cells : from.index = EndOf(from.cells, k)
      BY DEF Good, WellFormed
    <3>3. EndOf(from.cells, k) = Offset(from)
      BY <3>2 DEF Offset
    <3> QED
      BY <3>1, <3>3, <1>0
  <2>2. BytesSize(from.cells) \in Nat
    BY <1>0, Ends DEF BytesSize
  <2>3. Offset(from) = STREAM_HEADER_SIZE /\ n = BytesSize(from.cells) - STREAM_HEADER_SIZE
    BY <2>1, <2>2 DEF Offset, STREAM_HEADER_SIZE
  <2> QED
    BY <2>2, <2>3 DEF STREAM_HEADER_SIZE
<1>3. PICK m \in 0..Len(from.cells) :
        /\ cut \in Cells /\ Len(cut) = m
        /\ \A k \in 1..m : cut[k].arg = from.cells[k].arg
        /\ \A q \in 0..Len(from.cells) : EndOf(from.cells, q) <= offset =>
             q <= m /\ EndOf(cut, q) = EndOf(from.cells, q)
        /\ \A j, k \in 0..m : j < k => EndOf(cut, j) < EndOf(cut, k)
  <2> HIDE DEF offset
  <2> QED
    BY <1>0, <1>1, CutCells DEF cut
<1>4. p \in 0..m /\ m \in Nat
  BY <1>0, <1>1, <1>3
<1>5. p = 0 => m = Len(from.cells)
  <2> SUFFICES ASSUME p = 0 PROVE m = Len(from.cells)
    OBVIOUS
  <2>1. Len(from.cells) \in 0..Len(from.cells)
    BY <1>0
  <2>2. EndOf(from.cells, Len(from.cells)) <= offset
    BY <1>1, <1>2
  <2>3. Len(from.cells) <= m
    BY <2>1, <2>2, <1>3
  <2> QED
    BY <2>3, <1>0
<1> HIDE DEF offset
<1>6. /\ cells \in Cells /\ Len(cells) = Len(to.cells) + (m - p)
      /\ \A k \in 1..Len(to.cells) : cells[k] = to.cells[k]
      /\ \A i \in 1..(m - p) : cells[Len(to.cells) + i].arg = cut[p + i].arg
  <2>1. cells = Joined(to.cells, cut, p)
    BY DEF cut, offset, p
  <2>2. p \in 0..Len(cut) /\ \A j, k \in 0..Len(cut) : j < k => EndOf(cut, j) < EndOf(cut, k)
    BY <1>3, <1>4
  <2>3. /\ cells \in Cells /\ Len(cells) = Len(to.cells) + (Len(cut) - p)
        /\ \A k \in 1..Len(to.cells) : cells[k] = to.cells[k]
        /\ \A i \in 1..(Len(cut) - p) : cells[Len(to.cells) + i].arg = cut[p + i].arg
    <3>1. cut \in Cells /\ to.cells \in Cells /\ Integral(to.cells)
      BY <1>0, <1>3
    <3> QED
      BY <2>1, <2>2, <3>1, JoinedCells
  <2> QED
    BY <2>3, <1>3
<1>7. BytesSize(cells) \in Nat /\ BytesSize(cells) >= STREAM_HEADER_SIZE
  <2>1. Len(cells) \in 0..Len(cells)
    BY <1>0, <1>4, <1>6
  <2> QED
    BY <2>1, <1>6, Ends DEF BytesSize
<1>8. /\ sized \in StreamStates /\ sized.header = to.header /\ sized.cells = cells
      /\ sized.declared = BytesSize(cells) - STREAM_HEADER_SIZE
  BY <1>6, <1>7, SizedStream DEF sized, Good
<1>9. /\ new \in StreamStates /\ new.header = to.header /\ new.cells = cells
      /\ new.index = Null /\ new.declared = BytesSize(cells) - STREAM_HEADER_SIZE
  BY <1>8 DEF StreamStates
<1> HIDE DEF new
<1>10. Good(new)
  <2>1. Len(cells) <= MaxArgs
    <3>1. m - p <= Len(from.cells) /\ m - p \in Nat
      BY <1>0, <1>3, <1>4
    <3>2. Len(cells) = Len(to.cells) + (m - p)
      BY <1>6
    <3>3. Len(to.cells) \in Nat /\ Len(from.cells) \in Nat /\ MaxArgs \in Nat
      BY <1>0
    <3>4. \A x, y, l : /\ Len(x) \in Nat /\ Len(y) \in Nat /\ l \in Nat
                       /\ Len(x) + Len(y) <= MaxArgs /\ l <= Len(y)
                       => Len(x) + l <= MaxArgs
      BY <3>3
    <3>5. Len(to.cells) + (m - p) <= MaxArgs
      BY <3>1, <3>3, <3>4, Zenon
    <3> QED
      BY <3>2, <3>5
  <2>2. new.declared + STREAM_HEADER_SIZE = BytesSize(cells)
    BY <1>7, <1>9 DEF STREAM_HEADER_SIZE
  <2> QED
    BY <2>1, <2>2, <1>9, GoodStream DEF Good, WellFormed
<1>11. CellAt(new) = 1 /\ Title(new) = Title(to)
  BY <1>9, <1>10, AtStart DEF Title
<1> DEFINE rest == SubSeq(Contents(from), p + 1, m)
           all == Contents(to) \o rest
<1>12. /\ Contents(from) \in Seq(Args) /\ Len(Contents(from)) = Len(from.cells)
       /\ \A k \in 1..Len(from.cells) : Contents(from)[k] = from.cells[k].arg
       /\ Contents(to) \in Seq(Args) /\ Len(Contents(to)) = Len(to.cells)
       /\ \A k \in 1..Len(to.cells) : Contents(to)[k] = to.cells[k].arg
       /\ Contents(new) \in Seq(Args) /\ Len(Contents(new)) = Len(cells)
       /\ \A k \in 1..Len(cells) : Contents(new)[k] = cells[k].arg
  BY <1>9, <1>10, GoodStream
<1>13. /\ rest \in Seq(Args) /\ Len(rest) = m - p
       /\ \A i \in 1..(m - p) : rest[i] = from.cells[p + i].arg
  <2>1. p + 1 \in 1..(Len(Contents(from)) + 1) /\ m \in p..Len(Contents(from)) /\ p \in Nat
    BY <1>0, <1>3, <1>4, <1>12
  <2>2. /\ rest \in Seq(Args) /\ Len(rest) = m - p
        /\ \A i \in 1..(m - p) : rest[i] = Contents(from)[p + i]
    <3>1. /\ rest \in Seq(Args)
          /\ Len(rest) = IF p + 1 <= m THEN m - (p + 1) + 1 ELSE 0
          /\ \A i \in 1..(m - (p + 1) + 1) : rest[i] = Contents(from)[(p + 1) + i - 1]
      <4>1. \A i \in (p + 1)..m : i \in 1..Len(Contents(from))
        BY <2>1
      <4>2. p + 1 \in Int /\ m \in Int
        BY <2>1, <1>4
      <4> QED
        BY <4>1, <4>2, <1>12, SubSeqProperties
    <3>2. m - (p + 1) + 1 = m - p /\ (~(p + 1 <= m) => m - p = 0)
      BY <2>1, <1>4
    <3>3. \A i \in 1..(m - p) : (p + 1) + i - 1 = p + i
      BY <2>1
    <3> HIDE DEF rest
    <3> QED
      BY <3>1, <3>2, <3>3
  <2>3. \A i \in 1..(m - p) : p + i \in 1..Len(from.cells)
    BY <1>0, <1>3, <1>4
  <2> HIDE DEF rest
  <2> QED
    BY <2>2, <2>3, <1>12
<1> HIDE DEF rest
<1>14. /\ all \in Seq(Args) /\ Len(all) = Len(to.cells) + (m - p)
       /\ \A k \in 1..(Len(to.cells) + (m - p)) :
            all[k] = IF k <= Len(to.cells) THEN Contents(to)[k] ELSE rest[k - Len(to.cells)]
  <2>1. /\ all \in Seq(Args) /\ Len(all) = Len(Contents(to)) + Len(rest)
        /\ \A k \in 1..(Len(Contents(to)) + Len(rest)) :
             all[k] = IF k <= Len(Contents(to)) THEN Contents(to)[k]
                                                ELSE rest[k - Len(Contents(to))]
    <3>1. Contents(to) \in Seq(Args) /\ rest \in Seq(Args)
      BY <1>12, <1>13
    <3> QED
      BY <3>1, ConcatProperties
  <2>2. Len(Contents(to)) = Len(to.cells) /\ Len(rest) = m - p
    BY <1>12, <1>13
  <2> QED
    BY <2>1, <2>2
<1> HIDE DEF all
<1>15. ASSUME NEW k \in 1..Len(cells)
       PROVE  Contents(new)[k] = all[k]
  <2>0. k \in 1..(Len(to.cells) + (m - p)) /\ k \in Nat /\ m - p \in Nat
    BY <1>4, <1>6
  <2>1. CASE k <= Len(to.cells)
    <3>1. k \in 1..Len(to.cells)
      BY <2>0, <2>1, <1>0
    <3>2. all[k] = Contents(to)[k]
      BY <2>0, <2>1, <1>14
    <3>3. cells[k].arg = to.cells[k].arg
      BY <3>1, <1>6
    <3>4. Contents(to)[k] = to.cells[k].arg /\ Contents(new)[k] = cells[k].arg
      BY <3>1, <1>12
    <3> QED
      BY <3>2, <3>3, <3>4
  <2>2. CASE ~(k <= Len(to.cells))
    <3> DEFINE i == k - Len(to.cells)
    <3>1. i \in 1..(m - p) /\ k = Len(to.cells) + i
      BY <2>0, <2>2, <1>0
    <3> HIDE DEF i
    <3>2. all[k] = rest[i]
      BY <2>0, <2>2, <1>14 DEF i
    <3>3. cells[k].arg = cut[p + i].arg
      BY <3>1, <1>6
    <3>4. p + i \in 1..m
      BY <3>1, <1>4
    <3> QED
      BY <3>1, <3>2, <3>3, <3>4, <1>3, <1>12, <1>13
  <2> QED
    BY <2>1, <2>2
<1>16. Contents(new) = all
  <2>1. Len(Contents(new)) = Len(all)
    BY <1>6, <1>12, <1>14
  <2>2. \A k \in 1..Len(Contents(new)) : Contents(new)[k] = all[k]
    BY <1>12, <1>15
  <2> QED
    BY <2>1, <2>2, <1>12, <1>14, SameSeq
<1>17. m \in p..Len(Contents(from)) /\ (p = 0 => m = Len(Contents(from)))
  BY <1>0, <1>3, <1>4, <1>5, <1>12
<1> QED
  <2>1. \E last \in p..Len(Contents(from)) :
          /\ p = 0 => last = Len(Contents(from))
          /\ Contents(new) = Contents(to) \o SubSeq(Contents(from), p + 1, last)
    BY <1>16, <1>17 DEF all, rest
  <2> QED
    BY <2>1, <1>10, <1>11 DEF new, sized, p, Merged

-----------------------------------------------------------------------------
(* Steps.  Each keeps the streams well formed and is a step of ArgList.    *)

Deaths == {"", "Push_File", "PopArgument", "AppendArgData"}

\* What Safe says of the variables.
LEMMA SafeParts ==
  ASSUME Safe
  PROVE  /\ stream \in [Objects -> StreamStates \cup {Gone}]
         /\ \A s \in Objects : stream[s] # Gone => Good(stream[s])
         /\ wire \in Seq(StreamStates) /\ \A k \in 1..Len(wire) : Good(wire[k])
         /\ popped \in Args \cup {Null} /\ died \in Deaths
         /\ sent \in Nat /\ read \in Nat /\ up \in BOOLEAN
         /\ popped # Null => \E s \in Objects : stream[s] # Gone
<1>1. \A s \in Objects : stream[s] # Gone => Good(stream[s])
  BY DEF Safe, ConationTypeOK, Good
<1>2. \A k \in 1..Len(wire) : Good(wire[k])
  <2>1. wire \in Seq(StreamStates)
    BY DEF Safe, ConationTypeOK
  <2>2. \A k \in 1..Len(wire) : wire[k] \in StreamStates /\ k \in DOMAIN wire
    BY <2>1, ElementOfSeq
  <2> QED
    BY <2>2 DEF Safe, Good
<1> QED
  BY <1>1, <1>2 DEF Safe, ConationTypeOK, Deaths

\* What has to be shown of a step, for Safe.
LEMMA SafeFrom ==
  ASSUME stream' \in [Objects -> StreamStates \cup {Gone}],
         \A s \in Objects : stream'[s] # Gone => Good(stream'[s]),
         wire' \in Seq(StreamStates), \A k \in 1..Len(wire') : Good(wire'[k]),
         popped' \in Args \cup {Null}, died' \in Deaths,
         sent' \in Nat, read' \in Nat, up' \in BOOLEAN,
         popped' # Null => \E s \in Objects : stream'[s] # Gone
  PROVE  Safe'
<1>1. DOMAIN wire' = 1..Len(wire')
  OBVIOUS
<1> QED
  BY <1>1 DEF Safe, ConationTypeOK, Good, Deaths

\* One object gets another stream, or none.
LEMMA SafeSet ==
  ASSUME Safe, NEW t \in Objects, NEW st, st = Gone \/ Good(st), Set(t, st),
         popped' = Null \/ (popped' \in Args /\ st # Gone), UNCHANGED died
  PROVE  Safe'
<1>1. \A s \in Objects : stream'[s] = IF s = t THEN st ELSE stream[s]
  BY SafeParts DEF Set
<1>2. stream' \in [Objects -> StreamStates \cup {Gone}]
  BY SafeParts DEF Set, Good
<1>3. UNCHANGED <<wire, sent, read, up>>
  BY DEF Set, UnchangedLink
<1> QED
  BY <1>1, <1>2, <1>3, SafeParts, SafeFrom

\* A step of the connection.
LEMMA SafeLink ==
  ASSUME Safe, UNCHANGED stream, popped' = Null, died' \in Deaths,
         wire' = wire \/ wire' = <<>>, sent' \in Nat, read' \in Nat, up' \in BOOLEAN
  PROVE  Safe'
<1>1. wire' \in Seq(StreamStates) /\ \A k \in 1..Len(wire') : Good(wire'[k])
  <2>1. CASE wire' = wire
    BY <2>1, SafeParts
  <2>2. CASE wire' = <<>>
    BY <2>2
  <2> QED
    BY <2>1, <2>2
<1> QED
  BY <1>1, SafeParts, SafeFrom

\* The values that ArgList is given.
ListHeader == [s \in Objects |-> IF stream[s] = Gone THEN Gone ELSE Title(stream[s])]
ListContent == [s \in Objects |-> IF stream[s] = Gone THEN <<>> ELSE Contents(stream[s])]
ListPlace == [s \in Objects |-> IF stream[s] = Gone THEN 0 ELSE CellAt(stream[s]) - 1]
ListChannel == [k \in DOMAIN wire |-> [header |-> Title(wire[k]), content |-> Contents(wire[k])]]

HeaderOf(st) == IF st = Gone THEN Gone ELSE Title(st)
ContentOf(st) == IF st = Gone THEN <<>> ELSE Contents(st)
PlaceOf(st) == IF st = Gone THEN 0 ELSE CellAt(st) - 1

\* What ArgList calls live.
LEMMA IsList ==
  \A s : List!Live(s) <=> ListHeader[s] # Gone
BY DEF List!Live, ListHeader

\* What ArgList sees of an object.
LEMMA Knows ==
  ASSUME Safe, NEW s \in Objects
  PROVE  /\ List!Live(s) <=> stream[s] # Gone
         /\ ListHeader[s] = HeaderOf(stream[s]) /\ ListContent[s] = ContentOf(stream[s])
         /\ ListPlace[s] = PlaceOf(stream[s])
         /\ stream[s] # Gone => /\ Good(stream[s]) /\ ListHeader[s] = Title(stream[s])
                                /\ ListHeader[s] \in Titles /\ ListHeader[s] # Gone
                                /\ ListContent[s] = Contents(stream[s])
                                /\ ListPlace[s] = CellAt(stream[s]) - 1
<1>1. stream[s] # Gone => Good(stream[s])
  BY SafeParts
<1>2. stream[s] # Gone => Title(stream[s]) \in Titles
  BY <1>1, GoodStream
<1>3. Gone \notin Titles
  BY ConationAssumption DEF Titles
<1> QED
  BY <1>1, <1>2, <1>3, IsList DEF ListHeader, ListContent, ListPlace, HeaderOf, ContentOf, PlaceOf

\* What ArgList sees of an object that gets another stream, or none.
LEMMA Puts ==
  ASSUME Safe, NEW t \in Objects, NEW st, stream' = [stream EXCEPT ![t] = st]
  PROVE  /\ ListHeader' = [ListHeader EXCEPT ![t] = HeaderOf(st)]
         /\ ListContent' = [ListContent EXCEPT ![t] = ContentOf(st)]
         /\ ListPlace' = [ListPlace EXCEPT ![t] = PlaceOf(st)]
<1>1. \A s \in Objects : stream'[s] = IF s = t THEN st ELSE stream[s]
  BY SafeParts
<1>2. ListHeader' = [ListHeader EXCEPT ![t] = HeaderOf(st)]
  <2>1. /\ ListHeader = [s \in Objects |-> ListHeader[s]]
        /\ ListHeader' = [s \in Objects |-> ListHeader'[s]]
    BY DEF ListHeader
  <2>2. \A s \in Objects : ListHeader'[s] = IF s = t THEN HeaderOf(st) ELSE ListHeader[s]
    BY <1>1 DEF ListHeader, HeaderOf
  <2> QED
    BY <2>1, <2>2
<1>3. ListContent' = [ListContent EXCEPT ![t] = ContentOf(st)]
  <2>1. /\ ListContent = [s \in Objects |-> ListContent[s]]
        /\ ListContent' = [s \in Objects |-> ListContent'[s]]
    BY DEF ListContent
  <2>2. \A s \in Objects : ListContent'[s] = IF s = t THEN ContentOf(st) ELSE ListContent[s]
    BY <1>1 DEF ListContent, ContentOf
  <2> QED
    BY <2>1, <2>2
<1>4. ListPlace' = [ListPlace EXCEPT ![t] = PlaceOf(st)]
  <2>1. /\ ListPlace = [s \in Objects |-> ListPlace[s]]
        /\ ListPlace' = [s \in Objects |-> ListPlace'[s]]
    BY DEF ListPlace
  <2>2. \A s \in Objects : ListPlace'[s] = IF s = t THEN PlaceOf(st) ELSE ListPlace[s]
    BY <1>1 DEF ListPlace, PlaceOf
  <2> QED
    BY <2>1, <2>2
<1> QED
  BY <1>2, <1>3, <1>4

\* A stream becomes another.
LEMMA Continues ==
  ASSUME Safe, NEW s \in Objects, stream[s] # Gone, NEW new, Good(new),
         stream' = [stream EXCEPT ![s] = new]
  PROVE  /\ List!Live(s)
         /\ ListHeader' = [ListHeader EXCEPT ![s] = Title(new)]
         /\ ListContent' = [ListContent EXCEPT ![s] = Contents(new)]
         /\ ListPlace' = [ListPlace EXCEPT ![s] = CellAt(new) - 1]
         /\ Title(new) = Title(stream[s]) => UNCHANGED ListHeader
         /\ Contents(new) = Contents(stream[s]) => UNCHANGED ListContent
         /\ CellAt(new) = CellAt(stream[s]) => UNCHANGED ListPlace
<1>1. HeaderOf(new) = Title(new) /\ ContentOf(new) = Contents(new) /\ PlaceOf(new) = CellAt(new) - 1
  BY GoodStream DEF HeaderOf, ContentOf, PlaceOf
<1>2. /\ ListHeader' = [ListHeader EXCEPT ![s] = Title(new)]
      /\ ListContent' = [ListContent EXCEPT ![s] = Contents(new)]
      /\ ListPlace' = [ListPlace EXCEPT ![s] = CellAt(new) - 1]
  <2>1. /\ ListHeader' = [ListHeader EXCEPT ![s] = HeaderOf(new)]
        /\ ListContent' = [ListContent EXCEPT ![s] = ContentOf(new)]
        /\ ListPlace' = [ListPlace EXCEPT ![s] = PlaceOf(new)]
    BY Puts
  <2> QED
    BY <1>1, <2>1
<1>3. Title(new) = Title(stream[s]) => UNCHANGED ListHeader
  BY <1>2, Knows DEF ListHeader
<1>4. Contents(new) = Contents(stream[s]) => UNCHANGED ListContent
  BY <1>2, Knows DEF ListContent
<1>5. CellAt(new) = CellAt(stream[s]) => UNCHANGED ListPlace
  BY <1>2, Knows DEF ListPlace
<1> QED
  BY <1>2, <1>3, <1>4, <1>5, Knows

\* A step that leaves the streams alone gives one the header it has.
LEMMA Stays ==
  ASSUME Safe, UNCHANGED <<stream, wire>>, popped' = Null
  PROVE  List!Next \/ UNCHANGED List!vars
<1>1. UNCHANGED <<ListHeader, ListContent, ListPlace, ListChannel>>
  BY DEF ListHeader, ListContent, ListPlace, ListChannel
<1>2. CASE popped = Null
  BY <1>1, <1>2 DEF List!vars, ListHeader, ListContent, ListPlace, ListChannel
<1>3. CASE popped # Null
  <2>1. PICK s \in Objects : stream[s] # Gone
    BY <1>3, SafeParts
  <2>2. PICK h \in Titles : h = ListHeader[s]
    BY <2>1, Knows
  <2>3. ListHeader' = [ListHeader EXCEPT ![s] = h] /\ List!Live(s)
    BY <1>1, <2>1, <2>2, Knows DEF ListHeader
  <2>4. List!Retitle(s, h)
    BY <1>1, <2>3 DEF List!Retitle, ListHeader, ListContent, ListPlace, ListChannel
  <2> QED
    BY <2>4 DEF List!Next, Titles
<1> QED
  BY <1>2, <1>3

Kept == Safe' /\ (List!Next \/ UNCHANGED List!vars)

\* Calls on objects leave the channel of ArgList alone.
LEMMA SameChannel ==
  ASSUME UnchangedLink
  PROVE  UNCHANGED ListChannel
BY DEF UnchangedLink, ListChannel

\* Each call, on one object or two: what it makes of the stream is well formed,
\* and the call is one of ArgList.  First a call that ends the program.
LEMMA TerminateStep ==
  ASSUME Safe, NEW where \in Deaths, Terminate(where)
  PROVE  Kept
<1>1. /\ UNCHANGED <<stream, wire, sent, read, up>> /\ popped' = Null /\ died' \in Deaths
  BY DEF Terminate, UnchangedLink
<1>2. Safe'
  BY <1>1, SafeParts, SafeLink
<1> QED
  BY <1>1, <1>2, Stays DEF Kept

LEMMA ConstructStep ==
  ASSUME Safe, NEW s \in Objects, NEW h \in Headers, Construct(s, h)
  PROVE  Kept
<1> DEFINE new == Fresh(h)
           title == [cmd |-> h.cmd, flags |-> GetIdentFlags(h.composite),
                     ident |-> GetIdentInteger(h.composite)]
<1>1. /\ Set(s, new) /\ stream' = [stream EXCEPT ![s] = new] /\ UnchangedLink
      /\ stream[s] = Gone /\ popped' = Null /\ UNCHANGED died
  BY DEF Construct, Set
<1>2. /\ Good(new) /\ Contents(new) = <<>> /\ CellAt(new) = 1 /\ Title(new) = title
      /\ title \in Titles /\ new # Gone
  BY FreshStream, GoodStream
<1> HIDE DEF new, title
<1>3. Safe'
  BY <1>1, <1>2, SafeSet
<1>4. /\ ListHeader' = [ListHeader EXCEPT ![s] = title]
      /\ ListContent' = [ListContent EXCEPT ![s] = <<>>]
      /\ ListPlace' = [ListPlace EXCEPT ![s] = 0]
  <2>1. HeaderOf(new) = title /\ ContentOf(new) = <<>> /\ PlaceOf(new) = 0
    BY <1>2 DEF HeaderOf, ContentOf, PlaceOf
  <2>2. /\ ListHeader' = [ListHeader EXCEPT ![s] = HeaderOf(new)]
        /\ ListContent' = [ListContent EXCEPT ![s] = ContentOf(new)]
        /\ ListPlace' = [ListPlace EXCEPT ![s] = PlaceOf(new)]
    BY <1>1, Puts
  <2> QED
    BY <2>1, <2>2
<1>5. ~List!Live(s) /\ UNCHANGED ListChannel
  BY <1>1, Knows, SameChannel
<1>6. List!Make(s, title)
  BY <1>1, <1>4, <1>5 DEF List!Make, List!Put, ListHeader, ListContent, ListPlace, ListChannel
<1> QED
  BY <1>2, <1>3, <1>6 DEF Kept, List!Next, Titles

LEMMA AlterHeaderStep ==
  ASSUME Safe, NEW s \in Objects, NEW c \in Commands, AlterHeader(s, c)
  PROVE  Kept
<1> DEFINE st == stream[s]
           h == Header(c, GetIdentFlags(st.header.composite), GetIdentInteger(st.header.composite))
           new == [st EXCEPT !.header = h]
<1>1. /\ Set(s, new) /\ stream' = [stream EXCEPT ![s] = new] /\ UnchangedLink
      /\ stream[s] # Gone /\ popped' = Null /\ UNCHANGED died
  BY DEF AlterHeader, Set, Live
<1>2. Good(st)
  BY <1>1, SafeParts
<1>3. Good(new) /\ Title(new) \in Titles /\ Contents(new) = Contents(st) /\ CellAt(new) = CellAt(st)
  BY <1>2, RetitledStream
<1> HIDE DEF new, h
<1>4. Safe'
  BY <1>1, <1>3, SafeSet
<1>5. List!Live(s) /\ ListHeader' = [ListHeader EXCEPT ![s] = Title(new)]
      /\ UNCHANGED <<ListContent, ListPlace, ListChannel>>
  BY <1>1, <1>3, Continues, SameChannel
<1>6. PICK title \in Titles : title = Title(new)
  BY <1>3
<1>7. List!Retitle(s, title)
  BY <1>1, <1>5, <1>6 DEF List!Retitle, ListHeader, ListContent, ListPlace, ListChannel
<1> QED
  BY <1>4, <1>6, <1>7 DEF Kept, List!Next, Titles

LEMMA PushesStep ==
  ASSUME Safe, NEW s \in Objects, NEW a \in Args, NEW types, Pushes(s, a, types)
  PROVE  Kept
<1> DEFINE st == stream[s]
           new == Sized(st, Added(st.cells, a))
<1>1. /\ Set(s, new) /\ stream' = [stream EXCEPT ![s] = new] /\ UnchangedLink
      /\ stream[s] # Gone /\ popped' = Null /\ UNCHANGED died
      /\ st.index = Null /\ Len(st.cells) < MaxArgs
  BY DEF Pushes, Set, Live
<1>2. Good(st)
  BY <1>1, SafeParts
<1>3. /\ Good(new) /\ Title(new) = Title(st) /\ Contents(new) = Append(Contents(st), a)
      /\ CellAt(new) = CellAt(st)
  BY <1>1, <1>2, PushedStream
<1> HIDE DEF new
<1>4. Safe'
  BY <1>1, <1>3, SafeSet
<1>5. List!Live(s) /\ ListContent' = [ListContent EXCEPT ![s] = Contents(new)]
      /\ UNCHANGED <<ListHeader, ListPlace, ListChannel>>
  BY <1>1, <1>3, Continues, SameChannel
<1>6. ListContent' = [ListContent EXCEPT ![s] = Append(@, a)]
  BY <1>1, <1>3, <1>5, Knows
<1>7. List!Push(s, a)
  BY <1>1, <1>5, <1>6 DEF List!Push, ListHeader, ListContent, ListPlace, ListChannel
<1> QED
  BY <1>4, <1>7 DEF Kept, List!Next

LEMMA PopStep ==
  ASSUME Safe, NEW s \in Objects, NEW want, PopArgument(s, want)
  PROVE  Kept
<1> DEFINE st == stream[s]
           k == CellAt(st)
           new == [st EXCEPT !.index = EndOf(st.cells, k)]
           gets == Decoded(st.cells, k)
<1>1. stream[s] # Gone /\ Good(st)
  BY SafeParts DEF PopArgument, Live
<1>2. /\ Len(st.cells) \in Nat /\ k \in 1..(Len(st.cells) + 1)
      /\ st.declared + STREAM_HEADER_SIZE = BytesSize(st.cells)
      /\ Contents(st) \in Seq(Args) /\ Len(Contents(st)) = Len(st.cells)
  BY <1>1, GoodStream, TheCell DEF Good
<1>3. CASE Terminate("PopArgument")
  BY <1>3, TerminateStep DEF Deaths
<1>4. CASE st.cells # <<>> /\ k > Len(st.cells) /\ popped' = Null /\ UNCHANGED <<stream, died>> /\ UnchangedLink
  <2>1. Safe'
    BY <1>4, SafeParts, SafeLink DEF UnchangedLink
  <2>2. List!Next \/ UNCHANGED List!vars
    BY <1>4, Stays DEF UnchangedLink
  <2> QED
    BY <2>1, <2>2 DEF Kept
<1>5. CASE /\ k <= Len(st.cells) /\ Set(s, new) /\ UNCHANGED died
           /\ popped' = IF TypeOf[gets] \in want THEN gets ELSE Null
  <2>1. /\ Good(new) /\ Title(new) = Title(st) /\ Contents(new) = Contents(st)
        /\ CellAt(new) = k + 1 /\ k \in 1..Len(st.cells) /\ gets = Contents(st)[k]
    BY <1>1, <1>5, PoppedStream
  <2>2. gets \in Args /\ new # Gone
    BY <2>1, <1>2, ElementOfSeq, GoodStream
  <2>3. popped' \in {gets, Null} /\ stream' = [stream EXCEPT ![s] = new] /\ UnchangedLink
    BY <1>5 DEF Set
  <2> HIDE DEF new, gets, k
  <2>4. Safe'
    BY <1>5, <2>1, <2>2, <2>3, SafeSet
  <2>5. List!Live(s) /\ ListPlace' = [ListPlace EXCEPT ![s] = (k + 1) - 1]
        /\ UNCHANGED <<ListHeader, ListContent, ListChannel>>
    <3>1. /\ List!Live(s) /\ ListPlace' = [ListPlace EXCEPT ![s] = CellAt(new) - 1]
          /\ UNCHANGED ListHeader /\ UNCHANGED ListContent
      BY <1>1, <2>1, <2>3, Continues
    <3>2. UNCHANGED ListChannel
      BY <2>3, SameChannel
    <3> QED
      BY <3>1, <3>2, <2>1
  <2>6. ListPlace[s] = k - 1 /\ ListContent[s] = Contents(st)
    BY <1>1, Knows DEF k
  <2>7. /\ ListPlace[s] < Len(ListContent[s]) /\ ListContent[s][ListPlace[s] + 1] = gets
        /\ ListPlace' = [ListPlace EXCEPT ![s] = @ + 1]
    <3>1. k - 1 < Len(Contents(st)) /\ (k - 1) + 1 = k /\ (k + 1) - 1 = k
      BY <1>2, <2>1
    <3> QED
      BY <3>1, <2>1, <2>5, <2>6
  <2>8. List!Pop(s)
    BY <2>3, <2>5, <2>7 DEF List!Pop, ListHeader, ListContent, ListPlace, ListChannel
  <2> QED
    BY <2>4, <2>8 DEF Kept, List!Next
<1> QED
  BY <1>2, <1>3, <1>4, <1>5 DEF PopArgument

LEMMA RewindStep ==
  ASSUME Safe, NEW s \in Objects, Rewind(s)
  PROVE  Kept
<1> DEFINE st == stream[s]
           new == [st EXCEPT !.index = Null]
<1>1. /\ Set(s, new) /\ stream' = [stream EXCEPT ![s] = new] /\ UnchangedLink
      /\ stream[s] # Gone /\ popped' = Null /\ UNCHANGED died /\ Good(st)
  BY SafeParts DEF Rewind, Set, Live
<1>2. Good(new) /\ Title(new) = Title(st) /\ Contents(new) = Contents(st) /\ CellAt(new) = 1
  BY <1>1, RewoundStream
<1> HIDE DEF new
<1>3. Safe'
  BY <1>1, <1>2, SafeSet
<1>4. List!Live(s) /\ ListPlace' = [ListPlace EXCEPT ![s] = 0]
      /\ UNCHANGED <<ListHeader, ListContent, ListChannel>>
  <2>1. /\ List!Live(s) /\ ListPlace' = [ListPlace EXCEPT ![s] = CellAt(new) - 1]
        /\ UNCHANGED ListHeader /\ UNCHANGED ListContent
    BY <1>1, <1>2, Continues
  <2>2. UNCHANGED ListChannel /\ CellAt(new) - 1 = 0
    BY <1>1, <1>2, SameChannel
  <2> QED
    BY <2>1, <2>2
<1>5. List!Rewind(s)
  BY <1>1, <1>4 DEF List!Rewind, ListHeader, ListContent, ListPlace, ListChannel
<1> QED
  BY <1>3, <1>5 DEF Kept, List!Next

LEMMA WipeStep ==
  ASSUME Safe, NEW s \in Objects, WipeArgs(s)
  PROVE  Kept
<1> DEFINE st == stream[s]
           new == [st EXCEPT !.cells = <<>>, !.declared = 0]
<1>1. /\ Set(s, new) /\ stream' = [stream EXCEPT ![s] = new] /\ UnchangedLink
      /\ stream[s] # Gone /\ popped' = Null /\ UNCHANGED died /\ Good(st) /\ st.index = Null
  BY SafeParts DEF WipeArgs, Set, Live
<1>2. Good(new) /\ Title(new) = Title(st) /\ Contents(new) = <<>> /\ CellAt(new) = 1
  BY <1>1, WipedStream
<1> HIDE DEF new
<1>3. Safe'
  BY <1>1, <1>2, SafeSet
<1>4. /\ List!Live(s) /\ UNCHANGED ListChannel
      /\ ListHeader' = [ListHeader EXCEPT ![s] = ListHeader[s]]
      /\ ListContent' = [ListContent EXCEPT ![s] = <<>>]
      /\ ListPlace' = [ListPlace EXCEPT ![s] = 0]
  <2>1. /\ List!Live(s)
        /\ ListHeader' = [ListHeader EXCEPT ![s] = Title(new)]
        /\ ListContent' = [ListContent EXCEPT ![s] = Contents(new)]
        /\ ListPlace' = [ListPlace EXCEPT ![s] = CellAt(new) - 1]
    BY <1>1, <1>2, Continues
  <2>2. UNCHANGED ListChannel /\ CellAt(new) - 1 = 0 /\ ListHeader[s] = Title(new)
    BY <1>1, <1>2, Knows, SameChannel
  <2> QED
    BY <2>1, <2>2, <1>2
<1>5. List!Wipe(s)
  BY <1>1, <1>4 DEF List!Wipe, List!Put, ListHeader, ListContent, ListPlace, ListChannel
<1> QED
  BY <1>3, <1>5 DEF Kept, List!Next

LEMMA CopyStep ==
  ASSUME Safe, NEW s \in Objects, NEW t \in Objects, Copy(t, s)
  PROVE  Kept
<1> DEFINE st == stream[s]
<1>1. /\ Set(t, st) /\ stream' = [stream EXCEPT ![t] = st] /\ UnchangedLink
      /\ stream[s] # Gone /\ popped' = Null /\ UNCHANGED died /\ Good(st)
  BY SafeParts DEF Copy, Set, Live
<1>2. Safe'
  BY <1>1, SafeSet
<1>3. /\ List!Live(s) /\ UNCHANGED ListChannel
      /\ ListHeader' = [ListHeader EXCEPT ![t] = ListHeader[s]]
      /\ ListContent' = [ListContent EXCEPT ![t] = ListContent[s]]
      /\ ListPlace' = [ListPlace EXCEPT ![t] = ListPlace[s]]
  <2>1. /\ ListHeader' = [ListHeader EXCEPT ![t] = HeaderOf(st)]
        /\ ListContent' = [ListContent EXCEPT ![t] = ContentOf(st)]
        /\ ListPlace' = [ListPlace EXCEPT ![t] = PlaceOf(st)]
    BY <1>1, Puts
  <2>2. /\ HeaderOf(st) = ListHeader[s] /\ ContentOf(st) = ListContent[s]
        /\ PlaceOf(st) = ListPlace[s] /\ List!Live(s) /\ UNCHANGED ListChannel
    BY <1>1, Knows, SameChannel
  <2> QED
    BY <2>1, <2>2
<1>4. List!Copy(t, s)
  BY <1>1, <1>3 DEF List!Copy, List!Put, ListHeader, ListContent, ListPlace, ListChannel
<1> QED
  BY <1>2, <1>4 DEF Kept, List!Next

LEMMA LoadStep ==
  ASSUME Safe, NEW s \in Objects, NEW t \in Objects, Load(t, s)
  PROVE  Kept
<1> DEFINE st == stream[s]
           cells == Cut(st.cells, STREAM_HEADER_SIZE + st.declared)
           new == [st EXCEPT !.cells = cells, !.index = Null]
<1>1. /\ Set(t, new) /\ stream' = [stream EXCEPT ![t] = new] /\ UnchangedLink
      /\ stream[s] # Gone /\ popped' = Null /\ UNCHANGED died /\ Good(st)
  BY SafeParts DEF Load, Set, Live
<1>2. cells = st.cells
  BY <1>1, WholeStream
<1>3. new = [st EXCEPT !.index = Null]
  <2> HIDE DEF cells
  <2> QED
    BY <1>1, <1>2 DEF Good, StreamStates
<1>4. Good(new) /\ Title(new) = Title(st) /\ Contents(new) = Contents(st) /\ CellAt(new) = 1
  BY <1>1, <1>3, RewoundStream
<1> HIDE DEF new, cells
<1>5. Safe'
  BY <1>1, <1>4, SafeSet
<1>6. new # Gone
  BY <1>4, GoodStream
<1>7. /\ List!Live(s) /\ UNCHANGED ListChannel
      /\ ListHeader' = [ListHeader EXCEPT ![t] = ListHeader[s]]
      /\ ListContent' = [ListContent EXCEPT ![t] = ListContent[s]]
      /\ ListPlace' = [ListPlace EXCEPT ![t] = 0]
  <2>1. /\ ListHeader' = [ListHeader EXCEPT ![t] = HeaderOf(new)]
        /\ ListContent' = [ListContent EXCEPT ![t] = ContentOf(new)]
        /\ ListPlace' = [ListPlace EXCEPT ![t] = PlaceOf(new)]
    BY <1>1, Puts
  <2>2. HeaderOf(new) = Title(st) /\ ContentOf(new) = Contents(st) /\ PlaceOf(new) = 0
    BY <1>4, <1>6 DEF HeaderOf, ContentOf, PlaceOf
  <2>3. /\ ListHeader[s] = Title(st) /\ ListContent[s] = Contents(st)
        /\ List!Live(s) /\ UNCHANGED ListChannel
    BY <1>1, Knows, SameChannel
  <2> QED
    BY <2>1, <2>2, <2>3
<1>8. List!Load(t, s)
  BY <1>1, <1>7 DEF List!Load, List!Put, ListHeader, ListContent, ListPlace, ListChannel
<1> QED
  BY <1>5, <1>8 DEF Kept, List!Next

LEMMA FreeStep ==
  ASSUME Safe, NEW s \in Objects, Free(s)
  PROVE  Kept
<1>1. /\ Set(s, Gone) /\ stream' = [stream EXCEPT ![s] = Gone] /\ UnchangedLink
      /\ popped' = Null /\ UNCHANGED died
  BY DEF Free, Set
<1>2. Safe'
  BY <1>1, SafeSet
<1>3. /\ UNCHANGED ListChannel
      /\ ListHeader' = [ListHeader EXCEPT ![s] = Gone]
      /\ ListContent' = [ListContent EXCEPT ![s] = <<>>]
      /\ ListPlace' = [ListPlace EXCEPT ![s] = 0]
  BY <1>1, Puts, SameChannel DEF HeaderOf, ContentOf, PlaceOf
<1>4. List!Free(s)
  BY <1>1, <1>3 DEF List!Free, List!Put, ListHeader, ListContent, ListPlace, ListChannel
<1> QED
  BY <1>2, <1>4 DEF Kept, List!Next

LEMMA MoveStep ==
  ASSUME Safe, NEW s \in Objects, NEW t \in Objects, Move(t, s)
  PROVE  Kept
<1> DEFINE st == stream[s]
<1>1. /\ stream' = [stream EXCEPT ![t] = st, ![s] = Gone] /\ UnchangedLink /\ s # t
      /\ UNCHANGED <<wire, sent, read, up>>
      /\ st # Gone /\ popped' = Null /\ UNCHANGED died /\ Good(st)
      /\ st \in StreamStates
  BY SafeParts DEF Move, Live, UnchangedLink, Good
<1>2. /\ stream' \in [Objects -> StreamStates \cup {Gone}]
      /\ \A o \in Objects : stream'[o] = IF o = s THEN Gone ELSE IF o = t THEN st ELSE stream[o]
  BY <1>1, SafeParts
<1>3. Safe'
  <2>1. \A o \in Objects : stream'[o] # Gone => Good(stream'[o])
    BY <1>1, <1>2, SafeParts
  <2> QED
    BY <1>1, <1>2, <2>1, SafeParts, SafeFrom
<1>4. ListHeader' = [ListHeader EXCEPT ![t] = ListHeader[s], ![s] = Gone]
  <2>1. /\ ListHeader = [o \in Objects |-> ListHeader[o]]
        /\ ListHeader' = [o \in Objects |-> ListHeader'[o]]
    BY DEF ListHeader
  <2>2. \A o \in Objects : ListHeader'[o] =
          IF o = s THEN Gone ELSE IF o = t THEN ListHeader[s] ELSE ListHeader[o]
    BY <1>2 DEF ListHeader
  <2> QED
    BY <2>1, <2>2
<1>5. ListContent' = [ListContent EXCEPT ![t] = ListContent[s], ![s] = <<>>]
  <2>1. /\ ListContent = [o \in Objects |-> ListContent[o]]
        /\ ListContent' = [o \in Objects |-> ListContent'[o]]
    BY DEF ListContent
  <2>2. \A o \in Objects : ListContent'[o] =
          IF o = s THEN <<>> ELSE IF o = t THEN ListContent[s] ELSE ListContent[o]
    BY <1>2 DEF ListContent
  <2> QED
    BY <2>1, <2>2
<1>6. ListPlace' = [ListPlace EXCEPT ![t] = ListPlace[s], ![s] = 0]
  <2>1. /\ ListPlace = [o \in Objects |-> ListPlace[o]]
        /\ ListPlace' = [o \in Objects |-> ListPlace'[o]]
    BY DEF ListPlace
  <2>2. \A o \in Objects : ListPlace'[o] =
          IF o = s THEN 0 ELSE IF o = t THEN ListPlace[s] ELSE ListPlace[o]
    BY <1>2 DEF ListPlace
  <2> QED
    BY <2>1, <2>2
<1>7. List!Live(s) /\ UNCHANGED ListChannel
  BY <1>1, Knows, SameChannel
<1>8. List!Move(t, s)
  BY <1>1, <1>4, <1>5, <1>6, <1>7 DEF List!Move, ListHeader, ListContent, ListPlace, ListChannel
<1> QED
  BY <1>3, <1>8 DEF Kept, List!Next

LEMMA AppendStep ==
  ASSUME Safe, NEW s \in Objects, NEW t \in Objects, AppendArgData(t, s)
  PROVE  Kept
<1> DEFINE from == stream[s]
           to == stream[t]
           total == BytesSize(from.cells)
           n == (total - STREAM_HEADER_SIZE) - (IF from.index = Null THEN 0 ELSE from.index)
           cells == Joined(to.cells, Cut(from.cells, Offset(from) + n), CellAt(from) - 1)
           new == Merged(to, cells)
<1>1. /\ from # Gone /\ to # Gone /\ t # s /\ Good(from) /\ Good(to)
      /\ Len(to.cells) + Len(from.cells) <= MaxArgs
  BY SafeParts DEF AppendArgData, Live
<1>2. CASE UNCHANGED conationVars
  <2>1. UNCHANGED <<stream, popped, died, wire, sent, read, up>>
    BY <1>2 DEF conationVars
  <2>2. Safe'
    BY <2>1, SafeParts, SafeFrom
  <2>3. UNCHANGED List!vars
    BY <2>1 DEF List!vars
  <2> QED
    BY <2>2, <2>3 DEF Kept
<1>3. CASE Terminate("AppendArgData")
  BY <1>3, TerminateStep DEF Deaths
<1>4. CASE n >= 0 /\ Integral(cells) /\ Set(t, new) /\ popped' = Null /\ UNCHANGED died
  <2>1. n \in Nat
    <3>1. total \in Nat
      <4>1. Len(from.cells) \in 0..Len(from.cells) /\ from.cells \in Cells /\ Integral(from.cells)
        BY <1>1, GoodStream
      <4> QED
        BY <4>1, Ends DEF BytesSize
    <3>2. from.index \in Nat \cup {Null}
      BY <1>1 DEF Good, StreamStates
    <3> HIDE DEF total
    <3> QED
      BY <3>1, <3>2, <1>4 DEF STREAM_HEADER_SIZE
  <2>2. /\ Good(new) /\ Title(new) = Title(to) /\ CellAt(new) = 1
        /\ \E last \in (CellAt(from) - 1)..Len(Contents(from)) :
             /\ CellAt(from) - 1 = 0 => last = Len(Contents(from))
             /\ Contents(new) = Contents(to) \o SubSeq(Contents(from), (CellAt(from) - 1) + 1, last)
    <3>1. Integral(cells) /\ n \in {(BytesSize(from.cells) - STREAM_HEADER_SIZE)
                                     - (IF from.index = Null THEN 0 ELSE from.index)}
      BY <1>4
    <3>2. cells \in {Joined(to.cells, Cut(from.cells, Offset(from) + n), CellAt(from) - 1)}
      OBVIOUS
    <3>3. PICK m \in Nat : m = n
      BY <2>1
    <3>4. PICK joined : joined = cells
      OBVIOUS
    <3>6. Good(from) /\ Good(to) /\ Len(to.cells) + Len(from.cells) <= MaxArgs
      BY <1>1
    <3>7. m \in {(BytesSize(from.cells) - STREAM_HEADER_SIZE)
                    - (IF from.index = Null THEN 0 ELSE from.index)}
      BY <3>1, <3>3
    <3>8. joined \in {Joined(to.cells, Cut(from.cells, Offset(from) + m), CellAt(from) - 1)}
      BY <3>3, <3>4
    <3> HIDE DEF n, cells, new, from, to
    <3>9. Integral(joined)
      BY <3>1, <3>4
    <3>5. /\ Good(Merged(to, joined))
          /\ Title(Merged(to, joined)) = Title(to)
          /\ CellAt(Merged(to, joined)) = 1
          /\ \E last \in (CellAt(from) - 1)..Len(Contents(from)) :
               /\ CellAt(from) - 1 = 0 => last = Len(Contents(from))
               /\ Contents(Merged(to, joined)) =
                    Contents(to) \o SubSeq(Contents(from), (CellAt(from) - 1) + 1, last)
      BY <3>6, <3>7, <3>8, <3>9, AppendedStream
    <3> QED
      BY <3>4, <3>5 DEF new
  <2> HIDE DEF new, cells, n
  <2>3. Safe'
    BY <1>4, <2>2, SafeSet, GoodStream
  <2>4. /\ ListPlace[s] = CellAt(from) - 1 /\ ListContent[s] = Contents(from)
        /\ ListContent[t] = Contents(to) /\ ListHeader[t] = Title(new)
        /\ List!Live(s) /\ List!Live(t)
    BY <1>1, <2>2, Knows
  <2>5. stream' = [stream EXCEPT ![t] = new] /\ UnchangedLink
    BY <1>4 DEF Set
  <2>6. /\ UNCHANGED ListChannel
        /\ ListHeader' = [ListHeader EXCEPT ![t] = ListHeader[t]]
        /\ ListContent' = [ListContent EXCEPT ![t] = Contents(new)]
        /\ ListPlace' = [ListPlace EXCEPT ![t] = 0]
    <3>1. /\ ListHeader' = [ListHeader EXCEPT ![t] = Title(new)]
          /\ ListContent' = [ListContent EXCEPT ![t] = Contents(new)]
          /\ ListPlace' = [ListPlace EXCEPT ![t] = CellAt(new) - 1]
      BY <1>1, <2>2, <2>5, Continues
    <3>2. UNCHANGED ListChannel /\ CellAt(new) - 1 = 0
      BY <2>2, <2>5, SameChannel
    <3> QED
      BY <3>1, <3>2, <2>4
  <2>7. \E last \in ListPlace[s]..Len(ListContent[s]) :
          /\ ListPlace[s] = 0 => last = Len(ListContent[s])
          /\ ListContent' = [ListContent EXCEPT ![t] =
                ListContent[t] \o SubSeq(ListContent[s], ListPlace[s] + 1, last)]
    BY <2>2, <2>4, <2>6
  <2>8. List!Merge(t, s)
    BY <1>1, <1>4, <2>4, <2>6, <2>7 DEF List!Merge, List!Put, ListHeader, ListContent, ListPlace, ListChannel
  <2> QED
    BY <2>3, <2>8 DEF Kept, List!Next
<1> QED
  BY <1>2, <1>3, <1>4 DEF AppendArgData, Merged

\* All calls that no other program sees.
LEMMA ComposeStep ==
  ASSUME Safe, NEW s \in Objects, Compose(s)
  PROVE  Kept
<1>1. CASE \E h \in Headers : Construct(s, h)
  BY <1>1, ConstructStep
<1>2. CASE \E c \in Commands : AlterHeader(s, c)
  BY <1>2, AlterHeaderStep
<1>3. CASE \E a \in Args : \/ PushValue(s, a) \/ PushText(s, a)
                          \/ PushFile(s, a) \/ PushFilePath(s, a)
  <2>1. PICK a \in Args : \/ PushValue(s, a) \/ PushText(s, a)
                          \/ PushFile(s, a) \/ PushFilePath(s, a)
    BY <1>3
  <2>2. CASE Terminate("Push_File")
    BY <2>2, TerminateStep DEF Deaths
  <2>3. CASE \E types : Pushes(s, a, types)
    <3>1. PICK types : Pushes(s, a, types)
      BY <2>3
    <3> QED
      BY <3>1, PushesStep
  <2> QED
    BY <2>1, <2>2, <2>3 DEF PushValue, PushText, PushFile, PushFilePath
<1>4. CASE PushArgument(s)
  <2>1. PICK a \in Args : Pushes(s, a, ArgTypes)
    BY <1>4, SafeParts DEF PushArgument
  <2> QED
    BY <2>1, PushesStep
<1>5. CASE Rewind(s) \/ WipeArgs(s) \/ Free(s)
  BY <1>5, RewindStep, WipeStep, FreeStep
<1>6. CASE \E want \in Wants : PopArgument(s, want)
  BY <1>6, PopStep
<1>7. CASE \E t \in Objects : \/ Copy(t, s) \/ Load(t, s) \/ Move(t, s) \/ AppendArgData(t, s)
  BY <1>7, CopyStep, LoadStep, MoveStep, AppendStep
<1> QED
  BY <1>1, <1>2, <1>3, <1>4, <1>5, <1>6, <1>7 DEF Compose

-----------------------------------------------------------------------------
Item(st) == [header |-> Title(st), content |-> Contents(st)]
ChannelOf(w) == [k \in DOMAIN w |-> Item(w[k])]
Items == [header : Titles, content : Seq(Args)]
GoodSeq(w) == w \in Seq(StreamStates) /\ \A k \in 1..Len(w) : Good(w[k])

\* The streams on their way, as ArgList sees them.
LEMMA ChannelIsSeq ==
  ASSUME NEW w, GoodSeq(w)
  PROVE  /\ ChannelOf(w) \in Seq(Items) /\ Len(ChannelOf(w)) = Len(w) /\ Len(w) \in Nat
         /\ \A k \in 1..Len(w) : ChannelOf(w)[k] = Item(w[k])
<1>1. DOMAIN w = 1..Len(w) /\ Len(w) \in Nat
  BY DEF GoodSeq
<1>2. \A k \in 1..Len(w) : Item(w[k]) \in Items
  BY GoodStream DEF GoodSeq, Item, Items
<1>3. ChannelOf(w) \in [1..Len(w) -> Items]
  BY <1>1, <1>2 DEF ChannelOf
<1>4. ChannelOf(w) \in Seq(Items) /\ Len(ChannelOf(w)) = Len(w)
  BY <1>1, <1>3, SeqDef, LenProperties
<1> QED
  BY <1>1, <1>4 DEF ChannelOf

\* One more stream on its way.
LEMMA Sends ==
  ASSUME NEW w, GoodSeq(w), NEW st, Good(st)
  PROVE  GoodSeq(Append(w, st)) /\ ChannelOf(Append(w, st)) = Append(ChannelOf(w), Item(st))
<1> DEFINE more == Append(w, st)
<1>1. w \in Seq(StreamStates) /\ st \in StreamStates /\ Len(w) \in Nat
  BY DEF GoodSeq, Good
<1>2. /\ more \in Seq(StreamStates) /\ Len(more) = Len(w) + 1 /\ more[Len(w) + 1] = st
      /\ \A k \in 1..Len(w) : more[k] = w[k]
  BY <1>1, AppendProperties
<1> HIDE DEF more
<1>3. GoodSeq(more)
  <2> SUFFICES ASSUME NEW k \in 1..Len(more) PROVE Good(more[k])
    BY <1>2 DEF GoodSeq
  <2>1. k \in 1..Len(w) \/ k = Len(w) + 1
    BY <1>1, <1>2
  <2> QED
    BY <1>2, <2>1 DEF GoodSeq
<1>4. /\ ChannelOf(w) \in Seq(Items) /\ Len(ChannelOf(w)) = Len(w) /\ Len(w) \in Nat
      /\ \A k \in 1..Len(w) : ChannelOf(w)[k] = Item(w[k])
  BY ChannelIsSeq
<1>5. /\ ChannelOf(more) \in Seq(Items) /\ Len(ChannelOf(more)) = Len(w) + 1
      /\ \A k \in 1..(Len(w) + 1) : ChannelOf(more)[k] = Item(more[k])
  BY <1>2, <1>3, ChannelIsSeq
<1>6. Item(st) \in Items
  BY GoodStream DEF Item, Items
<1>7. /\ Append(ChannelOf(w), Item(st)) \in Seq(Items)
      /\ Len(Append(ChannelOf(w), Item(st))) = Len(w) + 1
      /\ Append(ChannelOf(w), Item(st))[Len(w) + 1] = Item(st)
      /\ \A k \in 1..Len(w) : Append(ChannelOf(w), Item(st))[k] = ChannelOf(w)[k]
  BY <1>4, <1>6, AppendProperties
<1>8. \A k \in 1..(Len(w) + 1) : k \in 1..Len(w) \/ k = Len(w) + 1
  BY <1>1
<1>9. \A k \in 1..(Len(w) + 1) : ChannelOf(more)[k] = Append(ChannelOf(w), Item(st))[k]
  BY <1>2, <1>4, <1>5, <1>7, <1>8
<1>10. ChannelOf(more) = Append(ChannelOf(w), Item(st))
  BY <1>5, <1>7, <1>9, SameSeq
<1> QED
  BY <1>3, <1>10 DEF more

\* The first of the streams on their way arrives.
LEMMA Receives ==
  ASSUME NEW w, GoodSeq(w), w # <<>>
  PROVE  /\ Good(Head(w)) /\ GoodSeq(Tail(w))
         /\ ChannelOf(w) # <<>> /\ Head(ChannelOf(w)) = Item(Head(w))
         /\ ChannelOf(Tail(w)) = Tail(ChannelOf(w))
<1>1. w \in Seq(StreamStates) /\ Len(w) \in Nat /\ Len(w) # 0 /\ 1 \in 1..Len(w)
  BY EmptySeq DEF GoodSeq
<1>2. /\ Head(w) = w[1] /\ Tail(w) \in Seq(StreamStates) /\ Len(Tail(w)) = Len(w) - 1
      /\ \A k \in 1..(Len(w) - 1) : Tail(w)[k] = w[k + 1] /\ k + 1 \in 1..Len(w)
  BY <1>1, HeadTailProperties
<1>3. GoodSeq(Tail(w)) /\ Good(Head(w))
  BY <1>1, <1>2 DEF GoodSeq
<1>4. /\ ChannelOf(w) \in Seq(Items) /\ Len(ChannelOf(w)) = Len(w)
      /\ \A k \in 1..Len(w) : ChannelOf(w)[k] = Item(w[k])
  BY ChannelIsSeq
<1>5. /\ ChannelOf(Tail(w)) \in Seq(Items) /\ Len(ChannelOf(Tail(w))) = Len(w) - 1
      /\ \A k \in 1..(Len(w) - 1) : ChannelOf(Tail(w))[k] = Item(Tail(w)[k])
  BY <1>2, <1>3, ChannelIsSeq
<1>6. ChannelOf(w) # <<>>
  BY <1>1, <1>4, EmptySeq
<1>7. /\ Head(ChannelOf(w)) = ChannelOf(w)[1] /\ Tail(ChannelOf(w)) \in Seq(Items)
      /\ Len(Tail(ChannelOf(w))) = Len(w) - 1
      /\ \A k \in 1..(Len(w) - 1) : Tail(ChannelOf(w))[k] = ChannelOf(w)[k + 1]
  BY <1>4, <1>6, HeadTailProperties
<1>8. \A k \in 1..(Len(w) - 1) : ChannelOf(Tail(w))[k] = Tail(ChannelOf(w))[k]
  BY <1>2, <1>4, <1>5, <1>7
<1>9. ChannelOf(Tail(w)) = Tail(ChannelOf(w))
  BY <1>5, <1>7, <1>8, SameSeq
<1> QED
  BY <1>1, <1>2, <1>3, <1>4, <1>6, <1>7, <1>9

\* The channel of ArgList is the wire.
LEMMA TheChannel ==
  ListChannel = ChannelOf(wire) /\ ListChannel' = ChannelOf(wire')
BY DEF ListChannel, ChannelOf, Item

\* What is on the wire is well formed,
LEMMA SafeWire ==
  ASSUME Safe
  PROVE  GoodSeq(wire)
BY SafeParts DEF GoodSeq

\* and has a size,
LEMMA SizesAreNat ==
  ASSUME NEW st, Good(st)
  PROVE  WireSize(st) \in Nat /\ st.declared \in Nat
<1>1. Len(st.cells) \in 0..Len(st.cells) /\ st.cells \in Cells /\ Integral(st.cells)
  BY GoodStream
<1>2. BytesSize(st.cells) \in Nat
  BY <1>1, Ends DEF BytesSize
<1> QED
  BY <1>2 DEF WireSize, Good, StreamStates

\* the first and the last of it as well.
LEMMA EndsOfWire ==
  ASSUME Safe, wire # <<>>
  PROVE  /\ Good(Head(wire)) /\ Good(Last(wire)) /\ Len(wire) \in Nat \ {0}
         /\ WireSize(Head(wire)) \in Nat /\ WireSize(Last(wire)) \in Nat
         /\ Head(wire).declared \in Nat
<1>1. GoodSeq(wire)
  BY SafeWire
<1>2. Len(wire) \in Nat /\ Len(wire) # 0 /\ Len(wire) \in 1..Len(wire)
  BY <1>1, EmptySeq DEF GoodSeq
<1>3. Good(Last(wire))
  BY <1>1, <1>2 DEF GoodSeq, Last
<1> QED
  BY <1>1, <1>2, <1>3, Receives, SizesAreNat

\* Transfers.  Those of whole streams are steps of ArgList, the others are none.
LEMMA TransmitStep ==
  ASSUME Safe, NEW s \in Objects, Transmit(s)
  PROVE  Kept
<1> DEFINE st == stream[s]
           new == [st EXCEPT !.index = Null]
<1>1. /\ stream' = [stream EXCEPT ![s] = Gone] /\ wire' = Append(wire, new) /\ st # Gone
      /\ sent' = 0 /\ popped' = Null /\ UNCHANGED <<died, read, up>> /\ Good(st)
  BY SafeParts DEF Transmit, Live
<1>2. Good(new) /\ Title(new) = Title(st) /\ Contents(new) = Contents(st)
  BY <1>1, RewoundStream
<1> HIDE DEF new
<1>3. GoodSeq(wire') /\ ListChannel' = Append(ListChannel, Item(new))
  BY <1>1, <1>2, SafeWire, Sends, TheChannel
<1>4. Safe'
  <2>1. stream' \in [Objects -> StreamStates \cup {Gone}]
    BY <1>1, SafeParts
  <2>2. \A o \in Objects : stream'[o] = IF o = s THEN Gone ELSE stream[o]
    BY <1>1, SafeParts
  <2>3. wire' \in Seq(StreamStates) /\ \A k \in 1..Len(wire') : Good(wire'[k])
    BY <1>3 DEF GoodSeq
  <2> QED
    BY <1>1, <2>1, <2>2, <2>3, SafeParts, SafeFrom
<1>5. /\ ListHeader' = [ListHeader EXCEPT ![s] = Gone]
      /\ ListContent' = [ListContent EXCEPT ![s] = <<>>]
      /\ ListPlace' = [ListPlace EXCEPT ![s] = 0]
  BY <1>1, Puts DEF HeaderOf, ContentOf, PlaceOf
<1>6. /\ List!Live(s)
      /\ ListChannel' = Append(ListChannel, [header |-> ListHeader[s], content |-> ListContent[s]])
  BY <1>1, <1>2, <1>3, Knows DEF Item
<1>7. List!Send(s)
  BY <1>1, <1>5, <1>6 DEF List!Send, List!Put, ListHeader, ListContent, ListPlace, ListChannel
<1> QED
  BY <1>4, <1>7 DEF Kept, List!Next

LEMMA DownloadStep ==
  ASSUME Safe, NEW t \in Objects, Download(t)
  PROVE  Kept
<1> DEFINE st == Head(wire)
           cells == Cut(st.cells, STREAM_HEADER_SIZE + st.declared)
           new == [st EXCEPT !.cells = cells, !.index = Null]
<1>1. /\ stream' = [stream EXCEPT ![t] = new] /\ wire # <<>> /\ wire' = Tail(wire)
      /\ stream[t] = Gone /\ read' = 0 /\ sent' \in {0, sent}
      /\ popped' = Null /\ UNCHANGED <<died, up>>
  BY DEF Download
<1>2. /\ Good(st) /\ GoodSeq(wire') /\ ListChannel # <<>> /\ Head(ListChannel) = Item(st)
      /\ ListChannel' = Tail(ListChannel)
  BY <1>1, SafeWire, Receives, TheChannel
<1>3. cells = st.cells
  BY <1>2, WholeStream
<1>4. new = [st EXCEPT !.index = Null]
  <2> HIDE DEF cells
  <2> QED
    BY <1>2, <1>3 DEF Good, StreamStates
<1>5. Good(new) /\ Title(new) = Title(st) /\ Contents(new) = Contents(st) /\ CellAt(new) = 1
  BY <1>2, <1>4, RewoundStream
<1> HIDE DEF new, cells
<1>6. Safe'
  <2>1. stream' \in [Objects -> StreamStates \cup {Gone}]
    BY <1>1, <1>5, SafeParts DEF Good
  <2>2. \A o \in Objects : stream'[o] = IF o = t THEN new ELSE stream[o]
    BY <1>1, SafeParts
  <2>3. wire' \in Seq(StreamStates) /\ \A k \in 1..Len(wire') : Good(wire'[k])
    BY <1>2 DEF GoodSeq
  <2>4. sent' \in Nat
    BY <1>1, SafeParts
  <2> QED
    BY <1>1, <1>5, <2>1, <2>2, <2>3, <2>4, SafeParts, SafeFrom
<1>7. /\ ListHeader' = [ListHeader EXCEPT ![t] = Head(ListChannel).header]
      /\ ListContent' = [ListContent EXCEPT ![t] = Head(ListChannel).content]
      /\ ListPlace' = [ListPlace EXCEPT ![t] = 0]
  <2>1. /\ ListHeader' = [ListHeader EXCEPT ![t] = HeaderOf(new)]
        /\ ListContent' = [ListContent EXCEPT ![t] = ContentOf(new)]
        /\ ListPlace' = [ListPlace EXCEPT ![t] = PlaceOf(new)]
    BY <1>1, Puts
  <2>2. HeaderOf(new) = Title(st) /\ ContentOf(new) = Contents(st) /\ PlaceOf(new) = 0
    BY <1>5, GoodStream DEF HeaderOf, ContentOf, PlaceOf
  <2>3. Head(ListChannel).header = Title(st) /\ Head(ListChannel).content = Contents(st)
    BY <1>2 DEF Item
  <2> QED
    BY <2>1, <2>2, <2>3
<1>8. ~List!Live(t)
  BY <1>1, Knows
<1>9. List!Receive(t)
  BY <1>1, <1>2, <1>7, <1>8 DEF List!Receive, List!Put, ListHeader, ListContent, ListPlace, ListChannel
<1> QED
  BY <1>6, <1>9 DEF Kept, List!Next

LEMMA WriteChunkStep ==
  ASSUME Safe, WriteChunk
  PROVE  Kept
<1>1. /\ wire # <<>> /\ sent < WireSize(Last(wire))
      /\ sent' = sent + Least(NET_MAX_CHUNK_SIZE, WireSize(Last(wire)) - sent)
      /\ popped' = Null /\ UNCHANGED <<stream, died, wire, read, up>>
  BY DEF WriteChunk
<1>2. WireSize(Last(wire)) \in Nat /\ sent \in Nat /\ NET_MAX_CHUNK_SIZE \in Nat
  BY <1>1, EndsOfWire, SafeParts, ConationAssumption
<1>3. sent' \in Nat
  BY <1>1, <1>2 DEF Least
<1>4. Safe'
  BY <1>1, <1>3, SafeParts, SafeLink
<1> QED
  BY <1>1, <1>4, Stays DEF Kept

LEMMA ReadChunkStep ==
  ASSUME Safe, ReadChunk
  PROVE  Kept
<1> DEFINE there == (IF Len(wire) = 1 THEN sent ELSE WireSize(Head(wire))) - read
           most == Least(Least(Needed - read, NET_MAX_CHUNK_SIZE), there)
<1>1. /\ wire # <<>> /\ most > 0
      /\ \E n \in Fragments \cup {most} : n <= most /\ read' = read + n
      /\ popped' = Null /\ UNCHANGED <<stream, died, wire, sent, up>>
  BY DEF ReadChunk
<1>2. /\ WireSize(Head(wire)) \in Nat /\ Head(wire).declared \in Nat /\ sent \in Nat
      /\ read \in Nat /\ NET_MAX_CHUNK_SIZE \in Nat /\ Fragments \subseteq Nat
  BY <1>1, EndsOfWire, SafeParts, ConationAssumption
<1>3. there \in Int /\ Needed \in Nat
  BY <1>2 DEF Needed, STREAM_HEADER_SIZE
<1> HIDE DEF there
<1>4. most \in Int
  BY <1>2, <1>3 DEF Least
<1> HIDE DEF most
<1>5. read' \in Nat
  BY <1>1, <1>2, <1>4
<1>6. Safe'
  BY <1>1, <1>5, SafeParts, SafeLink
<1> QED
  BY <1>1, <1>6, Stays DEF Kept

LEMMA GiveUpStep ==
  ASSUME Safe, GiveUp
  PROVE  Kept
<1>1. /\ wire' = <<>> /\ sent' = 0 /\ read' = 0 /\ up' = FALSE /\ popped' = Null
      /\ UNCHANGED <<stream, died>>
  BY DEF GiveUp
<1>2. Safe'
  BY <1>1, SafeParts, SafeLink
<1>3. ListChannel' = <<>> /\ UNCHANGED <<ListHeader, ListContent, ListPlace>>
  <2>1. ListChannel' = <<>>
    BY <1>1 DEF ListChannel
  <2> QED
    BY <1>1, <2>1 DEF ListHeader, ListContent, ListPlace
<1>4. List!Lose
  BY <1>1, <1>3 DEF List!Lose, ListHeader, ListContent, ListPlace, ListChannel
<1> QED
  BY <1>2, <1>4 DEF Kept, List!Next

LEMMA ConnectionStep ==
  ASSUME Safe, Breaks \/ Reconnect
  PROVE  Kept
<1>1. /\ up' \in BOOLEAN /\ popped' = Null /\ UNCHANGED <<stream, died, wire, sent, read>>
  BY DEF Breaks, Reconnect
<1>2. Safe'
  BY <1>1, SafeParts, SafeLink
<1> QED
  BY <1>1, <1>2, Stays DEF Kept

\* All steps.
LEMMA NextStep ==
  ASSUME Safe, [ConationNext]_conationVars
  PROVE  Kept
<1>1. CASE UNCHANGED conationVars
  <2>1. UNCHANGED <<stream, popped, died, wire, sent, read, up>>
    BY <1>1 DEF conationVars
  <2>2. Safe'
    BY <2>1, SafeParts, SafeFrom
  <2>3. UNCHANGED List!vars
    BY <2>1 DEF List!vars
  <2> QED
    BY <2>2, <2>3 DEF Kept
<1>2. CASE \E s \in Objects : Compose(s) \/ Transmit(s)
  BY <1>2, ComposeStep, TransmitStep
<1>3. CASE WriteChunk
  BY <1>3, WriteChunkStep
<1>4. CASE Downloads
  BY <1>4, ReadChunkStep, DownloadStep, GiveUpStep DEF Downloads, DownloadFails, DownloadRefused
<1>5. CASE Breaks \/ Reconnect
  BY <1>5, ConnectionStep
<1> QED
  BY <1>1, <1>2, <1>3, <1>4, <1>5 DEF ConationNext

\* The programs begin with no object and an empty wire.
LEMMA Starts ==
  ASSUME ConationInit
  PROVE  Safe /\ List!Init
<1>1. /\ stream = [s \in Objects |-> Gone] /\ popped = Null /\ died = ""
      /\ wire = <<>> /\ sent = 0 /\ read = 0 /\ up = TRUE
  BY DEF ConationInit
<1>2. Safe
  <2>1. <<>> \in Seq(StreamStates) /\ DOMAIN <<>> = {}
    OBVIOUS
  <2>2. stream \in [Objects -> StreamStates \cup {Gone}]
    BY <1>1
  <2>3. ConationTypeOK
    BY <1>1, <2>1, <2>2 DEF ConationTypeOK
  <2> QED
    BY <1>1, <2>1, <2>3 DEF Safe
<1>3. List!Init
  <2>1. ListHeader = [s \in Objects |-> Gone]
    BY <1>1 DEF ListHeader
  <2>2. ListContent = [s \in Objects |-> <<>>]
    BY <1>1 DEF ListContent
  <2>3. ListPlace = [s \in Objects |-> 0]
    BY <1>1 DEF ListPlace
  <2>4. ListChannel = <<>>
    <3>1. GoodSeq(wire) /\ Len(wire) = 0
      <4>1. GoodSeq(wire)
        BY <1>2, SafeWire
      <4> QED
        BY <1>1, <4>1
    <3>2. ChannelOf(wire) \in Seq(Items) /\ Len(ChannelOf(wire)) = 0
      BY <3>1, ChannelIsSeq
    <3> QED
      BY <3>2, EmptySeq, TheChannel
  <2> QED
    BY <1>1, <2>1, <2>2, <2>3, <2>4 DEF List!Init, ListHeader, ListContent, ListPlace, ListChannel
<1> QED
  BY <1>2, <1>3

\* Every vector is whole arguments with its iterator at the beginning of one
\* and its size in the header, after every call and on its way between programs.
THEOREM StreamsStayWellFormed ==
  ConationSpec => []Safe
<1>1. ConationInit => Safe
  BY Starts
<1>2. Safe /\ [ConationNext]_conationVars => Safe'
  BY NextStep DEF Kept
<1> QED
  BY <1>1, <1>2, PTL DEF ConationSpec

\* The vectors of bytes, their iterator arithmetic and the loops over chunks
\* implement lists of arguments that are pushed, popped, copied and sent whole.
THEOREM StreamsAreLists ==
  ConationSpec => ListSpec
<1>1. ConationInit => List!Init
  BY Starts
<1>2. Safe /\ [ConationNext]_conationVars => [List!Next]_(List!vars)
  BY NextStep DEF Kept
<1> QED
  BY <1>1, <1>2, StreamsStayWellFormed, PTL DEF ConationSpec, ListSpec, List!Spec

-----------------------------------------------------------------------------
(* The checks of argument types.                                           *)

\* The remainder from one number to the next, and at the multiples.
LEMMA Division ==
  ASSUME NEW d \in Nat \ {0}, NEW m \in Nat
  PROVE  m \div d \in Nat /\ m % d \in 0..(d - 1) /\ m = (m \div d) * d + (m % d)
<1>1. m \div d \in Nat
  OBVIOUS
<1>2. m % d \in 0..(d - 1)
  OBVIOUS
<1>3. m = (m \div d) * d + (m % d)
  OBVIOUS
<1> QED
  BY <1>1, <1>2, <1>3

\* The remainder of the next number is one more, or zero again.
LEMMA Remainders ==
  ASSUME NEW d \in Nat \ {0}, NEW m \in Nat
  PROVE  /\ (m % d) + 1 = d => (m + 1) % d = 0
         /\ (m % d) + 1 # d => (m + 1) % d = (m % d) + 1
<1>0. PICK q \in Nat : q = m \div d
  BY Division
<1>00. PICK r \in 0..(d - 1) : r = m % d
  BY Division
<1>1. m = q * d + r
  BY <1>0, <1>00, Division
<1>2. CASE r + 1 = d
  <2>1. (q + 1) * d + 0 = q * d + d
    OBVIOUS
  <2>2. m + 1 = q * d + d
    <3>1. q * d \in Nat
      OBVIOUS
    <3> QED
      BY <1>1, <1>2, <3>1
  <2>3. ((q + 1) * d + 0) % d = 0
    BY Arithmetic
  <2>4. (m + 1) % d = 0
    BY <2>1, <2>2, <2>3
  <2> QED
    BY <1>00, <1>2, <2>4
<1>3. CASE r + 1 # d
  <2>1. m + 1 = q * d + (r + 1)
    <3>1. q * d \in Nat
      OBVIOUS
    <3> QED
      BY <1>1, <3>1
  <2>2. r + 1 \in 0..(d - 1)
    BY <1>3
  <2>3. (q * d + (r + 1)) % d = r + 1
    BY <2>2, Arithmetic
  <2> QED
    BY <1>00, <1>3, <2>1, <2>3
<1> QED
  BY <1>2, <1>3

Back(inc, d, k) == IF inc[k - 1] = d THEN 0 ELSE inc[k - 1]

\* The loop that counts to the length of the list and begins again finds the
\* list repeated, and ends where a repetition does.
LEMMA Repeated ==
  ASSUME NEW d \in Nat \ {0}, NEW rest \in Nat \ {0}, NEW inc \in [0..rest -> 0..d],
         inc[0] = 0, inc[rest] = d, \A k \in 1..rest : inc[k] = Back(inc, d, k) + 1
  PROVE  /\ \A k \in 1..rest : Back(inc, d, k) = (k - 1) % d
         /\ \E n \in 1..rest : rest = n * d
<1> DEFINE S == {k \in 0..rest : k = 0 \/ inc[k] = ((k - 1) % d) + 1}
<1>1. \A k \in 1..rest : k - 1 \in S => Back(inc, d, k) = (k - 1) % d
  <2> SUFFICES ASSUME NEW k \in 1..rest, k - 1 \in S PROVE Back(inc, d, k) = (k - 1) % d
    OBVIOUS
  <2>1. CASE k - 1 = 0
    <3>1. 0 % d = 0
      OBVIOUS
    <3> QED
      BY <2>1, <3>1 DEF Back
  <2>2. CASE k - 1 # 0
    <3>1. k - 2 \in Nat /\ (k - 2) + 1 = k - 1 /\ (k - 1) - 1 = k - 2
      BY <2>2
    <3>2. inc[k - 1] = ((k - 2) % d) + 1
      BY <2>2, <3>1
    <3>3. /\ ((k - 2) % d) + 1 = d => (k - 1) % d = 0
          /\ ((k - 2) % d) + 1 # d => (k - 1) % d = ((k - 2) % d) + 1
      BY <3>1, Remainders
    <3> QED
      BY <3>2, <3>3 DEF Back
  <2> QED
    BY <2>1, <2>2
<1>2. 0..rest \subseteq S
  <2>1. 0 \in S
    OBVIOUS
  <2>2. \A k \in 1..rest : k - 1 \in S => k \in S
    BY <1>1
  <2> HIDE DEF S
  <2> QED
    BY <2>1, <2>2, UpTo
<1>3. \A k \in 1..rest : k - 1 \in S
  <2>1. \A k \in 1..rest : k - 1 \in 0..rest
    OBVIOUS
  <2> HIDE DEF S
  <2> QED
    BY <2>1, <1>2
<1>4. \E n \in 1..rest : rest = n * d
  <2>1. rest \in S
    <3> HIDE DEF S
    <3> QED
      BY <1>2
  <2>2. ((rest - 1) % d) + 1 = d /\ rest - 1 \in Nat
    BY <2>1
  <2>3. PICK q \in Nat : q = (rest - 1) \div d
    BY <2>2, Division
  <2>4. rest - 1 = q * d + (d - 1)
    <3>1. PICK r \in Nat : r = (rest - 1) % d
      BY <2>2, Division
    <3>2. rest - 1 = q * d + r
      BY <2>2, <2>3, <3>1, Division
    <3>3. r = d - 1
      BY <2>2, <3>1
    <3> QED
      BY <3>2, <3>3
  <2>5. (q + 1) * d = q * d + d /\ q * d \in Nat
    OBVIOUS
  <2>6. rest = (q + 1) * d
    BY <2>4, <2>5
  <2>7. q <= q * d
    OBVIOUS
  <2>8. q + 1 \in 1..rest
    BY <2>4, <2>5, <2>7
  <2> QED
    BY <2>6, <2>8
<1> QED
  BY <1>1, <1>3, <1>4

Counts(d, rest) ==
  \E inc \in [0..rest -> 0..d] :
    /\ inc[0] = 0 /\ inc[rest] = d
    /\ \A k \in 1..rest : Back(inc, d, k) = (k - 1) % d /\ inc[k] = Back(inc, d, k) + 1

\* And a list that is repeated is found so by the loop.
LEMMA Repeats ==
  ASSUME NEW d \in Nat \ {0}, NEW n \in Nat \ {0}, NEW rest \in Nat, rest \in {n * d}
  PROVE  rest >= 1 /\ rest >= d /\ Counts(d, rest)
<1> DEFINE inc == [k \in 0..rest |-> IF k = 0 THEN 0 ELSE ((k - 1) % d) + 1]
<1>1. PICK q \in Nat : n = q + 1
  <2>1. n - 1 \in Nat /\ n = (n - 1) + 1
    OBVIOUS
  <2> QED
    BY <2>1
<1>2. (q + 1) * d = q * d + d /\ q * d \in Nat
  OBVIOUS
<1>3. rest = q * d + d
  BY <1>1, <1>2
<1>4. rest >= 1 /\ rest >= d /\ rest - 1 = q * d + (d - 1)
  BY <1>2, <1>3
<1>5. (rest - 1) % d = d - 1
  <2>1. d - 1 \in 0..(d - 1)
    OBVIOUS
  <2>2. (q * d + (d - 1)) % d = d - 1
    BY <2>1, Arithmetic
  <2> QED
    BY <1>4, <2>2
<1>6. \A k \in 1..rest : k - 1 \in Nat /\ (k - 1) % d \in 0..(d - 1) /\ inc[k] = ((k - 1) % d) + 1
  <2> TAKE k \in 1..rest
  <2>1. k - 1 \in Nat /\ k \in 0..rest /\ k # 0
    OBVIOUS
  <2>2. (k - 1) % d \in 0..(d - 1)
    BY <2>1, Division
  <2> QED
    BY <2>1, <2>2
<1>7. inc \in [0..rest -> 0..d]
  <2>1. \A k \in 0..rest : (IF k = 0 THEN 0 ELSE ((k - 1) % d) + 1) \in 0..d
    <3> TAKE k \in 0..rest
    <3>1. CASE k = 0
      BY <3>1
    <3>2. CASE k # 0
      <4>1. k \in 1..rest
        BY <3>2
      <4>2. (k - 1) % d \in 0..(d - 1)
        BY <4>1, <1>6
      <4>3. ((k - 1) % d) + 1 \in 0..d
        BY <4>2
      <4> QED
        BY <3>2, <4>3
    <3> QED
      BY <3>1, <3>2
  <2> QED
    BY <2>1
<1>8. inc[0] = 0
  OBVIOUS
<1>9. inc[rest] = d
  <2>1. rest \in 1..rest
    BY <1>4
  <2>2. inc[rest] = ((rest - 1) % d) + 1
    BY <2>1, <1>6
  <2> HIDE DEF inc
  <2> QED
    BY <2>2, <1>5
<1> HIDE DEF inc
<1>10. \A k \in 1..rest : Back(inc, d, k) = (k - 1) % d
  <2> TAKE k \in 1..rest
  <2>1. CASE k = 1
    <3>1. 0 % d = 0
      OBVIOUS
    <3>2. inc[k - 1] = 0 /\ k - 1 = 0
      BY <2>1, <1>8
    <3> QED
      BY <3>1, <3>2 DEF Back
  <2>2. CASE k # 1
    <3>1. k - 1 \in 1..rest /\ k - 2 \in Nat /\ (k - 1) - 1 = k - 2 /\ (k - 2) + 1 = k - 1
      BY <2>2
    <3>2. inc[k - 1] = ((k - 2) % d) + 1
      BY <3>1, <1>6
    <3>3. /\ ((k - 2) % d) + 1 = d => (k - 1) % d = 0
          /\ ((k - 2) % d) + 1 # d => (k - 1) % d = ((k - 2) % d) + 1
      BY <3>1, Remainders
    <3> QED
      BY <3>2, <3>3 DEF Back
  <2> QED
    BY <2>1, <2>2
<1> QED
  BY <1>4, <1>6, <1>7, <1>8, <1>9, <1>10 DEF Counts

-----------------------------------------------------------------------------
ListTypes == ArgTypes \cup {"NONE"}

\* A list that a handler checks against.
LEMMA TheLists ==
  ASSUME NEW list \in Lists
  PROVE  list \in Seq(ListTypes) /\ Len(list) \in Nat /\ DOMAIN list = 1..Len(list)
         /\ (list # <<>> <=> Len(list) # 0)
<1>1. {TypeOf[a] : a \in Args} \cup {"NONE"} \subseteq ListTypes
  BY ConationAssumption DEF ListTypes
<1>2. PICK m \in 0..MaxList : list \in [1..m -> {TypeOf[a] : a \in Args} \cup {"NONE"}]
  BY DEF Lists, BoundedSeq, SeqOf
<1>3. m \in Nat
  BY ConationAssumption
<1>4. list \in [1..m -> ListTypes]
  BY <1>1, <1>2
<1>5. list \in Seq(ListTypes)
  BY <1>3, <1>4, SeqDef
<1> QED
  BY <1>5, EmptySeq

\* The types of a stream.
LEMMA TheTypes ==
  ASSUME NEW st, Good(st)
  PROVE  /\ GetArgTypes(st) \in Seq(ArgTypes) /\ GetArgTypes(st) \in Seq(ListTypes)
         /\ Len(GetArgTypes(st)) \in 0..MaxArgs
         /\ DOMAIN GetArgTypes(st) = 1..Len(GetArgTypes(st))
         /\ (GetArgTypes(st) # <<>> <=> Len(GetArgTypes(st)) # 0)
<1>1. /\ DOMAIN st.cells = 1..Len(st.cells) /\ Len(st.cells) \in 0..MaxArgs /\ Len(st.cells) \in Nat
      /\ \A k \in 1..Len(st.cells) : st.cells[k].arg \in Args
  BY GoodStream, ConationAssumption
<1>2. \A k \in 1..Len(st.cells) : TypeOf[st.cells[k].arg] \in ArgTypes
  BY <1>1, ConationAssumption
<1>3. GetArgTypes(st) \in [1..Len(st.cells) -> ArgTypes]
  BY <1>1, <1>2 DEF GetArgTypes
<1>4. GetArgTypes(st) \in [1..Len(st.cells) -> ListTypes]
  BY <1>3 DEF ListTypes
<1>5. /\ GetArgTypes(st) \in Seq(ArgTypes) /\ GetArgTypes(st) \in Seq(ListTypes)
      /\ Len(GetArgTypes(st)) = Len(st.cells)
  BY <1>1, <1>3, <1>4, SeqDef, LenProperties
<1> QED
  BY <1>1, <1>5, EmptySeq

\* Two sequences are equal, or one begins the other.
LEMMA Compare ==
  ASSUME NEW S, NEW s \in Seq(S), NEW r \in Seq(S)
  PROVE  /\ r = s <=> Len(s) = Len(r) /\ \A k \in DOMAIN r : r[k] = s[k]
         /\ IsPrefix(r, s) <=> Len(s) >= Len(r) /\ \A k \in DOMAIN r : r[k] = s[k]
<1>1. Len(s) \in Nat /\ Len(r) \in Nat /\ DOMAIN r = 1..Len(r)
  OBVIOUS
<1>2. r = s <=> Len(s) = Len(r) /\ \A k \in DOMAIN r : r[k] = s[k]
  BY <1>1, SeqEqual
<1>3. ASSUME Len(r) <= Len(s)
      PROVE  SubSeq(r, 1, Len(r)) = SubSeq(s, 1, Len(r)) <=> \A k \in 1..Len(r) : r[k] = s[k]
  <2>1. SubSeq(r, 1, Len(r)) = [k \in 1..Len(r) |-> r[k]]
    BY <1>1
  <2>2. SubSeq(s, 1, Len(r)) = [k \in 1..Len(r) |-> s[k]]
    BY <1>1
  <2> QED
    BY <2>1, <2>2
<1> QED
  BY <1>1, <1>2, <1>3 DEF IsPrefix

\* The three checks, for one stream, list and offset.
LEMMA TypesCheck ==
  ASSUME NEW st, Good(st), NEW list \in Lists
  PROVE  VerifyArgTypes(st, list) <=>
           \/ GetArgTypes(st) = list
           \/ GetArgTypes(st) = <<>> /\ list # <<>> /\ list[1] = "NONE"
<1> DEFINE types == GetArgTypes(st)
<1>1. types \in Seq(ListTypes) /\ list \in Seq(ListTypes)
  BY TheTypes, TheLists
<1>2. list = types <=> Len(types) = Len(list) /\ \A k \in DOMAIN list : list[k] = types[k]
  BY <1>1, Compare
<1>3. VerifyArgTypes(st, list) <=>
        IF types = <<>> THEN list = <<>> \/ list[1] = "NONE"
        ELSE Len(types) = Len(list) /\ \A k \in DOMAIN list : list[k] = types[k]
  BY DEF VerifyArgTypes
<1> HIDE DEF types
<1>4. CASE types = <<>>
  BY <1>3, <1>4 DEF types
<1>5. CASE types # <<>>
  BY <1>2, <1>3, <1>5 DEF types
<1> QED
  BY <1>4, <1>5 DEF types

LEMMA StartCheck ==
  ASSUME NEW st, Good(st), NEW list \in Lists
  PROVE  VerifyArgTypesStartWith(st, list) <=>
           \/ IsPrefix(list, GetArgTypes(st))
           \/ GetArgTypes(st) = <<>> /\ list # <<>> /\ list[1] = "NONE"
<1> DEFINE types == GetArgTypes(st)
<1>1. /\ types \in Seq(ListTypes) /\ list \in Seq(ListTypes) /\ Len(list) \in Nat
      /\ (list # <<>> <=> Len(list) # 0) /\ DOMAIN list = 1..Len(list)
  BY TheTypes, TheLists
<1>2. IsPrefix(list, types) <=> Len(types) >= Len(list) /\ \A k \in DOMAIN list : list[k] = types[k]
  BY <1>1, Compare
<1>3. VerifyArgTypesStartWith(st, list) <=>
        IF types = <<>> THEN list = <<>> \/ list[1] = "NONE"
        ELSE Len(types) >= Len(list) /\ \A k \in DOMAIN list : list[k] = types[k]
  BY DEF VerifyArgTypesStartWith
<1> HIDE DEF types
<1>4. CASE types = <<>>
  <2>1. IsPrefix(list, types) <=> list = <<>>
    <3>1. Len(types) = 0
      BY <1>4
    <3>2. CASE list = <<>>
      BY <1>1, <1>2, <3>1, <3>2
    <3>3. CASE list # <<>>
      BY <1>1, <1>2, <3>1, <3>3
    <3> QED
      BY <3>2, <3>3
  <2> QED
    BY <1>3, <1>4, <2>1 DEF types
<1>5. CASE types # <<>>
  BY <1>2, <1>3, <1>5 DEF types
<1> QED
  BY <1>4, <1>5 DEF types

LEMMA PatternCheck ==
  ASSUME NEW st, Good(st), NEW list \in Lists, NEW offset \in 0..MaxArgs
  PROVE  VerifyArgTypePattern(st, offset, list) <=>
           \E n \in 1..MaxArgs :
             /\ list # <<>>
             /\ Len(GetArgTypes(st)) = offset + n * Len(list)
             /\ \A k \in 1..(n * Len(list)) :
                  GetArgTypes(st)[offset + k] = list[((k - 1) % Len(list)) + 1]
<1> DEFINE types == GetArgTypes(st)
           rest == Len(types) - offset
           d == Len(list)
<1>1. /\ Len(types) \in 0..MaxArgs /\ (types # <<>> <=> Len(types) # 0) /\ MaxArgs \in Nat
      /\ d \in Nat /\ (list # <<>> <=> d # 0)
  BY TheTypes, TheLists, ConationAssumption
<1>2. VerifyArgTypePattern(st, offset, list) <=>
        /\ types # <<>> /\ rest >= 1 /\ rest >= d /\ list # <<>>
        /\ \E inc \in [0..rest -> 0..d] :
             /\ inc[0] = 0 /\ inc[rest] = d
             /\ \A k \in 1..rest : /\ types[offset + k] = list[Back(inc, d, k) + 1]
                                    /\ inc[k] = Back(inc, d, k) + 1
  BY DEF VerifyArgTypePattern, Back
<1> HIDE DEF types, d
<1>3. ASSUME VerifyArgTypePattern(st, offset, list)
      PROVE  \E n \in 1..MaxArgs :
               /\ list # <<>> /\ Len(types) = offset + n * d
               /\ \A k \in 1..(n * d) : types[offset + k] = list[((k - 1) % d) + 1]
  <2>1. rest \in Nat \ {0} /\ rest <= MaxArgs /\ d \in Nat \ {0} /\ list # <<>>
        /\ Len(types) = offset + rest
    BY <1>1, <1>2, <1>3
  <2>2. PICK inc \in [0..rest -> 0..d] :
          /\ inc[0] = 0 /\ inc[rest] = d
          /\ \A k \in 1..rest : /\ types[offset + k] = list[Back(inc, d, k) + 1]
                                 /\ inc[k] = Back(inc, d, k) + 1
    BY <1>2, <1>3
  <2> HIDE DEF rest
  <2>3. /\ \A k \in 1..rest : Back(inc, d, k) = (k - 1) % d
        /\ \E n \in 1..rest : rest = n * d
    BY <2>1, <2>2, Repeated
  <2>4. PICK n \in 1..rest : rest = n * d
    BY <2>3
  <2>5. n \in 1..MaxArgs
    BY <2>1, <1>1
  <2>6. \A k \in 1..rest : types[offset + k] = list[((k - 1) % d) + 1]
    BY <2>2, <2>3
  <2> QED
    BY <2>1, <2>4, <2>5, <2>6
<1>4. ASSUME NEW n \in 1..MaxArgs, list # <<>>, Len(types) = offset + n * d,
             \A k \in 1..(n * d) : types[offset + k] = list[((k - 1) % d) + 1]
      PROVE  VerifyArgTypePattern(st, offset, list)
  <2>1. d \in Nat \ {0} /\ n \in Nat \ {0} /\ n * d \in Nat
    <3>1. d \in Nat \ {0} /\ n \in Nat \ {0}
      BY <1>1, <1>4
    <3> QED
      BY <3>1
  <2>2. rest = n * d
    BY <1>4, <2>1
  <2>3. PICK left \in Nat : left = n * d /\ left \in {n * d}
    BY <2>1
  <2>4. left >= 1 /\ left >= d /\ Counts(d, left)
    <3> HIDE DEF rest
    <3>1. d \in Nat \ {0}
      BY <2>1
    <3>2. n \in Nat \ {0}
      BY <2>1
    <3>3. left \in Nat
      OBVIOUS
    <3>4. left \in {n * d}
      BY <2>3
    <3> QED
      BY <3>1, <3>2, <3>3, <3>4, Repeats
  <2>5. rest = left
    BY <2>2, <2>3
  <2>6. types # <<>>
    BY <1>1, <1>4, <2>3, <2>4
  <2>7. \A k \in 1..left : types[offset + k] = list[((k - 1) % d) + 1]
    BY <1>4, <2>3
  <2> HIDE DEF rest
  <2>8. \E inc \in [0..left -> 0..d] :
          /\ inc[0] = 0 /\ inc[left] = d
          /\ \A k \in 1..left : /\ types[offset + k] = list[Back(inc, d, k) + 1]
                                 /\ inc[k] = Back(inc, d, k) + 1
    BY <2>4, <2>7 DEF Counts
  <2> QED
    BY <1>2, <1>4, <2>4, <2>5, <2>6, <2>8
<1> QED
  BY <1>3, <1>4 DEF types, d

\* The checks that every handler makes of its arguments, VerifyArgTypes,
\* VerifyArgTypesStartWith and the counting loop of VerifyArgTypePattern, say
\* what their names say of every stream there is and every list.
THEOREM ArgumentChecks ==
  ConationSpec => []ChecksAgree
<1>1. Safe => ChecksAgree
  <2> SUFFICES ASSUME Safe, NEW s \in Objects, stream[s] # Gone, NEW list \in Lists
               PROVE  LET types == GetArgTypes(stream[s])
                          none == types = <<>> /\ list # <<>> /\ list[1] = "NONE" IN
                      /\ VerifyArgTypes(stream[s], list) <=> types = list \/ none
                      /\ VerifyArgTypesStartWith(stream[s], list) <=> IsPrefix(list, types) \/ none
                      /\ \A offset \in 0..MaxArgs :
                           VerifyArgTypePattern(stream[s], offset, list) <=>
                             \E n \in 1..MaxArgs :
                               /\ list # <<>>
                               /\ Len(types) = offset + n * Len(list)
                               /\ \A k \in 1..(n * Len(list)) :
                                    types[offset + k] = list[((k - 1) % Len(list)) + 1]
    BY DEF ChecksAgree
  <2>1. PICK st : st = stream[s] /\ Good(st)
    BY SafeParts
  <2> QED
    BY <2>1, TypesCheck, StartCheck, PatternCheck
<1> QED
  BY <1>1, StreamsStayWellFormed, PTL

-----------------------------------------------------------------------------
(* WriteQueue.                                                             *)

USE DEF ThreadStates, Running, baseVars, connVars, threadVars, pushVars,
        ownerVars

-----------------------------------------------------------------------------
\* Every step keeps the types, given that a thread that writes has a stream
\* to write.
LEMMA TypeStep == TypeOK /\ HeadHeld /\ [Next]_vars => TypeOK'
<1> SUFFICES ASSUME TypeOK, HeadHeld, [Next]_vars PROVE TypeOK'
  OBVIOUS
<1> USE DEF TypeOK
<1>1. ASSUME NEW p \in Pushers, NEW s \in Streams, Push(p, s)
      PROVE  TypeOK'
  <2>1. /\ Append(queue, s) \in Seq(Streams)
        /\ Append(pushed, s) \in Seq(Streams)
    BY AppendProperties
  <2> QED
    BY <1>1, <2>1 DEF Push
<1>2. ASSUME NEW p \in Pushers, PushReadSize(p) PROVE TypeOK'
  BY <1>2 DEF PushReadSize
<1>3. ASSUME NEW p \in Pushers, PushSetNumOnQueue(p) PROVE TypeOK'
  BY <1>3 DEF PushSetNumOnQueue
<1>4. ASSUME NEW p \in Pushers, PushPost(p) PROVE TypeOK'
  BY <1>4 DEF PushPost
<1>5. CASE ThreadReturn
  BY <1>5 DEF ThreadReturn
<1>6. CASE ThreadFindNothing
  BY <1>6 DEF ThreadFindNothing
<1>7. CASE ThreadTakeHead
  <2>1. Head(queue) \in Streams
    BY <1>7, HeadTailProperties DEF ThreadTakeHead
  <2> QED
    BY <1>7, <2>1 DEF ThreadTakeHead
<1>8. CASE ThreadWake
  BY <1>8 DEF ThreadWake
<1>9. CASE ThreadWrote
  <2>1. head \in Streams
    BY <1>9, HeadTailProperties DEF ThreadWrote, HeadHeld
  <2>2. Append(written, head) \in Seq(Streams)
    BY <2>1, AppendProperties
  <2> QED
    BY <1>9, <2>2 DEF ThreadWrote
<1>10. CASE ThreadPop
  <2>1. Tail(queue) \in Seq(Streams)
    BY <1>10, HeadTailProperties DEF ThreadPop, HeadHeld
  <2> QED
    BY <1>10, <2>1 DEF ThreadPop
<1>11. CASE ThreadThrew
  BY <1>11 DEF ThreadThrew
<1>12. CASE ThreadSetError
  BY <1>12 DEF ThreadSetError
<1>13. CASE ThreadReadSize
  BY <1>13 DEF ThreadReadSize
<1>14. CASE ThreadSetValues
  BY <1>14 DEF ThreadSetValues
<1>15. CASE ThreadCancelled
  BY <1>15 DEF ThreadCancelled
<1>16. CASE ThreadReport
  BY <1>16 DEF ThreadReport
<1>17. ASSUME NEW new \in BOOLEAN, Begin(new) PROVE TypeOK'
  <2>1. conn' \in 0 .. MaxConn
    BY <1>17, ConstantsAssumption DEF Begin
  <2> QED
    BY <1>17, <2>1 DEF Begin
<1>18. ASSUME NEW forever \in BOOLEAN, StopThread(forever)
      PROVE  TypeOK'
  BY <1>18 DEF StopThread
<1>19. CASE StopJoin
  BY <1>19 DEF StopJoin
<1>20. CASE StopPreCheck
  BY <1>20 DEF StopPreCheck
<1>21. CASE StopKillJoin
  BY <1>21 DEF StopKillJoin
<1>22. CASE ClearError
  BY <1>22 DEF ClearError
<1>23. CASE Destroy
  BY <1>23 DEF Destroy
<1>24. CASE LinkFails
  BY <1>24 DEF LinkFails
<1>25. CASE UNCHANGED vars
  BY <1>25 DEF vars
<1> QED
  BY <1>1, <1>2, <1>3, <1>4, <1>5, <1>6, <1>7, <1>8, <1>9, <1>10, <1>11,
     <1>12, <1>13, <1>14, <1>15, <1>16, <1>17, <1>18, <1>19, <1>20, <1>21,
     <1>22, <1>23, <1>24, <1>25
    DEF Next, ThreadStep, PushStep, StopStep

-----------------------------------------------------------------------------
\* A thread that writes has the head of the queue in hand and nobody takes it
\* away: only the thread pops, and the pushers add behind.
LEMMA HeadStep ==
  TypeOK /\ HeadHeld /\ DestroyedIsQuiet /\ [Next]_vars => HeadHeld'
<1> SUFFICES ASSUME TypeOK, HeadHeld, DestroyedIsQuiet, [Next]_vars
             PROVE  HeadHeld'
  OBVIOUS
<1> USE DEF TypeOK, HeadHeld
<1>1. ASSUME NEW p \in Pushers, NEW s \in Streams, Push(p, s)
      PROVE  HeadHeld'
  <2>1. Append(queue, s) # <<>>
    BY AppendProperties
  <2>2. queue # <<>> => Head(Append(queue, s)) = Head(queue)
    BY HeadTailAppend
  <2> QED
    BY <1>1, <2>1, <2>2 DEF Push
<1>2. ASSUME NEW p \in Pushers, PushReadSize(p) PROVE HeadHeld'
  BY <1>2 DEF PushReadSize
<1>3. ASSUME NEW p \in Pushers, PushSetNumOnQueue(p) PROVE HeadHeld'
  BY <1>3 DEF PushSetNumOnQueue
<1>4. ASSUME NEW p \in Pushers, PushPost(p) PROVE HeadHeld'
  BY <1>4 DEF PushPost
<1>5. CASE ThreadReturn
  BY <1>5 DEF ThreadReturn
<1>6. CASE ThreadFindNothing
  BY <1>6 DEF ThreadFindNothing
<1>7. CASE ThreadTakeHead
  BY <1>7 DEF ThreadTakeHead
<1>8. CASE ThreadWake
  BY <1>8 DEF ThreadWake
<1>9. CASE ThreadWrote
  BY <1>9 DEF ThreadWrote
<1>10. CASE ThreadPop
  BY <1>10 DEF ThreadPop
<1>11. CASE ThreadThrew
  BY <1>11 DEF ThreadThrew
<1>12. CASE ThreadSetError
  BY <1>12 DEF ThreadSetError
<1>13. CASE ThreadReadSize
  BY <1>13 DEF ThreadReadSize
<1>14. CASE ThreadSetValues
  BY <1>14 DEF ThreadSetValues
<1>15. CASE ThreadCancelled
  BY <1>15 DEF ThreadCancelled
<1>16. CASE ThreadReport
  BY <1>16 DEF ThreadReport
<1>17. ASSUME NEW new \in BOOLEAN, Begin(new) PROVE HeadHeld'
  BY <1>17 DEF Begin
<1>18. ASSUME NEW forever \in BOOLEAN, StopThread(forever)
      PROVE  HeadHeld'
  BY <1>18 DEF StopThread
<1>19. CASE StopJoin
  BY <1>19 DEF StopJoin
<1>20. CASE StopPreCheck
  BY <1>20 DEF StopPreCheck
<1>21. CASE StopKillJoin
  BY <1>21 DEF StopKillJoin
<1>22. CASE ClearError
  BY <1>22 DEF ClearError
<1>23. CASE Destroy
  BY <1>23 DEF Destroy
<1>24. CASE LinkFails
  BY <1>24 DEF LinkFails
<1>25. CASE UNCHANGED vars
  BY <1>25 DEF vars
<1> QED
  BY <1>1, <1>2, <1>3, <1>4, <1>5, <1>6, <1>7, <1>8, <1>9, <1>10, <1>11,
     <1>12, <1>13, <1>14, <1>15, <1>16, <1>17, <1>18, <1>19, <1>20, <1>21,
     <1>22, <1>23, <1>24, <1>25
    DEF Next, ThreadStep, PushStep, StopStep

\* The owner destroys the queue only when nobody is at work on it, and nobody
\* starts to work on a destroyed queue.
LEMMA QuietStep ==
  TypeOK /\ DestroyedIsQuiet /\ [Next]_vars => DestroyedIsQuiet'
<1> SUFFICES ASSUME TypeOK, DestroyedIsQuiet, [Next]_vars
             PROVE  DestroyedIsQuiet'
  OBVIOUS
<1> USE DEF TypeOK, DestroyedIsQuiet
<1>1. ASSUME NEW p \in Pushers, NEW s \in Streams, Push(p, s)
      PROVE  DestroyedIsQuiet'
  BY <1>1 DEF Push
<1>2. ASSUME NEW p \in Pushers, PushReadSize(p)
      PROVE  DestroyedIsQuiet'
  BY <1>2 DEF PushReadSize
<1>3. ASSUME NEW p \in Pushers, PushSetNumOnQueue(p)
      PROVE  DestroyedIsQuiet'
  BY <1>3 DEF PushSetNumOnQueue
<1>4. ASSUME NEW p \in Pushers, PushPost(p) PROVE DestroyedIsQuiet'
  BY <1>4 DEF PushPost
<1>5. CASE ThreadReturn
  BY <1>5 DEF ThreadReturn
<1>6. CASE ThreadFindNothing
  BY <1>6 DEF ThreadFindNothing
<1>7. CASE ThreadTakeHead
  BY <1>7 DEF ThreadTakeHead
<1>8. CASE ThreadWake
  BY <1>8 DEF ThreadWake
<1>9. CASE ThreadWrote
  BY <1>9 DEF ThreadWrote
<1>10. CASE ThreadPop
  BY <1>10 DEF ThreadPop
<1>11. CASE ThreadThrew
  BY <1>11 DEF ThreadThrew
<1>12. CASE ThreadSetError
  BY <1>12 DEF ThreadSetError
<1>13. CASE ThreadReadSize
  BY <1>13 DEF ThreadReadSize
<1>14. CASE ThreadSetValues
  BY <1>14 DEF ThreadSetValues
<1>15. CASE ThreadCancelled
  BY <1>15 DEF ThreadCancelled
<1>16. CASE ThreadReport
  BY <1>16 DEF ThreadReport
<1>17. ASSUME NEW new \in BOOLEAN, Begin(new) PROVE DestroyedIsQuiet'
  BY <1>17 DEF Begin
<1>18. ASSUME NEW forever \in BOOLEAN, StopThread(forever)
      PROVE  DestroyedIsQuiet'
  BY <1>18 DEF StopThread
<1>19. CASE StopJoin
  BY <1>19 DEF StopJoin
<1>20. CASE StopPreCheck
  BY <1>20 DEF StopPreCheck
<1>21. CASE StopKillJoin
  BY <1>21 DEF StopKillJoin
<1>22. CASE ClearError
  BY <1>22 DEF ClearError
<1>23. CASE Destroy
  BY <1>23 DEF Destroy
<1>24. CASE LinkFails
  BY <1>24 DEF LinkFails
<1>25. CASE UNCHANGED vars
  BY <1>25 DEF vars
<1> QED
  BY <1>1, <1>2, <1>3, <1>4, <1>5, <1>6, <1>7, <1>8, <1>9, <1>10, <1>11,
     <1>12, <1>13, <1>14, <1>15, <1>16, <1>17, <1>18, <1>19, <1>20, <1>21,
     <1>22, <1>23, <1>24, <1>25
    DEF Next, ThreadStep, PushStep, StopStep

\* The thread goes to wait only when the mutex shows it an empty queue and no
\* order to die; whoever changes that posts afterwards.
LEMMA WakeupStep == TypeOK /\ NoLostWakeup /\ [Next]_vars => NoLostWakeup'
<1> SUFFICES ASSUME TypeOK, NoLostWakeup, [Next]_vars
             PROVE  NoLostWakeup'
  OBVIOUS
<1> USE DEF TypeOK, NoLostWakeup
<1>1. ASSUME NEW p \in Pushers, NEW s \in Streams, Push(p, s)
      PROVE  NoLostWakeup'
  BY <1>1 DEF Push
<1>2. ASSUME NEW p \in Pushers, PushReadSize(p) PROVE NoLostWakeup'
  BY <1>2 DEF PushReadSize
<1>3. ASSUME NEW p \in Pushers, PushSetNumOnQueue(p)
      PROVE  NoLostWakeup'
  BY <1>3 DEF PushSetNumOnQueue
<1>4. ASSUME NEW p \in Pushers, PushPost(p) PROVE NoLostWakeup'
  BY <1>4 DEF PushPost
<1>5. CASE ThreadReturn
  BY <1>5 DEF ThreadReturn
<1>6. CASE ThreadFindNothing
  BY <1>6 DEF ThreadFindNothing
<1>7. CASE ThreadTakeHead
  BY <1>7 DEF ThreadTakeHead
<1>8. CASE ThreadWake
  BY <1>8 DEF ThreadWake
<1>9. CASE ThreadWrote
  BY <1>9 DEF ThreadWrote
<1>10. CASE ThreadPop
  BY <1>10 DEF ThreadPop
<1>11. CASE ThreadThrew
  BY <1>11 DEF ThreadThrew
<1>12. CASE ThreadSetError
  BY <1>12 DEF ThreadSetError
<1>13. CASE ThreadReadSize
  BY <1>13 DEF ThreadReadSize
<1>14. CASE ThreadSetValues
  BY <1>14 DEF ThreadSetValues
<1>15. CASE ThreadCancelled
  BY <1>15 DEF ThreadCancelled
<1>16. CASE ThreadReport
  BY <1>16 DEF ThreadReport
<1>17. ASSUME NEW new \in BOOLEAN, Begin(new) PROVE NoLostWakeup'
  BY <1>17 DEF Begin
<1>18. ASSUME NEW forever \in BOOLEAN, StopThread(forever)
      PROVE  NoLostWakeup'
  BY <1>18 DEF StopThread
<1>19. CASE StopJoin
  BY <1>19 DEF StopJoin
<1>20. CASE StopPreCheck
  BY <1>20 DEF StopPreCheck
<1>21. CASE StopKillJoin
  BY <1>21 DEF StopKillJoin
<1>22. CASE ClearError
  BY <1>22 DEF ClearError
<1>23. CASE Destroy
  BY <1>23 DEF Destroy
<1>24. CASE LinkFails
  BY <1>24 DEF LinkFails
<1>25. CASE UNCHANGED vars
  BY <1>25 DEF vars
<1> QED
  BY <1>1, <1>2, <1>3, <1>4, <1>5, <1>6, <1>7, <1>8, <1>9, <1>10, <1>11,
     <1>12, <1>13, <1>14, <1>15, <1>16, <1>17, <1>18, <1>19, <1>20, <1>21,
     <1>22, <1>23, <1>24, <1>25
    DEF Next, ThreadStep, PushStep, StopStep

-----------------------------------------------------------------------------
\* Moving the head of the second of two lists to the end of the first leaves
\* the two together as they were.
LEMMA MoveHead ==
  ASSUME NEW S, NEW a \in Seq(S), NEW b \in Seq(S), b # <<>>
  PROVE  Append(a, Head(b)) \o Tail(b) = a \o b
<1>1. /\ Head(b) \in S
      /\ Tail(b) \in Seq(S)
      /\ b = <<Head(b)>> \o Tail(b)
  BY HeadTailProperties
<1>2. <<Head(b)>> \in Seq(S)
  BY <1>1
<1>3. Append(a, Head(b)) = a \o <<Head(b)>>
  BY <1>1, AppendIsConcat
<1> QED
  BY <1>1, <1>2, <1>3, ConcatAssociative

-----------------------------------------------------------------------------
\* The steps that move no stream: all but Push, the end of a write, the pop
\* and the destructor.
MovesNoStream ==
  UNCHANGED <<pushed, written, dropped, Unsent, (opc = "destroyed")>>

\* What each step does to the streams.
LEMMA StreamSteps ==
  ASSUME TypeOK, HeadHeld, DestroyedIsQuiet, [Next]_vars
  PROVE  \/ \E s \in Streams :
              /\ opc # "destroyed"
              /\ pushed' = Append(pushed, s)
              /\ Unsent' = Append(Unsent, s)
              /\ UNCHANGED <<written, dropped, opc>>
         \/ /\ tpc = "send"
            /\ written' = Append(written, Head(Unsent))
            /\ Unsent # <<>>
            /\ Unsent' = Tail(Unsent)
            /\ UNCHANGED <<pushed, dropped, opc>>
         \/ /\ opc = "idle" /\ opc' = "destroyed"
            /\ dropped' = Unsent
            /\ Unsent' = <<>>
            /\ UNCHANGED <<pushed, written>>
         \/ MovesNoStream
<1> USE DEF TypeOK, HeadHeld, Unsent
<1>1. ASSUME NEW p \in Pushers, NEW s \in Streams, Push(p, s)
      PROVE  /\ opc # "destroyed"
             /\ pushed' = Append(pushed, s)
             /\ Unsent' = Append(Unsent, s)
             /\ UNCHANGED <<written, dropped, opc>>
  <2>1. tpc = "sent" => Tail(Append(queue, s)) = Append(Tail(queue), s)
    BY HeadTailAppend
  <2> QED
    BY <1>1, <2>1 DEF Push
<1>2. ASSUME NEW p \in Pushers, PushStep(p) PROVE MovesNoStream
  BY <1>2 DEF PushStep, PushReadSize, PushSetNumOnQueue, PushPost,
              MovesNoStream
<1>3. CASE ThreadWrote
  BY <1>3 DEF ThreadWrote
<1>4. CASE ThreadPop
  BY <1>4 DEF ThreadPop, MovesNoStream
<1>5. CASE Destroy
  BY <1>5 DEF Destroy
<1>6. CASE \/ ThreadReturn \/ ThreadFindNothing \/ ThreadTakeHead
           \/ ThreadWake \/ ThreadThrew \/ ThreadSetError \/ ThreadReadSize
           \/ ThreadSetValues \/ ThreadCancelled \/ ThreadReport
  BY <1>6 DEF ThreadReturn, ThreadFindNothing, ThreadTakeHead, ThreadWake,
              ThreadThrew, ThreadSetError, ThreadReadSize, ThreadSetValues,
              ThreadCancelled, ThreadReport, MovesNoStream
<1>7. ASSUME NEW new \in BOOLEAN, Begin(new) PROVE MovesNoStream
  BY <1>7 DEF Begin, MovesNoStream
<1>8. ASSUME NEW forever \in BOOLEAN, StopThread(forever)
      PROVE  MovesNoStream
  BY <1>8 DEF StopThread, MovesNoStream
<1>9. CASE StopStep \/ ClearError \/ LinkFails
  BY <1>9 DEF StopStep, StopJoin, StopPreCheck, StopKillJoin, ClearError,
              LinkFails, Alive, MovesNoStream
<1>10. CASE UNCHANGED vars
  BY <1>10 DEF vars, MovesNoStream
<1> QED
  BY <1>1, <1>2, <1>3, <1>4, <1>5, <1>6, <1>7, <1>8, <1>9, <1>10
    DEF Next, ThreadStep

\* What is unsent is a sequence of streams.
LEMMA UnsentType == TypeOK /\ HeadHeld => Unsent \in Seq(Streams)
  BY HeadTailProperties DEF TypeOK, HeadHeld, Unsent

\* A stream only moves from the pushed to the written, in the order of the
\* queue, or is deleted with it.
LEMMA LostStep ==
  TypeOK /\ HeadHeld /\ DestroyedIsQuiet /\ NothingLostOrRepeated
    /\ [Next]_vars => NothingLostOrRepeated'
<1> SUFFICES ASSUME TypeOK, HeadHeld, DestroyedIsQuiet, [Next]_vars,
                    NothingLostOrRepeated
             PROVE  NothingLostOrRepeated'
  OBVIOUS
<1> USE DEF NothingLostOrRepeated
<1>1. /\ Unsent \in Seq(Streams) /\ written \in Seq(Streams)
      /\ opc # "destroyed" => dropped = <<>>
      /\ written \o Unsent \in Seq(Streams)
      /\ (written \o Unsent) \o <<>> = written \o Unsent
  BY UnsentType, ConcatProperties, ConcatEmptySeq
    DEF TypeOK, DestroyedIsQuiet
<1>2. ASSUME NEW s \in Streams,
             opc # "destroyed",
             pushed' = Append(pushed, s),
             Unsent' = Append(Unsent, s),
             UNCHANGED <<written, dropped, opc>>
      PROVE  NothingLostOrRepeated'
  <2>a. pushed = written \o Unsent
    BY <1>1, <1>2
  <2>b. Append(written \o Unsent, s) = (written \o Unsent) \o <<s>>
    BY <1>1, <1>2, AppendIsConcat
  <2>c. Append(Unsent, s) = Unsent \o <<s>>
    BY <1>1, <1>2, AppendIsConcat
  <2>d. (written \o Unsent) \o <<s>> = written \o (Unsent \o <<s>>)
    BY <1>1, <1>2, ConcatAssociative
  <2>1. pushed' = written \o Append(Unsent, s)
    BY <1>2, <2>a, <2>b, <2>c, <2>d
  <2>2. written \o Append(Unsent, s) \in Seq(Streams)
    BY <1>1, AppendProperties, ConcatProperties
  <2> QED
    BY <1>1, <1>2, <2>1, <2>2, ConcatEmptySeq
<1>3. ASSUME tpc = "send",
             written' = Append(written, Head(Unsent)),
             Unsent # <<>>,
             Unsent' = Tail(Unsent),
             UNCHANGED <<pushed, dropped, opc>>
      PROVE  NothingLostOrRepeated'
  BY <1>1, <1>3, MoveHead
<1>4. ASSUME opc = "idle", opc' = "destroyed",
             dropped' = Unsent,
             Unsent' = <<>>,
             UNCHANGED <<pushed, written>>
      PROVE  NothingLostOrRepeated'
  BY <1>1, <1>4, ConcatEmptySeq
<1>5. CASE MovesNoStream
  BY <1>5 DEF MovesNoStream
<1> QED
  BY <1>2, <1>3, <1>4, <1>5, StreamSteps

-----------------------------------------------------------------------------
LEMMA InitIInv == Init => IInv
<1> SUFFICES ASSUME Init PROVE IInv
  OBVIOUS
<1>1. <<>> \in Seq(Streams) /\ <<>> \o <<>> = <<>>
  BY EmptySeq, ConcatEmptySeq
<1>2. conn \in 0 .. MaxConn
  BY ConstantsAssumption DEF Init
<1>3. TypeOK
  BY <1>1, <1>2 DEF Init, TypeOK
<1>4. HeadHeld /\ NoLostWakeup /\ DestroyedIsQuiet
  BY DEF Init, HeadHeld, NoLostWakeup, DestroyedIsQuiet
<1>5. NothingLostOrRepeated
  BY <1>1 DEF Init, NothingLostOrRepeated, Unsent
<1> QED
  BY <1>3, <1>4, <1>5 DEF IInv

\* The inductive invariant of the queue.
THEOREM Invariance == Spec => []IInv
<1>1. IInv /\ [Next]_vars => IInv'
  BY TypeStep, HeadStep, QuietStep, WakeupStep, LostStep DEF IInv
<1> QED
  BY InitIInv, <1>1, PTL DEF Spec

\* The types.
THEOREM TypeCorrect == Spec => []TypeOK
<1>1. IInv => TypeOK
  BY DEF IInv
<1> QED
  BY Invariance, <1>1, PTL

\* The stream being written without the mutex stays the head of the queue.
THEOREM HeadIsHeld == Spec => []HeadHeld
<1>1. IInv => HeadHeld
  BY DEF IInv
<1> QED
  BY Invariance, <1>1, PTL

\* Streams are written in the order of the pushes, none left out and none
\* twice, whatever connections fail and however often the thread is stopped,
\* cancelled and begun again.
THEOREM StreamsKept == Spec => []NothingLostOrRepeated
<1>1. IInv => NothingLostOrRepeated
  BY DEF IInv
<1> QED
  BY Invariance, <1>1, PTL

\* The thread never sleeps over a stream or over the order to die.
THEOREM WakeupNotLost == Spec => []NoLostWakeup
<1>1. IInv => NoLostWakeup
  BY DEF IInv
<1> QED
  BY Invariance, <1>1, PTL

\* The queue with its thread, its semaphore and its restarts implements the
\* Outbox.
THEOREM Refinement == Spec => OutboxSpec
<1> USE DEF OutboxView!vars
<1>1. Init => OutboxView!Init
  BY DEF Init, Unsent, OutboxView!Init
<1>2. IInv /\ [Next]_vars => [OutboxView!Next]_(OutboxView!vars)
  <2> SUFFICES ASSUME IInv, [Next]_vars
               PROVE  [OutboxView!Next]_(OutboxView!vars)
    OBVIOUS
  <2>1. ASSUME NEW s \in Streams,
               opc # "destroyed",
               Unsent' = Append(Unsent, s),
               UNCHANGED <<written, opc>>
        PROVE  OutboxView!Next
    BY <2>1 DEF OutboxView!Next, OutboxView!Accept
  <2>2. ASSUME tpc = "send",
               written' = Append(written, Head(Unsent)),
               Unsent # <<>>,
               Unsent' = Tail(Unsent),
               UNCHANGED opc
        PROVE  OutboxView!Next
    BY <2>2 DEF OutboxView!Next, OutboxView!Transmit, IInv,
                DestroyedIsQuiet
  <2>3. ASSUME opc = "idle", opc' = "destroyed",
               Unsent' = <<>>,
               UNCHANGED written
        PROVE  OutboxView!Next
    BY <2>3 DEF OutboxView!Next, OutboxView!Close
  <2>4. CASE MovesNoStream
    BY <2>4 DEF MovesNoStream
  <2> QED
    BY <2>1, <2>2, <2>3, <2>4, StreamSteps DEF IInv
<1> QED
  BY <1>1, <1>2, Invariance, PTL DEF Spec, OutboxSpec, OutboxView!Spec
=============================================================================
