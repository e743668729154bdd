------------------------------ MODULE QuickList ------------------------------
(***************************************************************************)
(* The paged list behind the list type (datastruct/list/quicklist.go): a   *)
(* sequence of non-empty pages and a size.  A page is its values and the   *)
(* capacity of its slice, which decides whether Add opens a new page: a    *)
(* slice that append had to grow gets any capacity the runtime likes, so   *)
(* it may be below or above pageSize.  An iterator is a page number and an *)
(* offset; both count from 1 here, from 0 in the code.                     *)
(***************************************************************************)
EXTENDS ListSpec

CONSTANTS Value,        \* the values stored
          pageSize,     \* even; 1024 in the code
          MaxLen,       \* bound: the longest list explored
          MaxCap        \* bound: the largest capacity append gives a slice

VARIABLES data,         \* ql.data: a sequence of [vals, cap]
          size          \* ql.size

vars == <<data, size>>

QL == [data |-> data, size |-> size]

Page(vals, cap) == [vals |-> vals, cap |-> cap]

(* append(page, ...): the page in place, or a grown copy of it.            *)
Grown(page, vals) ==
  IF Len(vals) <= page.cap THEN {Page(vals, page.cap)}
  ELSE {Page(vals, c) : c \in Len(vals) .. MaxCap}

NewPage(v) == Page(<<v>>, pageSize)

(* Add, as the set of lists it may leave.                                  *)
AddTo(q, v) ==
  LET back == Len(q.data)
      full == back = 0 \/ Len(q.data[back].vals) = q.data[back].cap
  IN  {[data |-> IF full THEN Append(q.data, NewPage(v))
                 ELSE [q.data EXCEPT ![back].vals = Append(@, v)],
        size |-> q.size + 1]}

(* find walks the pages from the front or from the back, by size.          *)
RECURSIVE FromFront(_, _, _, _)
FromFront(q, n, beg, i) ==
  IF beg + Len(q.data[n].vals) >= i THEN <<n, i - beg>>
  ELSE FromFront(q, n + 1, beg + Len(q.data[n].vals), i)

RECURSIVE FromBack(_, _, _, _)
FromBack(q, n, end, i) ==
  LET beg == end - Len(q.data[n].vals)
  IN  IF beg < i THEN <<n, i - beg>> ELSE FromBack(q, n - 1, beg, i)

find(q, i) ==
  IF i - 1 < q.size \div 2 THEN FromFront(q, 1, 0, i)
  ELSE FromBack(q, Len(q.data), q.size, i)

get(q, it) == q.data[it[1]].vals[it[2]]

atEnd(q, it) ==
  \/ q.data = <<>>
  \/ it[1] = Len(q.data) /\ it[2] = Len(q.data[it[1]].vals) + 1

atBegin(q, it) == q.data = <<>> \/ (it[1] = 1 /\ it[2] = 0)

next(q, it) ==
  CASE it[2] < Len(q.data[it[1]].vals) -> <<it[1], it[2] + 1>>
    [] it[2] >= Len(q.data[it[1]].vals) /\ it[1] = Len(q.data) ->
         <<it[1], Len(q.data[it[1]].vals) + 1>>
    [] OTHER -> <<it[1] + 1, 1>>

prev_First(q, it) ==
  CASE it[2] > 1 -> <<it[1], it[2] - 1>>
    [] it[2] <= 1 /\ it[1] = 1 -> <<it[1], 0>>
    [] OTHER -> <<it[1] - 1, 1>>

prev(q, it) ==
  CASE it[2] > 1 -> <<it[1], it[2] - 1>>
    [] it[2] <= 1 /\ it[1] = 1 -> <<it[1], 0>>
    [] OTHER -> <<it[1] - 1, Len(q.data[it[1] - 1].vals)>>

SetAt(q, i, v) ==
  LET it == find(q, i) IN [q EXCEPT !.data[it[1]].vals[it[2]] = v]

(* Insert: at the end it is Add; a page with room takes the value; a full  *)
(* page is split in halves, the second one copied to a slice of its own.   *)
InsertInto(q, i, v) ==
  IF i = q.size + 1 THEN AddTo(q, v)
  ELSE LET it   == find(q, i)
           n    == it[1]
           page == q.data[n]
           half == pageSize \div 2
           low  == SubSeq(page.vals, 1, half)
           high == SubSeq(page.vals, half + 1, Len(page.vals))
           Split(l, h) ==
             {[data |-> InsertAt(ReplaceAt(q.data, n, Page(l, page.cap)),
                                 n + 1, Page(h, c)),
               size |-> q.size + 1] : c \in Len(h) .. MaxCap}
       IN  IF Len(page.vals) < pageSize
           THEN {[data |-> ReplaceAt(q.data, n, p), size |-> q.size + 1] :
                   p \in Grown(page, InsertAt(page.vals, it[2], v))}
           ELSE IF it[2] <= half
           THEN Split(InsertAt(low, it[2], v), high)
           ELSE Split(low, InsertAt(high, it[2] - half, v))

(* iterator.remove: <<the list, the iterator>> it leaves.  An emptied page *)
(* goes, and the iterator stands on the following element, or at the end.  *)
remove(q, it) ==
  LET n    == it[1]
      last == n = Len(q.data)
      vals == RemoveAt(q.data[n].vals, it[2])
      kept == [data |-> [q.data EXCEPT ![n].vals = vals], size |-> q.size - 1]
      gone == [data |-> RemoveAt(q.data, n), size |-> q.size - 1]
  IN  CASE vals # <<>> /\ (it[2] <= Len(vals) \/ last) -> <<kept, it>>
        [] vals # <<>> /\ it[2] > Len(vals) /\ ~last -> <<kept, <<n + 1, 1>>>>
        [] vals = <<>> /\ last /\ n > 1 ->
             <<gone, <<n - 1, Len(q.data[n - 1].vals) + 1>>>>
        [] vals = <<>> /\ last /\ n = 1 -> <<gone, <<1, 1>>>>
        [] OTHER -> <<gone, <<n, 1>>>>

RemoveFrom(q, i) == remove(q, find(q, i))[1]

RemoveLastOf(q) ==
  LET n == Len(q.data)
  IN  IF q.size = 0 THEN q
      ELSE IF Len(q.data[n].vals) = 1
      THEN [data |-> Front(q.data), size |-> q.size - 1]
      ELSE [data |-> [q.data EXCEPT ![n].vals = Front(@)], size |-> q.size - 1]

(* The loop of RemoveAllByVal and RemoveByVal; the former has no count, so *)
(* it is called with -1.                                                   *)
RECURSIVE RemoveFwd(_, _, _, _)
RemoveFwd(q, it, v, count) ==
  IF atEnd(q, it) \/ count = 0 THEN q
  ELSE IF get(q, it) = v
  THEN LET r == remove(q, it) IN RemoveFwd(r[1], r[2], v, count - 1)
  ELSE RemoveFwd(q, next(q, it), v, count)

(* RemoveAllByVal calls find(0) first, which panics on an empty list: its  *)
(* callers never hold one.                                                 *)
RemoveAllByVal(q, v) == RemoveFwd(q, find(q, 1), v, -1)

RemoveByVal(q, v, count) ==
  IF q.size = 0 THEN q ELSE RemoveFwd(q, find(q, 1), v, count)

RECURSIVE RemoveBwd(_, _, _, _)
RemoveBwd(q, it, v, count) ==
  IF atBegin(q, it) THEN q
  ELSE IF get(q, it) = v
  THEN LET r == remove(q, it)
       IN  IF count = 1 THEN r[1]
           ELSE RemoveBwd(r[1], prev(r[1], r[2]), v, count - 1)
  ELSE RemoveBwd(q, prev(q, it), v, count)

ReverseRemoveByVal(q, v, count) ==
  IF q.size = 0 THEN q ELSE RemoveBwd(q, find(q, q.size), v, count)

RECURSIVE Visit(_, _, _)
Visit(q, it, n) ==
  IF n = 0 THEN <<>> ELSE <<get(q, it)>> \o Visit(q, next(q, it), n - 1)

(* Range of [start, stop) and, over the whole list, ForEach.               *)
Range0(q, start, stop) == Visit(q, find(q, start), stop - start)

Becomes(q) == data' = q.data /\ size' = q.size

Add(v) == size < MaxLen /\ \E q \in AddTo(QL, v) : Becomes(q)

Set(i, v) == Becomes(SetAt(QL, i, v))

Insert(i, v) == size < MaxLen /\ \E q \in InsertInto(QL, i, v) : Becomes(q)

RemoveIndex(i) == Becomes(RemoveFrom(QL, i))

RemoveLast == size > 0 /\ Becomes(RemoveLastOf(QL))

RemoveValue(v) ==
  /\ size > 0
  /\ \/ Becomes(RemoveAllByVal(QL, v))
     \/ \E c \in 1 .. size : Becomes(RemoveByVal(QL, v, c))
     \/ \E c \in 1 .. size : Becomes(ReverseRemoveByVal(QL, v, c))

Init == data = <<>> /\ size = 0

Next ==
  \/ RemoveLast
  \/ \E v \in Value : Add(v) \/ RemoveValue(v)
  \/ \E i \in 1 .. size : RemoveIndex(i)
  \/ \E i \in 1 .. size, v \in Value : Set(i, v)
  \/ \E i \in 1 .. size + 1, v \in Value : Insert(i, v)

Spec == Init /\ [][Next]_vars

-----------------------------------------------------------------------------
(* The list that the pages hold, and what its operations mean.             *)
Flat(q) == FlattenSeq([n \in 1 .. Len(q.data) |-> q.data[n].vals])

WellPaged(q) ==
  /\ q.size = Len(Flat(q))
  /\ \A n \in 1 .. Len(q.data) : Len(q.data[n].vals) \in 1 .. q.data[n].cap

Holds(q, s) == WellPaged(q) /\ Flat(q) = s

(* Every operation of the paged list does to it what the same operation    *)
(* does to a plain sequence, and leaves no empty page: Add, Insert (with   *)
(* its page split), Set, Remove, RemoveLast and the three removals by      *)
(* value, whose iterator crosses pages that vanish under it; Get and Range *)
(* return the elements at their indices from either end.                   *)
PagesExact ==
  \A s \in {Flat(QL)} :
    /\ WellPaged(QL)
    /\ size > 0 => Holds(RemoveLastOf(QL), Front(s))
    /\ \A i \in 1 .. size :
         /\ get(QL, find(QL, i)) = s[i]
         /\ Holds(RemoveFrom(QL, i), RemoveAt(s, i))
         /\ \A j \in i .. size + 1 : Range0(QL, i, j) = SubSeq(s, i, j - 1)
    /\ \A v \in Value :
         /\ \A q \in AddTo(QL, v) : Holds(q, Append(s, v))
         /\ \A i \in 1 .. size : Holds(SetAt(QL, i, v), [s EXCEPT ![i] = v])
         /\ \A i \in 1 .. size + 1 :
              \A q \in InsertInto(QL, i, v) : Holds(q, InsertAt(s, i, v))
         /\ size > 0 => Holds(RemoveAllByVal(QL, v), Without(s, At(s, v)))
         /\ \A c \in 1 .. size :
              /\ Holds(RemoveByVal(QL, v, c), Without(s, FirstOf(At(s, v), c)))
              /\ Holds(ReverseRemoveByVal(QL, v, c), Without(s, LastOf(At(s, v), c)))
=============================================================================
