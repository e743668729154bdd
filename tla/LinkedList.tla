----------------------------- MODULE LinkedList -----------------------------
(***************************************************************************)
(* The doubly linked list (datastruct/list/linked.go) that holds the       *)
(* subscribers of a channel.  A node is an element of Node; the list is    *)
(* the record of its first, last and size, and the fields of its nodes.    *)
(***************************************************************************)
EXTENDS ListSpec

CONSTANTS Value, Node, Nil

VARIABLES list          \* [first, last, size, val, prev, next]

vars == <<list>>

Blank == CHOOSE v \in Value : TRUE

Make0 == [first |-> Nil, last |-> Nil, size |-> 0,
          val |-> [n \in Node |-> Blank],
          prev |-> [n \in Node |-> Nil], next |-> [n \in Node |-> Nil]]

(* The nodes from n along a link.                                          *)
RECURSIVE Along(_, _)
Along(n, link) == IF n = Nil THEN <<>> ELSE <<n>> \o Along(link[n], link)

RECURSIVE Go(_, _, _)
Go(n, link, k) == IF k = 0 THEN n ELSE Go(link[n], link, k - 1)

(* A new node is one that the list does not hold.                          *)
Fresh(l) == CHOOSE n \in Node : ~Contains(Along(l.first, l.next), n)

AddTo(l, v) ==
  LET n == Fresh(l)
  IN  [l EXCEPT !.first = IF l.last = Nil THEN n ELSE @,
                !.last = n, !.size = @ + 1, !.val[n] = v, !.prev[n] = l.last,
                !.next = IF l.last = Nil THEN @ ELSE [@ EXCEPT ![l.last] = n]]

(* find counts from the nearer end; indices start at 0.                    *)
find(l, i) ==
  IF i < l.size \div 2 THEN Go(l.first, l.next, i)
  ELSE Go(l.last, l.prev, l.size - 1 - i)

InsertInto(l, i, v) ==
  IF i = l.size THEN AddTo(l, v)
  ELSE LET n     == Fresh(l)
           pivot == find(l, i)
           back  == l.prev[pivot]
       IN  [l EXCEPT !.first = IF back = Nil THEN n ELSE @, !.size = @ + 1,
                     !.val[n] = v,
                     !.prev = [@ EXCEPT ![n] = back, ![pivot] = n],
                     !.next = IF back = Nil THEN [@ EXCEPT ![n] = pivot]
                              ELSE [@ EXCEPT ![n] = pivot, ![back] = n]]

removeNode_NoPrev(l, n) ==
  LET p == l.prev[n]
      x == l.next[n]
  IN  [l EXCEPT !.first = IF p = Nil THEN x ELSE @,
                !.last = IF x = Nil THEN p ELSE @,
                !.next = IF p = Nil THEN [@ EXCEPT ![n] = Nil]
                         ELSE [@ EXCEPT ![p] = x, ![n] = Nil],
                !.prev = [@ EXCEPT ![n] = Nil],
                !.val[n] = Blank, !.size = @ - 1]

removeNode(l, n) ==
  LET p == l.prev[n]
      x == l.next[n]
  IN  [l EXCEPT !.first = IF p = Nil THEN x ELSE @,
                !.last = IF x = Nil THEN p ELSE @,
                !.next = IF p = Nil THEN [@ EXCEPT ![n] = Nil]
                         ELSE [@ EXCEPT ![p] = x, ![n] = Nil],
                !.prev = IF x = Nil THEN [@ EXCEPT ![n] = Nil]
                         ELSE [@ EXCEPT ![x] = p, ![n] = Nil],
                !.val[n] = Blank, !.size = @ - 1]

SetAt(l, i, v) == [l EXCEPT !.val[find(l, i)] = v]

RemoveFrom(l, i) == removeNode(l, find(l, i))

RemoveLastOf(l) == IF l.last = Nil THEN l ELSE removeNode(l, l.last)

(* The loops of RemoveAllByVal (count -1), RemoveByVal and, along prev,    *)
(* ReverseRemoveByVal: the neighbour is read before the node goes.         *)
RECURSIVE RemoveAlong(_, _, _, _, _)
RemoveAlong(l, n, fwd, v, count) ==
  IF n = Nil \/ count = 0 THEN l
  ELSE LET near == IF fwd THEN l.next[n] ELSE l.prev[n]
       IN  IF l.val[n] = v THEN RemoveAlong(removeNode(l, n), near, fwd, v, count - 1)
           ELSE RemoveAlong(l, near, fwd, v, count)

RemoveAllByVal(l, v) == RemoveAlong(l, l.first, TRUE, v, -1)
RemoveByVal(l, v, count) == RemoveAlong(l, l.first, TRUE, v, count)
ReverseRemoveByVal(l, v, count) == RemoveAlong(l, l.last, FALSE, v, count)

(* ForEach: the values in order.                                           *)
ForEach(l) == LET ns == Along(l.first, l.next)
              IN  [i \in 1 .. Len(ns) |-> l.val[ns[i]]]

Room == list.size < Cardinality(Node)

Next ==
  \/ list.size > 0 /\ list' = RemoveLastOf(list)
  \/ \E v \in Value :
       \/ Room /\ list' = AddTo(list, v)
       \/ list' = RemoveAllByVal(list, v)
       \/ \E c \in 1 .. list.size : list' = RemoveByVal(list, v, c)
       \/ \E c \in 1 .. list.size : list' = ReverseRemoveByVal(list, v, c)
       \/ \E i \in 0 .. list.size : Room /\ list' = InsertInto(list, i, v)
       \/ \E i \in 0 .. list.size - 1 : list' = SetAt(list, i, v)
  \/ \E i \in 0 .. list.size - 1 : list' = RemoveFrom(list, i)

Init == list = Make0

Spec == Init /\ [][Next]_vars

-----------------------------------------------------------------------------
(* The two chains are each other's reverse and as long as size says.       *)
Linked(l) ==
  /\ Along(l.last, l.prev) = Reverse(Along(l.first, l.next))
  /\ Len(Along(l.first, l.next)) = l.size

Holds(l, s) == Linked(l) /\ ForEach(l) = s

(* Every operation of the linked list does to it what the same operation   *)
(* does to a plain sequence, and keeps the chains forward and backward     *)
(* reverse to each other: inserting and removing at both ends and in the   *)
(* middle, and removing by value while walking in either direction.        *)
LinksExact ==
  \A s \in {ForEach(list)} :
    /\ Linked(list)
    /\ list.size > 0 => Holds(RemoveLastOf(list), Front(s))
    /\ \A i \in 1 .. Len(s) :
         /\ list.val[find(list, i - 1)] = s[i]
         /\ Holds(RemoveFrom(list, i - 1), RemoveAt(s, i))
    /\ \A v \in Value :
         /\ Room => \A i \in 1 .. Len(s) + 1 :
                      Holds(InsertInto(list, i - 1, v), InsertAt(s, i, v))
         /\ \A i \in 1 .. Len(s) : Holds(SetAt(list, i - 1, v), [s EXCEPT ![i] = v])
         /\ Holds(RemoveAllByVal(list, v), Without(s, At(s, v)))
         /\ \A c \in 1 .. Len(s) :
              /\ Holds(RemoveByVal(list, v, c), Without(s, FirstOf(At(s, v), c)))
              /\ Holds(ReverseRemoveByVal(list, v, c), Without(s, LastOf(At(s, v), c)))
=============================================================================
