------------------------------ MODULE SortedSet ------------------------------
(***************************************************************************)
(* The sorted set of datastruct/sortedset: a dictionary from members to    *)
(* scores and a skip list ordered by score and member.  Members are        *)
(* numbered in the order of their strings from 1 on; the empty string, the *)
(* Member of the header, is not among them.  A node has, for each of its   *)
(* levels, the next node and the number of base nodes on the way there.    *)
(***************************************************************************)
EXTENDS Integers, Sequences, FiniteSets, SequencesExt

CONSTANTS Member,   \* a set 1 .. n
          Score,    \* a set of integers
          maxLevel

Header == 0
NoNode == -1

VARIABLES dict,     \* from the members of the set to their scores
          sl        \* the skip list: its nodes, tail, length and level

vars == <<dict, sl>>

-----------------------------------------------------------------------------
(* Walking *)

Forward(l, n, i) == l.node[n].level[i].forward
Span(l, n, i) == l.node[n].level[i].span

\* From node n at level i forward over nodes of the set pass, with the rank reached.
RECURSIVE Walk(_, _, _, _, _)
Walk(l, n, i, rank, pass) ==
    IF Forward(l, n, i) \in pass
    THEN Walk(l, Forward(l, n, i), i, rank + Span(l, n, i), pass)
    ELSE [node |-> n, rank |-> rank]

\* The same while the rank stays within max.
RECURSIVE WalkTo(_, _, _, _, _)
WalkTo(l, n, i, rank, max) ==
    IF Forward(l, n, i) # NoNode /\ rank + Span(l, n, i) <= max
    THEN WalkTo(l, Forward(l, n, i), i, rank + Span(l, n, i), max)
    ELSE [node |-> n, rank |-> rank]

\* The last node passed on each level, from the top level down: update and rank.
Descend(l, pass) ==
    LET at[i \in 1 .. l.level] ==
            LET from == IF i = l.level THEN [node |-> Header, rank |-> 0] ELSE at[i + 1]
            IN  Walk(l, from.node, i, from.rank, pass)
    IN  at

DescendTo(l, max) ==
    LET at[i \in 1 .. l.level] ==
            LET from == IF i = l.level THEN [node |-> Header, rank |-> 0] ELSE at[i + 1]
            IN  WalkTo(l, from.node, i, from.rank, max)
    IN  at

Nodes(l) == DOMAIN l.node \ {Header}

\* Nodes before the place of (member, score).
Before(l, m, s) ==
    {n \in Nodes(l) : l.node[n].score < s \/ (l.node[n].score = s /\ n < m)}

-----------------------------------------------------------------------------
(* insert, remove *)

\* Variant: the levels above the new node keep their spans.
insert_NoSpan(l, m, s, level) ==
    LET at  == Descend(l, Before(l, m, s))
        top == IF level > l.level THEN level ELSE l.level
        up  == [i \in 1 .. top |-> IF i <= l.level THEN at[i] ELSE [node |-> Header, rank |-> 0]]
        old(i) == IF i <= l.level THEN Span(l, up[i].node, i) ELSE l.length
        new == [score |-> s,
                back  |-> IF up[1].node = Header THEN NoNode ELSE up[1].node,
                level |-> [i \in 1 .. level |->
                             [forward |-> Forward(l, up[i].node, i),
                              span    |-> old(i) - (up[1].rank - up[i].rank)]]]
        Link(n) == [i \in DOMAIN l.node[n].level |->
                      IF i > top \/ up[i].node # n THEN l.node[n].level[i]
                      ELSE IF i <= level THEN [forward |-> m, span |-> (up[1].rank - up[i].rank) + 1]
                      ELSE l.node[n].level[i]]
        next == Forward(l, up[1].node, 1)
    IN  [l EXCEPT !.level = top, !.length = @ + 1, !.tail = IF next = NoNode THEN m ELSE @,
                  !.node = [n \in DOMAIN l.node \cup {m} |->
                              IF n = m THEN new
                              ELSE [l.node[n] EXCEPT !.level = Link(n),
                                                     !.back = IF n = next THEN m ELSE @]]]

\* A new node with the given number of levels; levels the list did not have start
\* at the header with the span of the whole list.
insert(l, m, s, level) ==
    LET at  == Descend(l, Before(l, m, s))
        top == IF level > l.level THEN level ELSE l.level
        up  == [i \in 1 .. top |-> IF i <= l.level THEN at[i] ELSE [node |-> Header, rank |-> 0]]
        old(i) == IF i <= l.level THEN Span(l, up[i].node, i) ELSE l.length
        new == [score |-> s,
                back  |-> IF up[1].node = Header THEN NoNode ELSE up[1].node,
                level |-> [i \in 1 .. level |->
                             [forward |-> Forward(l, up[i].node, i),
                              span    |-> old(i) - (up[1].rank - up[i].rank)]]]
        Link(n) == [i \in DOMAIN l.node[n].level |->
                      IF i > top \/ up[i].node # n THEN l.node[n].level[i]
                      ELSE IF i <= level THEN [forward |-> m, span |-> (up[1].rank - up[i].rank) + 1]
                      ELSE [l.node[n].level[i] EXCEPT !.span = @ + 1]]
        next == Forward(l, up[1].node, 1)
    IN  [l EXCEPT !.level = top, !.length = @ + 1, !.tail = IF next = NoNode THEN m ELSE @,
                  !.node = [n \in DOMAIN l.node \cup {m} |->
                              IF n = m THEN new
                              ELSE [l.node[n] EXCEPT !.level = Link(n),
                                                     !.back = IF n = next THEN m ELSE @]]]

\* The levels left when those above have no node any more.
RECURSIVE Shrink(_, _)
Shrink(l, level) ==
    IF level > 1 /\ Forward(l, Header, level) = NoNode THEN Shrink(l, level - 1) ELSE level

\* Node n is taken out; update has the nodes before it.
removeNode(l, n, update) ==
    LET next == Forward(l, n, 1)
        Link(p) == [i \in DOMAIN l.node[p].level |->
                      LET v == l.node[p].level[i]
                      IN  IF i > l.level \/ update[i].node # p THEN v
                          ELSE IF v.forward = n
                               THEN [forward |-> Forward(l, n, i), span |-> v.span + Span(l, n, i) - 1]
                               ELSE [v EXCEPT !.span = @ - 1]]
        cut == [l EXCEPT !.length = @ - 1, !.tail = IF next = NoNode THEN l.node[n].back ELSE @,
                         !.node = [p \in DOMAIN l.node \ {n} |->
                                     [l.node[p] EXCEPT !.level = Link(p),
                                                       !.back = IF p = next THEN l.node[n].back ELSE @]]]
    IN  [cut EXCEPT !.level = Shrink(cut, l.level)]

remove(l, m, s) ==
    LET update == Descend(l, Before(l, m, s))
        n == Forward(l, update[1].node, 1)
    IN  IF n = m /\ l.node[n].score = s THEN removeNode(l, n, update) ELSE l

\* Nodes are removed from n on, as long as they are in the set inside, at most
\* limit of them (0: any number).
RECURSIVE RemoveFrom(_, _, _, _, _)
RemoveFrom(l, n, update, inside, limit) ==
    IF n \notin inside THEN l
    ELSE IF limit = 1 THEN removeNode(l, n, update)
    ELSE RemoveFrom(removeNode(l, n, update), Forward(l, n, 1), update, inside, limit - 1)

-----------------------------------------------------------------------------
(* Borders *)

\* An infinite border has the zero value in Value.
Border(kind, values) ==
    [kind : {kind}, inf : {0}, value : values, exclude : BOOLEAN]
    \cup [kind : {kind}, inf : {-1, 1}, value : {0}, exclude : {FALSE}]

Value(l, b, n) == IF b.kind = "score" THEN l.node[n].score ELSE n

greater(l, b, n) ==
    CASE b.inf = -1 -> FALSE
      [] b.inf = 1  -> TRUE
      [] OTHER      -> IF b.exclude THEN b.value > Value(l, b, n) ELSE b.value >= Value(l, b, n)

\* Variant: an excluded minimum is in the range.
less_Inclusive(l, b, n) ==
    CASE b.inf = -1 -> TRUE
      [] b.inf = 1  -> FALSE
      [] OTHER      -> b.value <= Value(l, b, n)

less(l, b, n) ==
    CASE b.inf = -1 -> TRUE
      [] b.inf = 1  -> FALSE
      [] OTHER      -> IF b.exclude THEN b.value < Value(l, b, n) ELSE b.value <= Value(l, b, n)

isIntersected(min, max) ==
    \/ min.kind = "lex" /\ min.inf = 1
    \/ min.value > max.value
    \/ min.value = max.value /\ (min.exclude \/ max.exclude)

Outside(l, min) == {n \in Nodes(l) : ~less(l, min, n)}
Within(l, max) == {n \in Nodes(l) : greater(l, max, n)}

hasInRange(l, min, max) ==
    /\ ~isIntersected(min, max)
    /\ l.tail # NoNode /\ less(l, min, l.tail)
    /\ greater(l, max, Forward(l, Header, 1))

getFirstInRange(l, min, max) ==
    LET n == Forward(l, Descend(l, Outside(l, min))[1].node, 1)
    IN  IF hasInRange(l, min, max) /\ greater(l, max, n) THEN n ELSE NoNode

getLastInRange(l, min, max) ==
    LET n == Descend(l, Within(l, max))[1].node
    IN  IF hasInRange(l, min, max) /\ less(l, min, n) THEN n ELSE NoNode

\* RemoveRange of the skip list, which does not ask isIntersected.
RemoveRange(l, min, max, limit) ==
    LET update == Descend(l, Outside(l, min))
    IN  RemoveFrom(l, Forward(l, update[1].node, 1), update, Within(l, max), limit)

\* 1-based ranks from start up to but without stop.
RemoveRangeByRank(l, start, stop) ==
    LET update == DescendTo(l, start - 1)
    IN  IF update[1].rank + 1 >= stop THEN l
        ELSE RemoveFrom(l, Forward(l, update[1].node, 1), update, Nodes(l), stop - (update[1].rank + 1))

getRank(l, m, s) ==
    LET at == Descend(l, Before(l, m, s) \cup {m})
        found == {i \in DOMAIN at : at[i].node = m}
    IN  IF found = {} THEN 0 ELSE at[CHOOSE i \in found : \A j \in found : j <= i].rank

getByRank(l, rank) ==
    LET at == DescendTo(l, rank)
    IN  IF \E i \in DOMAIN at : at[i].rank = rank THEN at[1].node ELSE NoNode

-----------------------------------------------------------------------------
(* SortedSet: the reads *)

GetRank(m, desc) ==
    IF m \notin DOMAIN dict THEN -1
    ELSE IF desc THEN sl.length - getRank(sl, m, dict[m]) ELSE getRank(sl, m, dict[m]) - 1

\* count nodes from n on, forward or backward.
RECURSIVE Collect(_, _, _)
Collect(n, count, desc) ==
    IF count = 0 \/ n = NoNode THEN <<>>
    ELSE <<n>> \o Collect(IF desc THEN sl.node[n].back ELSE Forward(sl, n, 1), count - 1, desc)

RangeByRank(start, stop, desc) ==
    LET first == IF desc THEN IF start > 0 THEN getByRank(sl, sl.length - start) ELSE sl.tail
                 ELSE IF start > 0 THEN getByRank(sl, start + 1) ELSE Forward(sl, Header, 1)
    IN  Collect(first, stop - start, desc)

\* The walk stops at the first member past max that is not before min.
RangeCount(min, max) ==
    LET all == RangeByRank(0, Cardinality(DOMAIN dict), FALSE)
        stop == {i \in DOMAIN all : less(sl, min, all[i]) /\ ~greater(sl, max, all[i])}
        end == IF stop = {} THEN Len(all) + 1 ELSE CHOOSE i \in stop : \A j \in stop : i <= j
    IN  Cardinality({i \in 1 .. end - 1 : less(sl, min, all[i])})

\* offset members are skipped without a look at the borders, and the first one
\* after them is returned without a look.
Range0(min, max, offset, limit, desc) ==
    LET first == IF desc THEN getLastInRange(sl, min, max) ELSE getFirstInRange(sl, min, max)
        from == Collect(first, sl.length, desc)
        all == SubSeq(from, offset + 1, Len(from))
        out == {i \in 2 .. Len(all) : ~less(sl, min, all[i]) \/ ~greater(sl, max, all[i])}
        end == IF out = {} THEN Len(all) ELSE (CHOOSE i \in out : \A j \in out : i <= j) - 1
    IN  IF limit = 0 \/ offset < 0 THEN <<>>
        ELSE IF limit < 0 \/ limit > end THEN SubSeq(all, 1, end) ELSE SubSeq(all, 1, limit)

-----------------------------------------------------------------------------
(* SortedSet: the changes *)

MakeNode(level, s) == [score |-> s, back |-> NoNode, level |-> [i \in 1 .. level |-> [forward |-> NoNode, span |-> 0]]]
Kept(l) == [m \in Nodes(l) |-> dict[m]]

\* randomLevel may be any level.
Add(m, s, level) ==
    /\ sl' = IF m \notin DOMAIN dict THEN insert(sl, m, s, level)
             ELSE IF dict[m] # s THEN insert(remove(sl, m, dict[m]), m, s, level)
             ELSE sl
    /\ dict' = [x \in DOMAIN dict \cup {m} |-> IF x = m THEN s ELSE dict[x]]

Remove0(m) ==
    /\ m \in DOMAIN dict
    /\ sl' = remove(sl, m, dict[m])
    /\ dict' = [x \in DOMAIN dict \ {m} |-> dict[x]]

\* The members the skip list has removed are deleted from the dictionary.
Removed(l) == sl' = l /\ dict' = Kept(l)

RemoveRange0(min, max) == Removed(RemoveRange(sl, min, max, 0))

PopMin(count) ==
    LET first == getFirstInRange(sl, [kind |-> "score", inf |-> -1, value |-> 0, exclude |-> FALSE],
                                     [kind |-> "score", inf |-> 1, value |-> 0, exclude |-> FALSE])
    IN  /\ first # NoNode
        /\ Removed(RemoveRange(sl, [kind |-> "score", inf |-> 0, value |-> sl.node[first].score, exclude |-> FALSE],
                                   [kind |-> "score", inf |-> 1, value |-> 0, exclude |-> FALSE], count))

RemoveByRank(start, stop) == Removed(RemoveRangeByRank(sl, start + 1, stop + 1))

-----------------------------------------------------------------------------
ScoreBorder == Border("score", Score)
LexBorder == Border("lex", Member)

Init ==
    /\ dict = [m \in {} |-> 0]
    /\ sl = [node |-> [n \in {Header} |-> MakeNode(maxLevel, 0)], tail |-> NoNode, length |-> 0, level |-> 1]

\* ZADD, ZINCRBY, ZREM, ZREMRANGEBYSCORE, ZREMRANGEBYLEX, ZPOPMIN, ZREMRANGEBYRANK;
\* range0 and execZRemRangeByRank make ranks 0 <= start < size and start <= stop <= size.
Next ==
    \/ \E m \in Member, s \in Score, level \in 1 .. maxLevel : Add(m, s, level)
    \/ \E m \in Member : Remove0(m)
    \/ \E min, max \in ScoreBorder : RemoveRange0(min, max)
    \/ \E min, max \in LexBorder : RemoveRange0(min, max)
    \/ \E count \in 1 .. 2 : PopMin(count)
    \/ \E start \in 0 .. sl.length - 1 : \E stop \in start .. sl.length : RemoveByRank(start, stop)

Spec == Init /\ [][Next]_vars

-----------------------------------------------------------------------------
(* The reference: the members in the order of score and member *)

Sorted == SetToSortSeq(DOMAIN dict, LAMBDA a, b : dict[a] < dict[b] \/ (dict[a] = dict[b] /\ a < b))
Place(m) == CHOOSE i \in DOMAIN Sorted : Sorted[i] = m
OneScore == \A a, b \in DOMAIN dict : dict[a] = dict[b]

\* Dictionary and skip list hold the same members and scores; the base level is
\* sorted, forward and backward; on every level each span is the distance of the
\* nodes it joins, and no level is missing or left over.
WellFormed ==
    /\ Nodes(sl) = DOMAIN dict /\ \A m \in DOMAIN dict : sl.node[m].score = dict[m]
    /\ sl.length = Len(Sorted)
    /\ sl.tail = (IF Sorted = <<>> THEN NoNode ELSE Sorted[sl.length])
    /\ \A m \in DOMAIN dict : sl.node[m].back = (IF Place(m) = 1 THEN NoNode ELSE Sorted[Place(m) - 1])
    /\ \A i \in 1 .. sl.level : \A n \in DOMAIN sl.node : i <= Len(sl.node[n].level) =>
         LET here == IF n = Header THEN 0 ELSE Place(n)
             next == {j \in here + 1 .. sl.length : Len(sl.node[Sorted[j]].level) >= i}
             v    == sl.node[n].level[i]
         IN  IF next = {} THEN v.forward = NoNode /\ v.span = sl.length - here
             ELSE LET j == CHOOSE j \in next : \A k \in next : j <= k
                  IN  v.forward = Sorted[j] /\ v.span = j - here
    /\ \A m \in DOMAIN dict : Len(sl.node[m].level) <= sl.level
    /\ sl.level > 1 => Forward(sl, Header, sl.level) # NoNode

Above(min, v) == min.inf = -1 \/ (min.inf = 0 /\ (min.value < v \/ (min.value = v /\ ~min.exclude)))
Below(max, v) == max.inf = 1 \/ (max.inf = 0 /\ (v < max.value \/ (v = max.value /\ ~max.exclude)))
InRange(min, max) == SelectSeq(Sorted, LAMBDA m : LET v == IF min.kind = "score" THEN dict[m] ELSE m
                                                  IN  Above(min, v) /\ Below(max, v))
Cut(s, offset, limit) == LET t == SubSeq(s, offset + 1, Len(s))
                         IN  IF limit < 0 \/ limit > Len(t) THEN t ELSE SubSeq(t, 1, limit)
Turn(s, desc) == IF desc THEN Reverse(s) ELSE s
Comparable(min, max) == (min.inf = 0) = (max.inf = 0)

Borders == (ScoreBorder \X ScoreBorder) \cup (IF OneScore THEN LexBorder \X LexBorder ELSE {})

\* Ranks, slices and ranges, read through the levels of the skip list, are those
\* of the sorted members, and a range of ranks or borders is removed as a whole and
\* nothing else; for reads with two finite or two infinite borders and an offset
\* within the range, and for borders of members when all scores are equal.
RangesExact ==
    /\ \A m \in DOMAIN dict : GetRank(m, FALSE) = Place(m) - 1 /\ GetRank(m, TRUE) = sl.length - Place(m)
    /\ \A start \in 0 .. sl.length - 1 : \A stop \in start .. sl.length :
         /\ \A desc \in BOOLEAN :
              RangeByRank(start, stop, desc) = SubSeq(Turn(Sorted, desc), start + 1, stop)
         /\ Nodes(RemoveRangeByRank(sl, start + 1, stop + 1))
               = DOMAIN dict \ Range(SubSeq(Sorted, start + 1, stop))
    /\ \A b \in Borders : \A in \in {InRange(b[1], b[2])} :
         /\ sl.length > 0 => RangeCount(b[1], b[2]) = Len(in)
         /\ Nodes(RemoveRange(sl, b[1], b[2], 0)) = DOMAIN dict \ Range(in)
         /\ Comparable(b[1], b[2]) =>
              \A offset \in 0 .. 1, limit \in {-1, 1}, desc \in BOOLEAN :
                 offset = 0 \/ offset < Len(in) =>
                    Range0(b[1], b[2], offset, limit, desc) = Cut(Turn(in, desc), offset, limit)
=============================================================================
