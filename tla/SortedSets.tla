----------------------------- MODULE SortedSets -----------------------------
(***************************************************************************)
(* The commands on sorted sets (database/sortedset.go).  A sorted set is   *)
(* the function from its members to their scores; that the skip list keeps *)
(* the order it determines is the subject of SortedSet.  Members are       *)
(* numbers ordered like the strings they stand for.  The LEX forms search  *)
(* the list as if it were ordered by member: they are meant, here as in    *)
(* Redis, for sets whose scores are all equal.                             *)
(***************************************************************************)
EXTENDS Collections

ZSet(z) == [type |-> "zset", contents |-> z]

\* The members in the order of the skip list.
Before(z, m) == {x \in DOMAIN z : z[x] < z[m] \/ (z[x] = z[m] /\ x < m)}

Ranked(z) == [i \in 1 .. Cardinality(DOMAIN z) |->
                CHOOSE m \in DOMAIN z : Cardinality(Before(z, m)) = i - 1]

\* In the executors below d is the database after the lookup of args[1], and z
\* the sorted set it found, without members when it found none.

\* What a command that removes members does: the set stays even when nothing
\* is left of it, and a line is written when something was removed.
Without(d, z, R, val, line) ==
    Reply(PutEntity(d, line[2], ZSet(Restrict(z, DOMAIN z \ R))), val,
          IF R = {} THEN <<>> ELSE <<line>>)

Counted(d, z, R, line) ==
    IF Exists(d, line[2]) THEN Without(d, z, R, <<Cardinality(R)>>, line) ELSE Reply(d, <<0>>, <<>>)

-----------------------------------------------------------------------------
(* A border <<kind, value, exclude>>: kind "-" and "+" are the infinities, *)
(* whose Value field is 0; "s" is a score and "l" a member.                *)

Measure(b, z, m) == IF b[1] = "l" THEN m ELSE z[m]

less(b, z, m) == b[1] = "-" \/ (b[1] # "+" /\ IF b[3] THEN b[2] < Measure(b, z, m)
                                                      ELSE b[2] <= Measure(b, z, m))

greater(b, z, m) == b[1] = "+" \/ (b[1] # "-" /\ IF b[3] THEN b[2] > Measure(b, z, m)
                                                         ELSE b[2] >= Measure(b, z, m))

Within(z, min, max) == {m \in DOMAIN z : less(min, z, m) /\ greater(max, z, m)}

isIntersected(min, max) == min[2] > max[2] \/ (min[2] = max[2] /\ (min[3] \/ max[3]))

\* Range over the members s in the order of the walk, of which W are within
\* the borders and the first is s[i]: offset members are skipped without a look
\* at the border, and the next one is taken likewise.
Walk(s, W, i, limit) ==
    {j \in i .. Len(s) : /\ \A x \in i + 1 .. j : s[x] \in W
                         /\ limit > 0 => j < i + limit}

RangeOf(s, z, min, max, offset, limit) ==
    LET P == {i \in DOMAIN s : s[i] \in Within(z, min, max)}
    IN  IF limit = 0 \/ offset < 0 \/ P = {} \/ isIntersected(min, max) THEN <<>>
        ELSE SubSeq(s, Min(P) + offset,
                    Min(P) + offset - 1 + Cardinality(Walk(s, Within(z, min, max), Min(P) + offset, limit)))

-----------------------------------------------------------------------------
(* Writes *)

\* The pairs of a ZADD line: <<score, member, ...>>; a later one wins.
Scores(args) ==
    [m \in {args[2 * i + 1] : i \in 1 .. Len(args) \div 2} |->
        args[2 * Max({i \in 1 .. Len(args) \div 2 : args[2 * i + 1] = m})]]

execZAdd(d, z, args) ==
    Reply(PutEntity(d, args[1], ZSet(Scores(args) @@ z)),
          <<Cardinality(DOMAIN Scores(args) \ DOMAIN z)>>, <<<<"zadd">> \o args>>)

execZIncrBy(d, z, args) ==
    LET new == (args[3] :> args[2] + (IF args[3] \in DOMAIN z THEN z[args[3]] ELSE 0)) @@ z
    IN  Reply(PutEntity(d, args[1], ZSet(new)), <<new[args[3]]>>, <<<<"zincrby">> \o args>>)

execZRem(d, z, args) == Counted(d, z, DOMAIN z \intersect ToSet(Tail(args)), <<"zrem">> \o args)

execZRemRangeByScore(d, z, args) ==
    IF ~Exists(d, args[1]) THEN Reply(d, <<>>, <<>>)
    ELSE Counted(d, z, Within(z, args[2], args[3]), <<"zremrangebyscore">> \o args)

\* Writes no line.
execZRemRangeByLex(d, z, args) ==
    [Counted(d, z, Within(z, args[2], args[3]), <<"zremrangebylex">> \o args) EXCEPT !.aof = <<>>]

\* The bounds [start, stop) that two indices of ZRANGE denote among n members.
RankBounds(start, stop, n) ==
    LET b == IF start < -n THEN 0 ELSE IF start < 0 THEN n + start ELSE start
        e == IF stop < -n THEN 0 ELSE IF stop < 0 THEN n + stop + 1
             ELSE IF stop < n THEN stop + 1 ELSE n
    IN  <<b, IF e < b THEN b ELSE e>>

\* The members between those bounds, in the order s.
ByRank(s, r) == SubSeq(s, r[1] + 1, r[2])

execZRemRangeByRank(d, z, args) ==
    LET n == Cardinality(DOMAIN z)
    IN  IF args[2] >= n THEN Reply(d, <<0>>, <<>>)
        ELSE Counted(d, z, ToSet(ByRank(Ranked(z), RankBounds(args[2], args[3], n))),
                     <<"zremrangebyrank">> \o args)

\* A count of 0 or less pops everything.
execZPopMin(d, z, args) ==
    LET n      == IF Len(args) > 1 THEN args[2] ELSE 1
        popped == SubSeq(Ranked(z), 1, IF n \in DOMAIN Ranked(z) THEN n ELSE Cardinality(DOMAIN z))
    IN  IF ~Exists(d, args[1]) THEN Reply(d, <<>>, <<>>)
        ELSE Without(d, z, ToSet(popped), popped, <<"zpopmin">> \o args)

-----------------------------------------------------------------------------
(* Reads *)

execZScore(d, z, args) == Reply(d, IF args[2] \in DOMAIN z THEN <<z[args[2]]>> ELSE <<>>, <<>>)

execZCard(d, z, args) == Reply(d, <<Cardinality(DOMAIN z)>>, <<>>)

\* GetRank, with desc from the other end.
GetRank(z, m, desc) ==
    IF desc THEN Cardinality(DOMAIN z) - 1 - Cardinality(Before(z, m)) ELSE Cardinality(Before(z, m))

execZRank(d, z, args) ==
    Reply(d, IF args[2] \in DOMAIN z THEN <<GetRank(z, args[2], FALSE)>> ELSE <<>>, <<>>)

execZRevRank(d, z, args) ==
    Reply(d, IF args[2] \in DOMAIN z THEN <<GetRank(z, args[2], TRUE)>> ELSE <<>>, <<>>)

\* RangeByRank panics on an empty set ("assert: size > 0").
range0(d, s, args) ==
    IF ~Exists(d, args[1]) \/ args[2] >= Len(s) THEN Reply(d, <<>>, <<>>)
    ELSE IF s = <<>> THEN Panic(d)
    ELSE Reply(d, ByRank(s, RankBounds(args[2], args[3], Len(s))), <<>>)

execZRange(d, z, args) == range0(d, Ranked(z), args)

execZRevRange(d, z, args) == range0(d, Reverse(Ranked(z)), args)

\* RangeCount stops at the first member above the border; it panics on an
\* empty set too.
RangeCount(d, z, args) ==
    IF ~Exists(d, args[1]) THEN Reply(d, <<0>>, <<>>)
    ELSE IF DOMAIN z = {} THEN Panic(d)
    ELSE Reply(d, <<Cardinality({m \in DOMAIN z : less(args[2], z, m) /\
                      \A x \in Before(z, m) \cup {m} :
                          less(args[2], z, x) => greater(args[3], z, x)})>>, <<>>)

execZCount(d, z, args) == RangeCount(d, z, args)

execZLexCount(d, z, args) == RangeCount(d, z, args)

\* The forms by border, with the reply for no set; the arguments of the REV
\* forms come in the other order.
RangeBy(d, s, z, min, max, args, none) ==
    Reply(d, IF Exists(d, args[1]) THEN RangeOf(s, z, min, max, args[4], args[5]) ELSE none, <<>>)

execZRangeByScore(d, z, args) == RangeBy(d, Ranked(z), z, args[2], args[3], args, <<>>)

execZRevRangeByScore(d, z, args) == RangeBy(d, Reverse(Ranked(z)), z, args[3], args[2], args, <<>>)

execZRangeByLex(d, z, args) == RangeBy(d, Ranked(z), z, args[2], args[3], args, <<0>>)

execZRevRangeByLex(d, z, args) == RangeBy(d, Reverse(Ranked(z)), z, args[3], args[2], args, <<0>>)

-----------------------------------------------------------------------------
(* The rows of the command table *)

ZSetReads == {"zscore", "zcard", "zrank", "zrevrank", "zrange", "zrevrange", "zcount", "zlexcount",
              "zrangebyscore", "zrevrangebyscore", "zrangebylex", "zrevrangebylex"}

ZSetWrites == {"zadd", "zincrby", "zrem", "zremrangebyscore", "zremrangebyrank", "zremrangebylex",
               "zpopmin"}

\* Arguments that are parsed before the lookup, and refused.
BadZSetArgs(n, args) ==
    CASE n = "zadd"    -> Len(args) % 2 # 1 \/ \E i \in 1 .. Len(args) \div 2 : args[2 * i] = NotInt
      [] n = "zincrby" -> args[2] = NotInt
      [] n = "zpopmin" -> Len(args) > 1 /\ args[2] = NotInt
      [] OTHER         -> FALSE

OnZSet(d, z, n, args) ==
    CASE n = "zadd"              -> execZAdd(d, z, args)
      [] n = "zincrby"           -> execZIncrBy(d, z, args)
      [] n = "zrem"              -> execZRem(d, z, args)
      [] n = "zremrangebyscore"  -> execZRemRangeByScore(d, z, args)
      [] n = "zremrangebyrank"   -> execZRemRangeByRank(d, z, args)
      [] n = "zremrangebylex"    -> execZRemRangeByLex(d, z, args)
      [] n = "zpopmin"           -> execZPopMin(d, z, args)
      [] n = "zscore"            -> execZScore(d, z, args)
      [] n = "zcard"             -> execZCard(d, z, args)
      [] n = "zrank"             -> execZRank(d, z, args)
      [] n = "zrevrank"          -> execZRevRank(d, z, args)
      [] n = "zrange"            -> execZRange(d, z, args)
      [] n = "zrevrange"         -> execZRevRange(d, z, args)
      [] n = "zcount"            -> execZCount(d, z, args)
      [] n = "zlexcount"         -> execZLexCount(d, z, args)
      [] n = "zrangebyscore"     -> execZRangeByScore(d, z, args)
      [] n = "zrevrangebyscore"  -> execZRevRangeByScore(d, z, args)
      [] n = "zrangebylex"       -> execZRangeByLex(d, z, args)
      [] n = "zrevrangebylex"    -> execZRevRangeByLex(d, z, args)

ExecZSet(db, n, args, now) ==
    IF BadZSetArgs(n, args) THEN ErrReply(db)
    ELSE GetAs(db, args[1], "zset", now, LAMBDA d : OnZSet(d, d.data[args[1]].contents, n, args))
=============================================================================
