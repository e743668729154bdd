---------------------------- MODULE Collections ----------------------------
(***************************************************************************)
(* The commands on lists (database/list.go), sets (database/set.go) and    *)
(* hashes (database/hash.go).  A container the code mutates in place is    *)
(* written back into data under its key, without touching the ttl.         *)
(***************************************************************************)
EXTENDS Keyspace

List(s) == [type |-> "list", contents |-> s]

Set(S) == [type |-> "set", contents |-> [m \in S |-> 0]]

Hash(h) == [type |-> "hash", contents |-> h]

\* What a command that empties a container does: the key goes, with its ttl.
PutOrRemove(db, k, e) ==
    IF DOMAIN e.contents = {} THEN RemoveKey(db, k) ELSE PutEntity(db, k, e)

-----------------------------------------------------------------------------
(* list.go *)

\* getOrInitList, then one Insert(0, _) or Add per value.
PushAll(db, args, now, Push(_, _)) ==
    GetAs(db, args[1], "list", now, LAMBDA d :
      LET new == FoldLeft(Push, d.data[args[1]].contents, Tail(args))
      IN  Reply(PutEntity(d, args[1], List(new)), <<Len(new)>>, <<>>))

PushHead(s, x) == <<x>> \o s

\* The X forms do nothing when there is no list.
PushIfExists(db, args, now, Push(_, _)) ==
    LET d == GetEntity(db, args[1], now)
    IN  IF Exists(d, args[1]) THEN PushAll(d, args, now, Push) ELSE Reply(d, <<0>>, <<>>)

\* r with line appended to the log, unless r is an error.
Logged(r, line) == IF r.status = "ok" THEN [r EXCEPT !.aof = <<line>>] ELSE r

execLPush(db, args, now) ==
    Logged(PushAll(db, args, now, PushHead), <<"lpush">> \o args)

execRPush(db, args, now) ==
    Logged(PushAll(db, args, now, Append), <<"rpush">> \o args)

execLPushX(db, args, now) ==
    LET r == PushIfExists(db, args, now, PushHead)
    IN  IF r.val = <<0>> THEN r ELSE Logged(r, <<"lpushx">> \o args)

execRPushX(db, args, now) ==
    LET r == PushIfExists(db, args, now, Append)
    IN  IF r.val = <<0>> THEN r ELSE Logged(r, <<"rpushx">> \o args)

\* The count of a pop: 1 when absent, capped by the length when present.
PopCount(args, s) == IF Len(args) = 1 THEN 1 ELSE IF args[2] > Len(s) THEN Len(s) ELSE args[2]

execLPop(db, args, now) ==
    LET k     == args[1]
        Do(d) == LET s == d.data[k].contents
                     n == PopCount(args, s)
                 IN  IF ~Exists(d, k) THEN Reply(d, <<>>, <<>>)
                     ELSE IF n > Len(s) THEN Panic(d)     \* Remove(0) of an empty list
                     ELSE Reply(PutOrRemove(d, k, List(SubSeq(s, n + 1, Len(s)))),
                                SubSeq(s, 1, n), <<<<"lpop">> \o args>>)
    IN  GetAs(db, k, "list", now, Do)

execRPop(db, args, now) ==
    LET k     == args[1]
        Do(d) == LET s == d.data[k].contents
                     n == IF s = <<>> THEN 0 ELSE Len(s) - PopCount(args, s)
                 IN  IF ~Exists(d, k) THEN Reply(d, <<>>, <<>>)
                     ELSE Reply(PutOrRemove(d, k, List(SubSeq(s, 1, n))),
                                Reverse(SubSeq(s, n + 1, Len(s))), <<<<"rpop">> \o args>>)
    IN  GetAs(db, k, "list", now, Do)

\* The popped element is pushed before the emptiness of the source is looked
\* at: a list rotated onto itself survives.
execRPopLPush(db, args, now) ==
    LET src  == args[1]
        dest == args[2]
        Move(d) ==
          LET s == d.data[src].contents
              x == IF s = <<>> THEN NotInt ELSE Last(s)    \* nil: an empty string
              p == PutEntity(d, src, List(Front(s)))
              q == PutEntity(p, dest, List(<<x>> \o p.data[dest].contents))
          IN  Reply(PutOrRemove(q, src, q.data[src]), <<x>>, <<<<"rpoplpush">> \o args>>)
        Do(d) == IF ~Exists(d, src) THEN Reply(d, <<>>, <<>>)
                 ELSE GetAs(d, dest, "list", now, Move)
    IN  GetAs(db, src, "list", now, Do)

\* The positions LREM removes: the first count ones of value, the last -count
\* ones, or all of them.
LRemPositions(s, count, value) ==
    LET P == {i \in DOMAIN s : s[i] = value}
    IN  IF count = 0 THEN P
        ELSE IF count > 0 THEN {i \in P : Cardinality({j \in P : j < i}) < count}
        ELSE {i \in P : Cardinality({j \in P : j > i}) < -count}

\* Mutant: a list that becomes empty stays.
execLRem_LeavesEmpty(db, args, now) ==
    LET k     == args[1]
        Do(d) == LET s == d.data[k].contents
                     K == SetToSortSeq(DOMAIN s \ LRemPositions(s, args[2], args[3]), <)
                 IN  Reply(IF Exists(d, k) THEN PutEntity(d, k, List([i \in DOMAIN K |-> s[K[i]]]))
                                           ELSE d, <<>>, <<<<"lrem">> \o args>>)
    IN  GetAs(db, k, "list", now, Do)

execLRem(db, args, now) ==
    LET k     == args[1]
        Do(d) == LET s == d.data[k].contents
                     R == LRemPositions(s, args[2], args[3])
                     K == SetToSortSeq(DOMAIN s \ R, <)
                 IN  IF ~Exists(d, k) THEN Reply(d, <<0>>, <<>>)
                     ELSE IF s = <<>> /\ args[2] = 0 THEN Panic(d)
                     ELSE Reply(PutOrRemove(d, k, List([i \in DOMAIN K |-> s[K[i]]])),
                                <<Cardinality(R)>>,
                                IF R = {} THEN <<>> ELSE <<<<"lrem">> \o args>>)
    IN  GetAs(db, k, "list", now, Do)

\* The position in 1 .. n an index of LSET or LINDEX denotes, 0 when out of range.
ListIndex(i, n) == IF i < -n \/ i >= n THEN 0 ELSE IF i < 0 THEN n + i + 1 ELSE i + 1

execLSet(db, args, now) ==
    LET k     == args[1]
        Do(d) == LET s == d.data[k].contents
                     i == ListIndex(args[2], Len(s))
                 IN  IF ~Exists(d, k) \/ i = 0 THEN ErrReply(d)
                     ELSE Reply(PutEntity(d, k, List([s EXCEPT ![i] = args[3]])), <<>>,
                                <<<<"lset">> \o args>>)
    IN  GetAs(db, k, "list", now, Do)

execLIndex(db, args, now) ==
    LET k     == args[1]
        Do(d) == LET i == ListIndex(args[2], Len(d.data[k].contents))
                 IN  Reply(d, IF i = 0 THEN <<>> ELSE <<d.data[k].contents[i]>>, <<>>)
    IN  GetAs(db, k, "list", now, Do)

execLLen(db, args, now) ==
    GetAs(db, args[1], "list", now, LAMBDA d : Reply(d, <<Len(d.data[args[1]].contents)>>, <<>>))

\* Range of an empty list panics; a start past the end is answered before.
execLRange(db, args, now) ==
    LET k     == args[1]
        Do(d) == LET s     == d.data[k].contents
                     n     == Len(s)
                     start == IF args[2] < -n THEN 0
                              ELSE IF args[2] < 0 THEN n + args[2] ELSE args[2]
                     stop  == IF args[3] < -n THEN 0 ELSE IF args[3] < 0 THEN n + args[3] + 1
                              ELSE IF args[3] < n THEN args[3] + 1 ELSE n
                 IN  IF ~Exists(d, k) \/ args[2] >= n THEN Reply(d, <<>>, <<>>)
                     ELSE IF n = 0 THEN Panic(d)
                     ELSE Reply(d, SubSeq(s, start + 1, stop), <<>>)
    IN  GetAs(db, k, "list", now, Do)

\* Trims start elements on the left, then length - end - 1 on the right; the
\* list stays even when nothing is left of it.
execLTrim(db, args, now) ==
    LET k     == args[1]
        Do(d) == LET s     == d.data[k].contents
                     n     == Len(s)
                     start == IF args[2] < 0 THEN args[2] + n ELSE args[2]
                     end   == IF args[3] < 0 THEN args[3] + n ELSE args[3]
                 IN  IF ~Exists(d, k) THEN Reply(d, <<>>, <<>>)
                     ELSE Reply(PutEntity(d, k, List(SubSeq(s, IF start < 0 THEN 1 ELSE start + 1,
                                                            IF end >= n THEN n ELSE end + 1))),
                                <<>>, <<<<"ltrim">> \o args>>)
    IN  GetAs(db, k, "list", now, Do)

execLInsert(db, args, now) ==
    LET k     == args[1]
        Do(d) == LET s == d.data[k].contents
                     P == {i \in DOMAIN s : s[i] = args[3]}
                     i == CHOOSE p \in P : \A q \in P : p <= q
                     j == IF args[2] = "before" THEN i ELSE i + 1
                 IN  IF ~Exists(d, k) THEN Reply(d, <<0>>, <<>>)
                     ELSE IF args[2] \notin {"before", "after"} THEN ErrReply(d)
                     ELSE IF P = {} THEN Reply(d, <<-1>>, <<>>)
                     ELSE Reply(PutEntity(d, k, List(InsertAt(s, j, args[4]))), <<Len(s) + 1>>,
                                <<<<"linsert">> \o args>>)
    IN  GetAs(db, k, "list", now, Do)
-----------------------------------------------------------------------------
(* set.go *)

execSAdd(db, args, now) ==
    LET k     == args[1]
        Do(d) == LET S == DOMAIN d.data[k].contents
                     T == S \union ToSet(Tail(args))
                 IN  Reply(PutEntity(d, k, Set(T)), <<Cardinality(T \ S)>>,
                           <<<<"sadd">> \o args>>)
    IN  GetAs(db, k, "set", now, Do)

execSRem(db, args, now) ==
    LET k     == args[1]
        Do(d) == LET S == DOMAIN d.data[k].contents
                     R == S \intersect ToSet(Tail(args))
                 IN  IF ~Exists(d, k) THEN Reply(d, <<0>>, <<>>)
                     ELSE Reply(PutOrRemove(d, k, Set(S \ R)), <<Cardinality(R)>>,
                                IF R = {} THEN <<>> ELSE <<<<"srem">> \o args>>)
    IN  GetAs(db, k, "set", now, Do)

execSIsMember(db, args, now) ==
    LET k == args[1]
    IN  GetAs(db, k, "set", now, LAMBDA d :
          Reply(d, <<IF args[2] \in DOMAIN d.data[k].contents THEN 1 ELSE 0>>, <<>>))

\* Looks the operands up in order and stops at the first that is no set (the
\* result is then an error) or, with stop, at the first that is empty.
Operands(db, ks, now, stop) ==
    LET Bad(d, k)   == WrongType(d, k, "set") \/ (stop /\ DOMAIN d.data[k].contents = {})
        Look(r, k)  == IF r.halt THEN r
                       ELSE LET d == GetEntity(r.db, k, now)
                            IN  [db |-> d, halt |-> Bad(d, k), err |-> WrongType(d, k, "set"),
                                 sets |-> Append(r.sets, DOMAIN d.data[k].contents)]
    IN  FoldLeft(Look, [db |-> db, halt |-> FALSE, err |-> FALSE, sets |-> <<>>], ks)

Intersect(sets) == {m \in UNION ToSet(sets) : \A i \in DOMAIN sets : m \in sets[i]}

Union(sets) == UNION ToSet(sets)

Diff(sets) == sets[1] \ UNION ToSet(Tail(sets))

\* Nothing is stored, nor removed, when an operand is empty; and the ttl of an
\* earlier dest stays.
execSInterStore(db, args, now) ==
    LET o == Operands(db, Tail(args), now, TRUE)
        R == Intersect(o.sets)
    IN  IF o.err THEN ErrReply(o.db)
        ELSE IF o.halt THEN Reply(o.db, <<0>>, <<>>)
        ELSE Reply(PutEntity(o.db, args[1], Set(R)), <<Cardinality(R)>>,
                   <<<<"sinterstore">> \o args>>)

\* SUNIONSTORE and SDIFFSTORE: dest goes, with its ttl, before the result is
\* looked at; an empty result is not logged.
StoreSet(db, args, now, Op(_), line) ==
    LET o == Operands(db, Tail(args), now, FALSE)
        R == Op(o.sets)
        d == RemoveKey(o.db, args[1])
    IN  IF o.err THEN ErrReply(o.db)
        ELSE IF R = {} THEN Reply(d, <<0>>, <<>>)
        ELSE Reply(PutEntity(d, args[1], Set(R)), <<Cardinality(R)>>, <<line>>)

execSUnionStore(db, args, now) ==
    StoreSet(db, args, now, Union, <<"sunionstore">> \o args)

execSDiffStore(db, args, now) ==
    StoreSet(db, args, now, Diff, <<"sdiffstore">> \o args)

\* SINTER, SUNION and SDIFF reply in map order, here the set.
execSInter(db, args, now) ==
    LET o == Operands(db, args, now, TRUE)
    IN  IF o.err THEN ErrReply(o.db)
        ELSE Reply(o.db, IF o.halt THEN {} ELSE Intersect(o.sets), <<>>)

CalculateSet(db, args, now, Op(_)) ==
    LET o == Operands(db, args, now, FALSE)
    IN  IF o.err THEN ErrReply(o.db) ELSE Reply(o.db, Op(o.sets), <<>>)

execSUnion(db, args, now) == CalculateSet(db, args, now, Union)

execSDiff(db, args, now) == CalculateSet(db, args, now, Diff)

\* Reads of a set S, which is empty when there is none.
execSCard(d, S, args) == Reply(d, <<Cardinality(S)>>, <<>>)

execSMembers(d, S, args) == Reply(d, S, <<>>)

SetReads == {"scard", "smembers"}

ExecSetRead(db, n, args, now) ==
    GetAs(db, args[1], "set", now, LAMBDA d :
      IF n = "scard" THEN execSCard(d, DOMAIN d.data[args[1]].contents, args)
                     ELSE execSMembers(d, DOMAIN d.data[args[1]].contents, args))

-----------------------------------------------------------------------------
(* hash.go *)

\* getOrInitDict, then a Put per field of h.
PutFields(db, k, h, now, line) ==
    GetAs(db, k, "hash", now, LAMBDA d :
      Reply(PutEntity(d, k, Hash(h @@ d.data[k].contents)),
            <<Cardinality(DOMAIN h \ DOMAIN d.data[k].contents)>>, <<line>>))

execHSet(db, args, now) ==
    PutFields(db, args[1], args[2] :> args[3], now, <<"hset">> \o args)

\* A later pair of the same field wins.
Pairs(args) == [f \in {args[2 * i] : i \in 1 .. Len(args) \div 2} |->
                  args[2 * (CHOOSE i \in 1 .. Len(args) \div 2 :
                              /\ args[2 * i] = f
                              /\ \A j \in i + 1 .. Len(args) \div 2 : args[2 * j] # f) + 1]]

execHMSet(db, args, now) ==
    IF Len(args) % 2 # 1 THEN ErrReply(db)
    ELSE PutFields(db, args[1], Pairs(args), now, <<"hmset">> \o args)

execHSetNX(db, args, now) ==
    LET k     == args[1]
        Do(d) == IF args[2] \in DOMAIN d.data[k].contents
                 THEN Reply(d, <<0>>, <<>>)
                 ELSE PutFields(d, k, args[2] :> args[3], now, <<"hsetnx">> \o args)
    IN  GetAs(db, k, "hash", now, Do)

execHGet(db, args, now) ==
    LET k     == args[1]
        Do(d) == LET h == d.data[k].contents
                 IN  Reply(d, IF args[2] \in DOMAIN h THEN <<h[args[2]]>> ELSE <<>>, <<>>)
    IN  GetAs(db, k, "hash", now, Do)

execHDel(db, args, now) ==
    LET k     == args[1]
        Do(d) == LET h == d.data[k].contents
                     R == DOMAIN h \intersect ToSet(Tail(args))
                 IN  IF ~Exists(d, k) THEN Reply(d, <<0>>, <<>>)
                     ELSE Reply(PutOrRemove(d, k, Hash(Restrict(h, DOMAIN h \ R))),
                                <<Cardinality(R)>>,
                                IF R = {} THEN <<>> ELSE <<<<"hdel">> \o args>>)
    IN  GetAs(db, k, "hash", now, Do)

execHIncrBy(db, args, now) ==
    LET k     == args[1]
        f     == args[2]
        Do(d) == LET h   == d.data[k].contents
                     old == IF f \in DOMAIN h THEN h[f] ELSE 0
                 IN  IF ~IsInt(old) THEN ErrReply(d)
                     ELSE PutFields(d, k, f :> Wrap64(old + args[3]), now,
                                    <<"hincrby">> \o args)
    IN  IF ~IsInt(args[3]) THEN ErrReply(db) ELSE GetAs(db, k, "hash", now, Do)

\* The values are integers, on which the float addition is exact.
execHIncrByFloat(db, args, now) ==
    LET k     == args[1]
        f     == args[2]
        Do(d) == LET h   == d.data[k].contents
                     old == IF f \in DOMAIN h THEN h[f] ELSE 0
                 IN  IF old = NotInt THEN ErrReply(d)
                     ELSE PutFields(d, k, f :> old + args[3], now, <<"hincrbyfloat">> \o args)
    IN  IF args[3] = NotInt THEN ErrReply(db) ELSE GetAs(db, k, "hash", now, Do)

\* Reads of a hash h, which has no fields when there is none.
execHExists(d, h, args) == Reply(d, <<IF args[2] \in DOMAIN h THEN 1 ELSE 0>>, <<>>)

execHLen(d, h, args) == Reply(d, <<Cardinality(DOMAIN h)>>, <<>>)

execHMGet(d, h, args) ==
    Reply(d, [i \in 1 .. Len(args) - 1 |->
                IF args[i + 1] \in DOMAIN h THEN <<h[args[i + 1]]>> ELSE <<>>], <<>>)

\* The replies in map order: the fields, how often each value occurs, the pairs.
execHKeys(d, h, args) == Reply(d, DOMAIN h, <<>>)

execHVals(d, h, args) ==
    Reply(d, [v \in {h[f] : f \in DOMAIN h} |-> Cardinality({f \in DOMAIN h : h[f] = v})], <<>>)

execHGetAll(d, h, args) == Reply(d, h, <<>>)

HashReads == {"hexists", "hlen", "hmget", "hkeys", "hvals", "hgetall"}

OnHash(d, h, n, args) ==
    CASE n = "hexists" -> execHExists(d, h, args)
      [] n = "hlen"    -> execHLen(d, h, args)
      [] n = "hmget"   -> execHMGet(d, h, args)
      [] n = "hkeys"   -> execHKeys(d, h, args)
      [] n = "hvals"   -> execHVals(d, h, args)
      [] n = "hgetall" -> execHGetAll(d, h, args)

ExecHashRead(db, n, args, now) ==
    GetAs(db, args[1], "hash", now, LAMBDA d : OnHash(d, d.data[args[1]].contents, n, args))
=============================================================================
