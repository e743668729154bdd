------------------------------ MODULE Keyspace ------------------------------
(***************************************************************************)
(* One database as a value, and what the commands of database/keys.go and  *)
(* database/string.go do to it.                                            *)
(*                                                                         *)
(* A database is a record [data, ttl]: data maps a key to its entity       *)
(* (Absent when there is none) and ttl to its expiration (NoTTL when there *)
(* is none), exactly the two tables data and ttlMap of the code; a key may *)
(* be past its expiration and still be in the tables.  An entity is        *)
(* [type, contents]; contents is a function: of a string <<value>>, of a   *)
(* list the sequence, of a set or hash the map from members or fields.     *)
(*                                                                         *)
(* A command line is a tuple <<name, args...>>.  An executor takes the     *)
(* database, the arguments and the time, and yields the database, whether  *)
(* it succeeds, what it returns, and the lines it appends to the AOF.      *)
(* A string is represented by the integer it reads as, or by NotInt.       *)
(***************************************************************************)
EXTENDS Integers, SequencesExt

CONSTANTS NotInt,    \* a string that is no decimal integer
          MaxInt64   \* the greatest integer ParseInt accepts

ASSUME MaxIntAssumption == MaxInt64 \in Nat

NoTTL == -1

Absent == [type |-> "none", contents |-> <<>>]

Str(n) == [type |-> "string", contents |-> <<n>>]

EmptyDB(K) == [data |-> [k \in K |-> Absent], ttl |-> [k \in K |-> NoTTL]]

Reply(db, val, lines) == [db |-> db, status |-> "ok", val |-> val, aof |-> lines]

ErrReply(db) == [db |-> db, status |-> "err", val |-> <<>>, aof |-> <<>>]

\* A Go panic, which Server.Exec turns into an error reply.
Panic(db) == [db |-> db, status |-> "panic", val |-> <<>>, aof |-> <<>>]

-----------------------------------------------------------------------------
(* Data access and TTL functions of database.go *)

Exists(db, k) == db.data[k] # Absent

PutEntity(db, k, e) == [db EXCEPT !.data[k] = e]

\* Mutant: ttlMap is not cleaned.
RemoveKey_KeepsTTL(db, k) == [db EXCEPT !.data[k] = Absent]

RemoveKey(db, k) == [db EXCEPT !.data[k] = Absent, !.ttl[k] = NoTTL]

Removes(db, ks) ==
    [data |-> [k \in DOMAIN db.data |-> IF k \in ks THEN Absent ELSE db.data[k]],
     ttl  |-> [k \in DOMAIN db.ttl |-> IF k \in ks /\ Exists(db, k) THEN NoTTL ELSE db.ttl[k]]]

Expire(db, k, t) == [db EXCEPT !.ttl[k] = t]

Persist(db, k) == [db EXCEPT !.ttl[k] = NoTTL]

IsExpired(db, k, now) == db.ttl[k] # NoTTL /\ now > db.ttl[k]

\* The database after a lookup of k: IsExpired removes what has expired.
GetEntity(db, k, now) ==
    IF Exists(db, k) /\ IsExpired(db, k, now) THEN RemoveKey(db, k) ELSE db

\* The job the time wheel runs for k.
ExpireJob(db, k, now) == IF IsExpired(db, k, now) THEN RemoveKey(db, k) ELSE db

WrongType(db, k, type) == db.data[k].type \notin {"none", type}

\* Looks k up, fails on an entity of another type, else goes on with Do.
GetAs(db, k, type, now, Do(_)) ==
    LET d == GetEntity(db, k, now)
    IN  IF WrongType(d, k, type) THEN ErrReply(d) ELSE Do(d)

-----------------------------------------------------------------------------
(* keys.go *)

execDel(db, args, now) ==
    LET ks == {k \in ToSet(args) : Exists(db, k)}
    IN  Reply(Removes(db, ks), <<Cardinality(ks)>>,
              IF ks = {} THEN <<>> ELSE <<<<"del">> \o args>>)

execExists(db, args, now) ==
    LET d == FoldLeft(LAMBDA x, k : GetEntity(x, k, now), db, args)
    IN  Reply(d, <<Cardinality({i \in DOMAIN args : Exists(d, args[i])})>>, <<>>)

execRename(db, args, now) ==
    LET src  == args[1]
        dest == args[2]
        d    == GetEntity(db, src, now)
        t    == d.ttl[src]
        m    == RemoveKey(PutEntity(d, dest, d.data[src]), src)
    IN  IF ~Exists(d, src)
        THEN ErrReply(d)
        ELSE Reply(IF t = NoTTL THEN m ELSE Expire(m, dest, t), <<>>,
                   <<<<"rename">> \o args>>)

\* Mutant: the destination is not looked up, only found in the table.
execRenameNx_NoLookup(db, args, now) ==
    IF Exists(db, args[2]) THEN Reply(db, <<0>>, <<>>)
    ELSE [execRename(db, args, now) EXCEPT !.val = <<1>>]

execRenameNx(db, args, now) ==
    LET src  == args[1]
        dest == args[2]
        d0   == GetEntity(db, dest, now)
        d    == GetEntity(d0, src, now)
        t    == d.ttl[src]
        m    == PutEntity(Removes(d, {src, dest}), dest, d.data[src])
    IN  IF Exists(d0, dest) THEN Reply(d0, <<0>>, <<>>)
        ELSE IF ~Exists(d, src) THEN ErrReply(d)
        ELSE Reply(IF t = NoTTL THEN m ELSE Expire(m, dest, t), <<1>>,
                   <<<<"renamenx">> \o args>>)

\* PEXPIREAT and EXPIREAT; every form of expiration is logged as PEXPIREAT.
execPExpireAt(db, args, now) ==
    LET k == args[1]
        d == GetEntity(db, k, now)
    IN  IF ~Exists(d, k) THEN Reply(d, <<0>>, <<>>)
        ELSE Reply(Expire(d, k, args[2]), <<1>>, <<<<"pexpireat", k, args[2]>>>>)

\* EXPIRE and PEXPIRE: relative to the time of execution.
execExpire(db, args, now) == execPExpireAt(db, <<args[1], now + args[2]>>, now)

execPersist(db, args, now) ==
    LET k == args[1]
        d == GetEntity(db, k, now)
    IN  IF ~Exists(d, k) \/ d.ttl[k] = NoTTL
        THEN Reply(d, <<0>>, <<>>)
        ELSE Reply(Persist(d, k), <<1>>, <<<<"persist", k>>>>)

execTTL(db, args, now) ==
    LET k == args[1]
        d == GetEntity(db, k, now)
    IN  Reply(d, <<IF ~Exists(d, k) THEN -2
                   ELSE IF d.ttl[k] = NoTTL THEN -1 ELSE d.ttl[k] - now>>, <<>>)

execType(db, args, now) ==
    LET d == GetEntity(db, args[1], now)
    IN  Reply(d, <<d.data[args[1]].type>>, <<>>)

-----------------------------------------------------------------------------
(* string.go *)

execGet(db, args, now) ==
    GetAs(db, args[1], "string", now, LAMBDA d : Reply(d, d.data[args[1]].contents, <<>>))

\* args[2] stands for the options: "" (none), "ex" (a ttl, args[3]), "persist",
\* or "persist ex" (PERSIST takes effect before the ttl is parsed).
execGetEX(db, args, now) ==
    LET k     == args[1]
        opt   == args[2]
        t     == now + args[3]
        Do(d) ==
          LET p == IF opt \in {"persist", "persist ex"} THEN Persist(d, k) ELSE d
              v == d.data[k].contents
          IN  IF ~Exists(d, k) \/ opt = "" THEN Reply(d, v, <<>>)
              ELSE IF opt = "persist" THEN Reply(p, v, <<<<"persist", k>>>>)
              ELSE IF args[3] <= 0 THEN ErrReply(p)
              ELSE Reply(Expire(p, k, t), v, <<<<"pexpireat", k, t>>>>)
    IN  GetAs(db, k, "string", now, Do)

\* Mutant: the expiration is not logged.
execSet_TtlNotLogged(db, args, now) ==
    Reply(IF args[4] = 0 THEN Persist(PutEntity(db, args[1], Str(args[2])), args[1])
          ELSE Expire(PutEntity(db, args[1], Str(args[2])), args[1], now + args[4]),
          <<1>>, <<<<"set", args[1], args[2], "", 0>>>>)

\* args[3]: the policy "", "nx" or "xx"; args[4]: the ttl, 0 when there is none.
\* Neither policy looks the key up: an expired entity still counts.
execSet(db, args, now) ==
    LET k   == args[1]
        ttl == args[4]
        p   == PutEntity(db, k, Str(args[2]))
    IN  IF args[3] \notin {"", "nx", "xx"} \/ ttl < 0 THEN ErrReply(db)
        ELSE IF (args[3] = "nx" /\ Exists(db, k)) \/ (args[3] = "xx" /\ ~Exists(db, k))
        THEN Reply(db, <<0>>, <<>>)
        ELSE IF ttl = 0
        THEN Reply(Persist(p, k), <<1>>, <<<<"set">> \o args>>)
        ELSE Reply(Expire(p, k, now + ttl), <<1>>,
                   <<<<"set", k, args[2], "", 0>>, <<"pexpireat", k, now + ttl>>>>)

execSetNX(db, args, now) ==
    Reply(IF Exists(db, args[1]) THEN db ELSE PutEntity(db, args[1], Str(args[2])),
          <<IF Exists(db, args[1]) THEN 0 ELSE 1>>, <<<<"setnx">> \o args>>)

\* SETEX, and PSETEX, which is logged under the same name.
execSetEX(db, args, now) ==
    LET k == args[1]
        t == now + args[2]
    IN  IF args[2] <= 0 THEN ErrReply(db)
        ELSE Reply(Expire(PutEntity(db, k, Str(args[3])), k, t), <<1>>,
                   <<<<"setex">> \o args, <<"pexpireat", k, t>>>>)

\* The keys of the key/value pairs of MSET and MSETNX.
MSetKeys(args) == {args[2 * i - 1] : i \in 1 .. Len(args) \div 2}

PutPairs(db, args) ==
    LET Put(d, i) == PutEntity(d, args[2 * i - 1], Str(args[2 * i]))
    IN  FoldLeft(Put, db, [i \in 1 .. Len(args) \div 2 |-> i])

execMSet(db, args, now) ==
    IF Len(args) % 2 # 0 THEN ErrReply(db)
    ELSE Reply(PutPairs(db, args), <<>>, <<<<"mset">> \o args>>)

\* The lookups stop at the first key that exists.
execMSetNX(db, args, now) ==
    LET Look(d, i) == IF \E j \in 1 .. i - 1 : Exists(d, args[2 * j - 1])
                         THEN d ELSE GetEntity(d, args[2 * i - 1], now)
        d == FoldLeft(Look, db, [i \in 1 .. Len(args) \div 2 |-> i])
    IN  IF Len(args) % 2 # 0 THEN ErrReply(db)
        ELSE IF \E k \in MSetKeys(args) : Exists(d, k)
        THEN Reply(d, <<0>>, <<>>)
        ELSE Reply(PutPairs(d, args), <<1>>, <<<<"msetnx">> \o args>>)

execGetSet(db, args, now) ==
    LET k == args[1]
    IN  GetAs(db, k, "string", now,
              LAMBDA d : Reply(Persist(PutEntity(d, k, Str(args[2])), k), d.data[k].contents,
                               <<<<"set", k, args[2], "", 0>>>>))

execGetDel(db, args, now) ==
    LET k == args[1]
    IN  GetAs(db, k, "string", now,
              LAMBDA d : IF Exists(d, k)
                         THEN Reply(RemoveKey(d, k), d.data[k].contents, <<<<"del", k>>>>)
                         ELSE Reply(d, <<>>, <<>>))

\* A key that is no string counts as missing.
execMGet(db, args, now) ==
    LET d    == FoldLeft(LAMBDA x, k : GetEntity(x, k, now), db, args)
        v(k) == IF d.data[k].type = "string" THEN d.data[k].contents ELSE <<>>
    IN  Reply(d, [i \in DOMAIN args |-> v(args[i])], <<>>)

\* ParseInt, and the wrap-around of 64-bit addition.
IsInt(n) == n # NotInt /\ n \in -MaxInt64 - 1 .. MaxInt64

Wrap64(n) == ((n + MaxInt64 + 1) % (2 * MaxInt64 + 2)) - MaxInt64 - 1

\* INCR, DECR, INCRBY and DECRBY differ in the delta and in the line they log.
AddInt(db, k, delta, line, now) ==
    LET Do(d) == LET old == IF Exists(d, k) THEN d.data[k].contents[1] ELSE 0
                 IN  IF ~IsInt(old) THEN ErrReply(d)
                     ELSE Reply(PutEntity(d, k, Str(Wrap64(old + delta))),
                                <<Wrap64(old + delta)>>, <<line>>)
    IN  GetAs(db, k, "string", now, Do)

execIncr(db, args, now) == AddInt(db, args[1], 1, <<"incr">> \o args, now)

execDecr(db, args, now) == AddInt(db, args[1], -1, <<"decr">> \o args, now)

execIncrBy(db, args, now) ==
    IF ~IsInt(args[2]) THEN ErrReply(db)
    ELSE AddInt(db, args[1], args[2], <<"incrby">> \o args, now)

execDecrBy(db, args, now) ==
    IF ~IsInt(args[2]) THEN ErrReply(db)
    ELSE AddInt(db, args[1], -args[2], <<"decrby">> \o args, now)

\* The values are integers, on which the float addition is exact.
execIncrByFloat(db, args, now) ==
    LET k     == args[1]
        Do(d) == LET old == IF Exists(d, k) THEN d.data[k].contents[1] ELSE 0
                 IN  IF old = NotInt THEN ErrReply(d)
                     ELSE Reply(PutEntity(d, k, Str(old + args[2])), <<old + args[2]>>,
                                <<<<"incrbyfloat">> \o args>>)
    IN  IF args[2] = NotInt THEN ErrReply(db) ELSE GetAs(db, k, "string", now, Do)

\* The integer a decimal string reads as with a digit appended to it.
AppendDigit(n, digit) ==
    IF n = NotInt \/ digit = NotInt THEN NotInt
    ELSE IF n < 0 THEN 10 * n - digit ELSE 10 * n + digit

execAppend(db, args, now) ==
    LET k     == args[1]
        Do(d) == LET new == IF Exists(d, k) THEN AppendDigit(d.data[k].contents[1], args[2])
                                            ELSE args[2]
                 IN  Reply(PutEntity(d, k, Str(new)), <<>>, <<<<"append">> \o args>>)
    IN  GetAs(db, k, "string", now, Do)
=============================================================================
