------------------------------ MODULE Commands ------------------------------
(***************************************************************************)
(* The command table: for a command line, its executor, the keys it locks  *)
(* (its prepare function) and the lines that undo it (its undo function).  *)
(***************************************************************************)
EXTENDS SortedSets

name(cmd) == cmd[1]

MinLen(n) == CASE n \in {"lpush", "rpush", "lpushx", "rpushx", "sadd", "srem", "hdel", "zrem"} -> 3
               [] n \in {"hmset", "zadd"} -> 4
               [] OTHER -> 2

\* The shape of every other command line is right by construction.
validateArity(cmd) == Len(cmd) >= MinLen(name(cmd))

\* execWithLock: the executor of the command table, run on the database.
Exec(db, cmd, now) ==
    LET n    == name(cmd)
        args == Tail(cmd)
    IN  IF ~validateArity(cmd) THEN ErrReply(db)
        ELSE CASE n = "del"         -> execDel(db, args, now)
               [] n = "exists"      -> execExists(db, args, now)
               [] n = "rename"      -> execRename(db, args, now)
               [] n = "renamenx"    -> execRenameNx(db, args, now)
               [] n = "expire"      -> execExpire(db, args, now)
               [] n = "pexpireat"   -> execPExpireAt(db, args, now)
               [] n = "persist"     -> execPersist(db, args, now)
               [] n = "ttl"         -> execTTL(db, args, now)
               [] n = "get"         -> execGet(db, args, now)
               [] n = "getex"       -> execGetEX(db, args, now)
               [] n = "set"         -> execSet(db, args, now)
               [] n = "setnx"       -> execSetNX(db, args, now)
               [] n = "setex"       -> execSetEX(db, args, now)
               [] n = "mset"        -> execMSet(db, args, now)
               [] n = "mget"        -> execMGet(db, args, now)
               [] n = "msetnx"      -> execMSetNX(db, args, now)
               [] n = "getset"      -> execGetSet(db, args, now)
               [] n = "getdel"      -> execGetDel(db, args, now)
               [] n = "incr"        -> execIncr(db, args, now)
               [] n = "decr"        -> execDecr(db, args, now)
               [] n = "incrby"      -> execIncrBy(db, args, now)
               [] n = "decrby"      -> execDecrBy(db, args, now)
               [] n = "incrbyfloat" -> execIncrByFloat(db, args, now)
               [] n = "append"      -> execAppend(db, args, now)
               [] n = "lpush"       -> execLPush(db, args, now)
               [] n = "rpush"       -> execRPush(db, args, now)
               [] n = "lpushx"      -> execLPushX(db, args, now)
               [] n = "rpushx"      -> execRPushX(db, args, now)
               [] n = "lpop"        -> execLPop(db, args, now)
               [] n = "rpop"        -> execRPop(db, args, now)
               [] n = "rpoplpush"   -> execRPopLPush(db, args, now)
               [] n = "lrem"        -> execLRem(db, args, now)
               [] n = "lset"        -> execLSet(db, args, now)
               [] n = "lindex"      -> execLIndex(db, args, now)
               [] n = "llen"        -> execLLen(db, args, now)
               [] n = "lrange"      -> execLRange(db, args, now)
               [] n = "ltrim"       -> execLTrim(db, args, now)
               [] n = "linsert"     -> execLInsert(db, args, now)
               [] n = "sadd"        -> execSAdd(db, args, now)
               [] n = "srem"        -> execSRem(db, args, now)
               [] n = "sismember"   -> execSIsMember(db, args, now)
               [] n = "sinterstore" -> execSInterStore(db, args, now)
               [] n = "sunionstore" -> execSUnionStore(db, args, now)
               [] n = "sdiffstore"  -> execSDiffStore(db, args, now)
               [] n = "hset"        -> execHSet(db, args, now)
               [] n = "hsetnx"      -> execHSetNX(db, args, now)
               [] n = "hmset"       -> execHMSet(db, args, now)
               [] n = "hget"        -> execHGet(db, args, now)
               [] n = "hdel"        -> execHDel(db, args, now)
               [] n = "hincrby"     -> execHIncrBy(db, args, now)
               [] n = "hincrbyfloat" -> execHIncrByFloat(db, args, now)
               [] n = "type"        -> execType(db, args, now)
               [] n = "sinter"      -> execSInter(db, args, now)
               [] n = "sunion"      -> execSUnion(db, args, now)
               [] n = "sdiff"       -> execSDiff(db, args, now)
               [] n \in SetReads    -> ExecSetRead(db, n, args, now)
               [] n \in HashReads   -> ExecHashRead(db, n, args, now)
               [] n \in ZSetReads \cup ZSetWrites -> ExecZSet(db, n, args, now)

\* The database, and the AOF lines, after the lines have been executed one after
\* the other.
ExecAll(db, lines, now) ==
    FoldLeft(LAMBDA x, l : LET r == Exec(x.db, l, now)
                           IN  [db |-> r.db, aof |-> x.aof \o r.aof],
             [db |-> db, aof |-> <<>>], lines)

-----------------------------------------------------------------------------
(* The keys a command locks *)

ReadsFirstKey == {"get", "ttl", "type", "lindex", "llen", "lrange", "sismember", "hget"}
                 \cup SetReads \cup HashReads \cup ZSetReads

ReadsAllKeys == {"exists", "mget", "sinter", "sunion", "sdiff"}

\* prepareRename locks the source, which RENAME removes, for reading only.
prepareRename(args) == [write |-> {args[2]}, read |-> {args[1]}]

Prepare(cmd) ==
    LET n    == name(cmd)
        args == Tail(cmd)
    IN  CASE n \in ReadsFirstKey           -> [write |-> {}, read |-> {args[1]}]
          [] n \in ReadsAllKeys             -> [write |-> {}, read |-> ToSet(args)]
          [] n = "del"                      -> [write |-> ToSet(args), read |-> {}]
          [] n \in {"rename", "renamenx"}   -> prepareRename(args)
          [] n \in {"mset", "msetnx"}       -> [write |-> MSetKeys(args), read |-> {}]
          [] n = "rpoplpush"                -> [write |-> {args[1], args[2]}, read |-> {}]
          [] n \in {"sinterstore", "sunionstore", "sdiffstore"} ->
                                               [write |-> {args[1]}, read |-> ToSet(Tail(args))]
          [] OTHER                          -> [write |-> {args[1]}, read |-> {}]

-----------------------------------------------------------------------------
(* The lines that undo a command, computed before it is executed.  The     *)
(* lookups of an undo function remove what has expired, so an undo function*)
(* yields the database too.                                                *)

Lines(db, lines) == [db |-> db, lines |-> lines]

\* A sequence of the members or of the fields of a container, in map order.
Order(v) == SetToSeq(DOMAIN v)

EntityToCmd(k, e) ==
    CASE e.type = "string" -> <<"set", k, e.contents[1], "", 0>>
      [] e.type = "list"   -> <<"rpush", k>> \o e.contents
      [] e.type = "set"    -> <<"sadd", k>> \o Order(e.contents)
      [] e.type = "zset"   -> <<"zadd", k>> \o
                              FlattenSeq([i \in DOMAIN Ranked(e.contents) |->
                                LET m == Reverse(Ranked(e.contents))[i] IN <<e.contents[m], m>>])
      [] e.type = "hash"   -> <<"hmset", k>> \o
                              FlattenSeq([i \in DOMAIN Order(e.contents) |->
                                LET f == Order(e.contents)[i] IN <<f, e.contents[f]>>])

\* zSetToCmd visits the members by rank, which panics when there are none: the
\* line that has none stands for the panic.
Panics(lines) == \E i \in DOMAIN lines : name(lines[i]) = "zadd" /\ Len(lines[i]) = 2

toTTLCmd(db, k) ==
    IF db.ttl[k] = NoTTL THEN <<"persist", k>> ELSE <<"pexpireat", k, db.ttl[k]>>

\* Mutant: the expiration is not restored.
rollbackGivenKeys_NoTTL(db, ks, now) ==
    LET Add(x, k) == Lines(x.db, x.lines \o <<<<"del", k>>>> \o
                           IF Exists(x.db, k) THEN <<EntityToCmd(k, x.db.data[k])>> ELSE <<>>)
    IN  FoldLeft(Add, Lines(db, <<>>), ks)

rollbackGivenKeys(db, ks, now) ==
    LET Add(x, k) ==
          LET d == GetEntity(x.db, k, now)
          IN  Lines(d, x.lines \o <<<<"del", k>>>> \o
                       IF Exists(d, k) THEN <<EntityToCmd(k, d.data[k]), toTTLCmd(d, k)>> ELSE <<>>)
    IN  FoldLeft(Add, Lines(db, <<>>), ks)

\* Looks k up and goes on with Do when it holds a container of that type.
UndoOn(db, k, type, now, Do(_)) ==
    LET d == GetEntity(db, k, now)
    IN  IF d.data[k].type = type THEN Lines(d, Do(d.data[k].contents)) ELSE Lines(d, <<>>)

\* A member (field) that was there is put back, one that was not is removed.
RollbackMembers(db, k, type, ms, now, Put(_, _), rem) ==
    LET d == GetEntity(db, k, now)
        v == d.data[k].contents
    IN  IF WrongType(d, k, type) THEN Lines(d, <<>>)
        ELSE IF ~Exists(d, k) THEN Lines(d, <<<<"del", k>>>>)
        ELSE Lines(d, [i \in DOMAIN ms |-> IF ms[i] \in DOMAIN v THEN Put(ms[i], v)
                                                                  ELSE <<rem, k, ms[i]>>])

rollbackSetMembers(db, k, ms, now) ==
    RollbackMembers(db, k, "set", ms, now, LAMBDA m, v : <<"sadd", k, m>>, "srem")

rollbackHashFields(db, k, fs, now) ==
    RollbackMembers(db, k, "hash", fs, now, LAMBDA f, v : <<"hset", k, f, v[f]>>, "hdel")

rollbackZSetFields(db, k, ms, now) ==
    RollbackMembers(db, k, "zset", ms, now, LAMBDA m, v : <<"zadd", k, v[m], m>>, "zrem")

undoExpire(db, args, now) == Lines(db, <<toTTLCmd(db, args[1])>>)

undoLPush(db, args, now) == Lines(db, [i \in 1 .. Len(args) - 1 |-> <<"lpop", args[1]>>])

undoRPush(db, args, now) == Lines(db, [i \in 1 .. Len(args) - 1 |-> <<"rpop", args[1]>>])

undoLPop(db, args, now) ==
    UndoOn(db, args[1], "list", now, LAMBDA s :
      IF s = <<>> THEN <<>>
      ELSE <<<<"lpush", args[1]>> \o Reverse(SubSeq(s, 1, PopCount(args, s)))>>)

undoRPop(db, args, now) ==
    UndoOn(db, args[1], "list", now, LAMBDA s :
      IF s = <<>> THEN <<>>
      ELSE <<<<"rpush", args[1]>> \o SubSeq(s, Len(s) - PopCount(args, s) + 1, Len(s))>>)

undoRPopLPush(db, args, now) ==
    UndoOn(db, args[1], "list", now, LAMBDA s :
      IF s = <<>> THEN <<>> ELSE <<<<"rpush", args[1], Last(s)>>, <<"lpop", args[2]>>>>)

undoLSet(db, args, now) ==
    UndoOn(db, args[1], "list", now, LAMBDA s :
      LET i == ListIndex(args[2], Len(s))
      IN  IF i = 0 THEN <<>> ELSE <<<<"lset", args[1], args[2], s[i]>>>>)

\* The fields of an HMSET line.
Fields(args) == [i \in 1 .. (Len(args) - 1) \div 2 |-> args[2 * i]]

\* The members of a ZADD line.
Members(args) == [i \in 1 .. (Len(args) - 1) \div 2 |-> args[2 * i + 1]]

GetUndoLogs(db, cmd, now) ==
    LET n    == name(cmd)
        args == Tail(cmd)
    IN  CASE n \in ReadsFirstKey \cup ReadsAllKeys    -> Lines(db, <<>>)
          [] n \in {"del", "rename", "renamenx"}       -> rollbackGivenKeys(db, args, now)
          [] n \in {"mset", "msetnx"} ->
               rollbackGivenKeys(db, [i \in 1 .. Len(args) \div 2 |-> args[2 * i - 1]], now)
          [] n \in {"expire", "pexpireat", "persist"}  -> undoExpire(db, args, now)
          [] n \in {"lpush", "lpushx"}                 -> undoLPush(db, args, now)
          [] n \in {"rpush", "rpushx"}                 -> undoRPush(db, args, now)
          [] n = "lpop"                                -> undoLPop(db, args, now)
          [] n = "rpop"                                -> undoRPop(db, args, now)
          [] n = "rpoplpush"                           -> undoRPopLPush(db, args, now)
          [] n = "lset"                                -> undoLSet(db, args, now)
          [] n \in {"sadd", "srem"}     -> rollbackSetMembers(db, args[1], Tail(args), now)
          [] n \in {"hset", "hsetnx", "hincrby", "hincrbyfloat"} ->
                                           rollbackHashFields(db, args[1], <<args[2]>>, now)
          [] n = "hmset"                -> rollbackHashFields(db, args[1], Fields(args), now)
          [] n = "hdel"                 -> rollbackHashFields(db, args[1], Tail(args), now)
          [] n = "zadd"                 -> rollbackZSetFields(db, args[1], Members(args), now)
          [] n = "zrem"                 -> rollbackZSetFields(db, args[1], Tail(args), now)
          [] n = "zincrby"              -> rollbackZSetFields(db, args[1], <<args[3]>>, now)
          [] OTHER                      -> rollbackGivenKeys(db, <<args[1]>>, now)
=============================================================================
