------------------------------ MODULE MCEngine ------------------------------
(***************************************************************************)
(* Instances of Engine: the sets of command lines the runs choose from.    *)
(***************************************************************************)
EXTENDS Engine

CONSTANTS k1, k2, m1, m2, f1

Lines1(n, S) == {<<n, k>> \o a : k \in Key, a \in S}

TwoKeys(n) == {<<n, a, b>> : a, b \in Key}

\* Commands that find out by a lookup whether a key exists, and commands that
\* do not need to know.
LookupCmds ==
    Lines1("get", {<<>>}) \cup Lines1("ttl", {<<>>}) \cup Lines1("expire", {<<1>>})
    \cup Lines1("set", {<<1, "", 1>>})
    \cup {<<"getset", k1, 1>>, <<"getdel", k1>>, <<"getex", k1, "ex", 1>>, <<"persist", k1>>,
          <<"incr", k2>>, <<"append", k1, NotInt>>, <<"pexpireat", k1, 2>>, <<"lpush", k2, m1>>,
          <<"renamenx", k1, k2>>, <<"exists", k1, k2>>, <<"mget", k1, k2>>,
          <<"msetnx", k1, 1, k2, 1>>, <<"type", k1>>, <<"hgetall", k1>>, <<"scard", k1>>,
          <<"sinter", k1, k2>>, <<"sunion", k2, k1>>, <<"zcard", k1>>}

\* The commands of keys.go and string.go, except RENAME of a key to itself.
StringCmds ==
    Lines1("get", {<<>>}) \cup Lines1("getdel", {<<>>}) \cup Lines1("getset", {<<1>>})
    \cup Lines1("getex", {<<"ex", 1>>, <<"ex", 0>>, <<"persist", 0>>, <<"persist ex", 2>>, <<"", 0>>})
    \cup Lines1("set", {<<1, "", 0>>, <<NotInt, "", 1>>, <<1, "nx", 0>>, <<0, "xx", 0>>,
                        <<0, "xx", 1>>, <<0, "bad", 0>>})
    \cup Lines1("setex", {<<1, 1>>, <<0, 1>>}) \cup Lines1("setnx", {<<0>>})
    \cup Lines1("incr", {<<>>}) \cup Lines1("incrby", {<<1>>, <<NotInt>>})
    \cup Lines1("decr", {<<>>}) \cup Lines1("decrby", {<<1>>})
    \cup Lines1("incrbyfloat", {<<-1>>}) \cup Lines1("append", {<<1>>, <<NotInt>>})
    \cup Lines1("expire", {<<2>>}) \cup Lines1("pexpireat", {<<1>>})
    \cup Lines1("persist", {<<>>}) \cup Lines1("ttl", {<<>>})
    \cup {<<"del", k1, k2>>, <<"del", k1>>, <<"exists", k1, k2>>, <<"mget", k1, k2>>,
          <<"mset", k1, 1, k2, 0>>, <<"mset", k1, 1, k2>>, <<"msetnx", k1, 1, k2, 0>>,
          <<"rename", k1, k2>>, <<"rename", k2, k1>>, <<"renamenx", k1, k2>>}

ListCmds ==
    Lines1("lpush", {<<m1>>, <<m1, m2>>}) \cup Lines1("rpush", {<<m2>>, <<m1, m2>>})
    \cup Lines1("lpushx", {<<m1>>}) \cup Lines1("rpushx", {<<m2, m1>>})
    \cup Lines1("lpop", {<<>>, <<2>>}) \cup Lines1("rpop", {<<>>, <<2>>})
    \cup TwoKeys("rpoplpush")
    \cup Lines1("lrem", {<<0, m1>>, <<1, m1>>, <<-1, m2>>})
    \cup Lines1("lset", {<<0, m2>>, <<-2, m1>>}) \cup Lines1("lindex", {<<1>>})
    \cup Lines1("llen", {<<>>}) \cup Lines1("lrange", {<<0, -1>>, <<1, 0>>})
    \cup Lines1("ltrim", {<<0, 0>>, <<-1, -1>>})
    \cup Lines1("linsert", {<<"before", m2, m1>>, <<"after", m1, m2>>, <<"bad", m1, m2>>})

SetCmds ==
    Lines1("sadd", {<<m1>>, <<m1, m2>>}) \cup Lines1("srem", {<<m1>>, <<m2, m1>>})
    \cup Lines1("sismember", {<<m2>>})

HashCmds ==
    Lines1("hset", {<<f1, 0>>, <<f1, NotInt>>}) \cup Lines1("hsetnx", {<<m1, 1>>})
    \cup Lines1("hmset", {<<f1, 1, m1, 0>>, <<f1>>}) \cup Lines1("hget", {<<f1>>})
    \cup Lines1("hdel", {<<f1>>, <<f1, m1>>})
    \cup Lines1("hincrby", {<<f1, 1>>, <<f1, NotInt>>}) 
    \cup {<<"hincrbyfloat", k1, f1, -1>>, <<"hexists", k1, f1>>, <<"hlen", k1>>, <<"hmget", k1, m1, f1>>, <<"hkeys", k1>>,
          <<"hvals", k1>>, <<"hgetall", k1>>}

\* The containers, with the commands that take any type.
CollectionCmds == ListCmds \cup SetCmds \cup HashCmds \cup
                  {<<"del", k1>>, <<"renamenx", k1, k2>>, <<"rename", k2, k1>>, <<"incr", k1>>}

\* The algebra of sets; the operands of SINTERSTORE are never disjoint.
AlgebraCmds ==
    Lines1("sadd", {<<m1>>, <<m2>>}) \cup
    {<<"sinterstore", k1, k2, k2>>, <<"sunionstore", k1, k2>>, <<"sunionstore", k2, k1, k2>>,
     <<"sdiffstore", k1, k1, k2>>, <<"srem", k2, m1>>, <<"set", k1, 1, "", 1>>, <<"get", k1>>,
     <<"sinter", k1, k2>>, <<"sunion", k1, k2>>, <<"sdiff", k1, k2>>, <<"smembers", k2>>}

\* Borders of scores.
Score(n) == <<"s", n, FALSE>>
Above(n) == <<"s", n, TRUE>>
MinInf == <<"-", 0, FALSE>>
MaxInf == <<"+", 0, FALSE>>
Lex(m) == <<"l", m, FALSE>>

\* The sorted sets, on one key.
ZSetCmds ==
    {<<"zadd", k1, 0, 1>>, <<"zadd", k1, 1, 2, 0, 1>>, <<"zadd", k1, NotInt, 1>>, <<"zadd", k1, 1>>,
     <<"zincrby", k1, 1, 1>>, <<"zincrby", k1, -1, 2>>, <<"zrem", k1, 1>>, <<"zrem", k1, 2, 1>>,
     <<"zremrangebyscore", k1, Above(0), MaxInf>>, <<"zremrangebyrank", k1, 0, 0>>,
     <<"zremrangebyrank", k1, -3, -1>>, <<"zpopmin", k1>>, <<"zpopmin", k1, 2>>,
     <<"zscore", k1, 1>>, <<"zcard", k1>>, <<"zrank", k1, 2>>, <<"zrevrank", k1, 1>>,
     <<"zrange", k1, 0, -1>>, <<"zrange", k1, -2, 0>>, <<"zrevrange", k1, 0, 0>>,
     <<"zcount", k1, Score(0), Score(1)>>, <<"zrangebyscore", k1, MinInf, Score(1), 0, -1>>,
     <<"zrevrangebyscore", k1, MaxInf, Score(0), 1, 1>>,
     <<"set", k1, 1, "", 0>>, <<"del", k1>>, <<"rename", k1, k2>>, <<"expire", k1, 1>>}

\* The commands that compare members, on equal scores.
LexCmds ==
    {<<"zadd", k1, 0, 1>>, <<"zadd", k1, 0, 2>>, <<"zremrangebylex", k1, Lex(2), MaxInf>>,
     <<"zlexcount", k1, MinInf, Lex(1)>>, <<"zrangebylex", k1, Lex(1), Lex(2), 0, -1>>,
     <<"zrevrangebylex", k1, Lex(2), MinInf, 1, 1>>, <<"zrem", k1, 1>>}

Load(cmds, time, str) == [cmds |-> cmds, time |-> time, str |-> str]

MCWorkload ==
    "lookup"      :> Load(LookupCmds, 2, 1) @@
    "strings"     :> Load(StringCmds, 0, 3) @@
    "collections" :> Load(CollectionCmds, 0, 2) @@
    "algebra"     :> Load(AlgebraCmds, 0, 12) @@
    "zset"        :> Load(ZSetCmds, 1, 1) @@
    "lex"         :> Load(LexCmds, 0, 1)
=============================================================================
