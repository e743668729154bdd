------------------------------- MODULE Engine -------------------------------
(***************************************************************************)
(* One database executing commands, with its clock, the time wheel's       *)
(* expiration jobs, the command log (AOF), its rewriting, aborted          *)
(* transactions, and restarts that rebuild the database from the log.      *)
(*                                                                         *)
(* The log is represented by what it is for: replay[t] is the database     *)
(* LoadAof would build from the lines logged so far, if it ran at time t.  *)
(* A line appended to the log is executed on each of these databases (at   *)
(* its time t), because LoadAof executes the lines one after the other.    *)
(***************************************************************************)
EXTENDS Commands

CONSTANTS Key,      \* the keys
          Workload, \* by name, what clients send and for how long
          MaxSize   \* bound on the size of a container

ASSUME BoundsAssumption ==
    /\ MaxSize \in Nat
    /\ \A w \in DOMAIN Workload : Workload[w].time \in Nat /\ Workload[w].str \in Nat

\* A behaviour is about one workload.
VARIABLE load

Cmds == Workload[load].cmds     \* the command lines clients send
MaxTime == Workload[load].time  \* bound on the clock
MaxStr == Workload[load].str    \* bound on the absolute value of an integer string or score

VARIABLES db,       \* the tables data and ttlMap
          now,      \* the clock, in the unit of the ttl arguments
          replay    \* the database a replay of the log at each time builds

vars == <<load, db, now, replay>>

-----------------------------------------------------------------------------
Bounded(d) ==
    \A k \in Key :
        /\ d.data[k].type = "string" =>
             d.data[k].contents[1] = NotInt \/ d.data[k].contents[1] \in -MaxStr .. MaxStr
        /\ d.data[k].type \in {"hash", "zset"} =>
             \A m \in DOMAIN d.data[k].contents :
                 d.data[k].contents[m] = NotInt \/ d.data[k].contents[m] \in -MaxStr .. MaxStr
        /\ Cardinality(DOMAIN d.data[k].contents) <= MaxSize

\* What LoadAof makes of the lines, on top of what it made of the log so far.
Logging(lines) == [t \in DOMAIN replay |-> IF t < now THEN replay[t]
                                            ELSE ExecAll(replay[t], lines, t).db]

\* A command of a client; reads are commands too.
Command(cmd) ==
    \E r \in {Exec(db, cmd, now)} :
        /\ Bounded(r.db)
        /\ db' = r.db
        /\ replay' = Logging(r.aof)
        /\ UNCHANGED <<load, now>>

\* What a transaction that consists of cmd and of a failing command does: the
\* undo lines u are computed, cmd is executed (r), the undo lines are executed
\* (a); both are logged.  The same three steps are quantified in UndoRestores.
Abort(cmd) ==
    \E u \in {GetUndoLogs(db, cmd, now)} :
    \E r \in {Exec(u.db, cmd, now)} :
    \E a \in {ExecAll(r.db, u.lines, now)} :
        /\ ~Panics(u.lines) /\ r.status = "ok"
        /\ Bounded(r.db) /\ Bounded(a.db)
        /\ db' = a.db
        /\ replay' = Logging(r.aof \o a.aof)
        /\ UNCHANGED <<load, now>>

\* The time wheel runs the job of a key at some time after its expiration.
Expiration(k) ==
    /\ IsExpired(db, k, now)
    /\ db' = ExpireJob(db, k, now)
    /\ UNCHANGED <<load, now, replay>>

\* Replays of the past are over: their databases are dropped.
Tick ==
    /\ now < MaxTime
    /\ now' = now + 1
    /\ replay' = [replay EXCEPT ![now] = EmptyDB(Key)]
    /\ UNCHANGED <<load, db>>

\* The process stops and LoadAof rebuilds the database.
Restart ==
    /\ db' = replay[now]
    /\ UNCHANGED <<load, now, replay>>

\* The lines generateAof writes for a database: per key its entity, then its
\* expiration.
DumpKey(d, k) ==
    IF ~Exists(d, k) THEN <<>>
    ELSE <<EntityToCmd(k, d.data[k])>> \o
         IF d.ttl[k] = NoTTL THEN <<>> ELSE <<<<"pexpireat", k, d.ttl[k]>>>>

generateAof(d) == FlattenSeq([i \in 1 .. Cardinality(Key) |-> DumpKey(d, SetToSeq(Key)[i])])

\* BGREWRITEAOF: the log is loaded into a database of its own, and replaced by
\* the dump of that database.  A dump that panics ends the process.
Rewrite ==
    /\ ~Panics(generateAof(replay[now]))
    /\ replay' = [t \in DOMAIN replay |->
                    IF t < now THEN replay[t]
                    ELSE ExecAll(EmptyDB(Key), generateAof(replay[now]), t).db]
    /\ UNCHANGED <<load, db, now>>

-----------------------------------------------------------------------------
Init ==
    /\ load \in DOMAIN Workload
    /\ db = EmptyDB(Key)
    /\ now = 0
    /\ replay = [t \in 0 .. MaxTime |-> EmptyDB(Key)]

Next ==
    \/ \E cmd \in Cmds : Command(cmd) \/ Abort(cmd)
    \/ \E k \in Key : Expiration(k)
    \/ Tick
    \/ Restart
    \/ Rewrite

Spec == Init /\ [][Next]_vars

-----------------------------------------------------------------------------
(* What a client can see of a database: the keys that have not expired.    *)
Live(d, t) ==
    [k \in Key |-> IF Exists(d, k) /\ ~IsExpired(d, k, t)
                   THEN [e |-> d.data[k], ttl |-> d.ttl[k]]
                   ELSE [e |-> Absent, ttl |-> NoTTL]]

\* d without the keys that have expired.
Purge(d, t) == [data |-> [k \in Key |-> Live(d, t)[k].e], ttl |-> [k \in Key |-> Live(d, t)[k].ttl]]

IsDB(d) ==
    \A k \in Key :
        /\ d.data[k].type \in {"none", "string", "list", "set", "hash", "zset"}
        /\ d.data[k].type = "none" => d.data[k] = Absent
        /\ d.data[k].type = "string" => DOMAIN d.data[k].contents = {1}
        /\ d.ttl[k] \in Int

\* The tables hold entities and expirations.
TypeOK ==
    /\ now \in 0 .. MaxTime
    /\ DOMAIN replay = 0 .. MaxTime
    /\ IsDB(db)
    /\ \A t \in DOMAIN replay : IsDB(replay[t])

\* Every entry of ttlMap belongs to a key of data: no command, no undo and no
\* expiration job leaves an expiration behind, which the next value of the key
\* would inherit (RENAME and RENAMENX move an expiration: "clean src and dest
\* with their ttl").  And no key holds an empty list, set or hash ("assert:
\* size > 0" in LINDEX, LRANGE and LSET): the command that takes the last
\* element removes the key.  The tables are well-typed.
TablesConsistent ==
    /\ TypeOK
    /\ \A k \in Key :
         /\ db.ttl[k] # NoTTL => Exists(db, k)
         /\ Exists(db, k) /\ db.data[k].type # "zset" => DOMAIN db.data[k].contents # {}

\* SUNIONSTORE and SDIFFSTORE write no line when their result is empty, and
\* ZREMRANGEBYLEX never does.
AllLogged == \A cmd \in Cmds : cmd[1] \notin {"sunionstore", "sdiffstore", "zremrangebylex"}

\* A restart loses nothing and invents nothing: the database LoadAof builds from
\* the log is, to a client, the one the commands built.  (At a later time a line
\* that renews an expiration finds the key gone already.)
ReplayExact == now = 0 /\ AllLogged => Live(replay[now], now) = Live(db, now)

\* A transaction that is aborted after a command leaves, to a client, the
\* database it found: executing GetUndoLogs' lines undoes the command, value
\* and expiration.
UndoRestores ==
    \A cmd \in Cmds :
        \A u \in {GetUndoLogs(db, cmd, now)} :
        \A r \in {Exec(u.db, cmd, now)} :
        \A a \in {ExecAll(r.db, u.lines, now)} :
            r.status = "ok" /\ ~Panics(u.lines) => Live(a.db, now) = Live(db, now)

\* A key that has expired is as good as absent although it is still in the
\* tables: a command replies and leaves, to a client, what it would if the
\* time wheel had removed every expired key already.
ExpiredIsAbsent ==
    (\E k \in Key : IsExpired(db, k, now)) =>
    \A cmd \in Cmds :
        \A r \in {Exec(db, cmd, now)} : \A p \in {Exec(Purge(db, now), cmd, now)} :
            /\ r.status = p.status
            /\ r.val = p.val
            /\ Live(r.db, now) = Live(p.db, now)
=============================================================================
