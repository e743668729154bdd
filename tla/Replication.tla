----------------------------- MODULE Replication -----------------------------
(***************************************************************************)
(* Master-slave replication: database/replication_master.go and the slave's *)
(* end of the connection (database/replication_slave.go).  Every update in  *)
(* the AOF is one unit of the replication offset, numbered by its position  *)
(* in the history; a ping is one unit too and is written 0.                 *)
(*                                                                         *)
(* Goroutines: the AOF writer (it calls the listeners while it holds        *)
(* pausingAof), the cron, the savers started by execPSync, one psync        *)
(* goroutine per connection, the rewriter of rewriteRDB, and the slaves.    *)
(* masterStatus.mu protects single actions, except in the rewriter, which   *)
(* holds it while it waits for pausingAof.                                  *)
(***************************************************************************)
EXTENDS Integers, FiniteSets, Sequences, SequencesExt

CONSTANTS Conns,         \* connections a slave can open, each used once
          Scenes         \* who connects, what may go wrong, and the bounds

\* A behaviour is about one of the Scenes.
VARIABLE scene

Owner == scene.owner         \* Owner[c]: the slave that opens connection c
Used == scene.conns          \* the connections that are opened
Savers == scene.savers       \* bound on the concurrent saveForReplication calls
MaxCmds == scene.cmds        \* bound on the updates
MaxTicks == scene.ticks      \* bound on the ticks of masterCron
MaxBacklog == scene.backlog  \* maxBacklogSize in units of the offset
MaxAcks == scene.acks        \* bound on the acknowledgements of a connection
LateAcks == "acks" \in scene.late     \* may an ACK be overtaken by updates?
SendsOverlap == "sends" \in scene.late \* may cron and listener send at the same time?
SlowLoad == "load" \in scene.late     \* may slaveCron time out while an RDB is loaded?
SaveFails == scene.fails               \* may the generation of an RDB fail?

Slaves == {Owner[c] : c \in Conns}
Syncers == Savers \cup Conns
Listeners == Savers \cup {"rewrite"}
Backlogs == {"first", "rewritten"}
Nobody == "nobody"
NilMap == {"nil"}       \* the nil map waitSlaves is after a save
NoFile == "none"
Empty == -1              \* a temporary RDB file that has no content yet
NoAck == -1

VARIABLES hist,          \* the updates in the AOF
          aof,           \* [lock, listeners]: pausingAof and the listeners
          lis,           \* [backlog, ready] of each replAofListener
          bl,            \* [begin, cur, buf] of each replBacklog
          m,             \* masterStatus: backlog, state, wait, rdb, listener, mu
          file,          \* the updates in each RDB file, or Empty
          cl,            \* slaveClient of each connection, and its socket
          net,           \* what is written to a connection and not yet read
          ack,           \* an acknowledgement on its way, and how many were sent
          sl,            \* the slaves: [id, off, phase, data]
          sync,          \* savers and psync goroutines
          writer, cron, rw, crashed

vars == <<scene, hist, aof, lis, bl, m, file, cl, net, ack, sl, sync, writer, cron, rw, crashed>>
master == <<aof, lis, bl, m, file>>

NoSnap == [begin |-> 0, buf |-> <<>>, cur |-> 0, left |-> {}, at |-> <<>>]

Init ==
    /\ scene \in Scenes
    /\ hist = <<>>
    /\ aof = [lock |-> Nobody, listeners |-> {}]
    /\ lis = [l \in Listeners |-> [backlog |-> "first", ready |-> FALSE]]
    /\ bl = [b \in Backlogs |-> [begin |-> 0, cur |-> 0, buf |-> <<>>]]
    /\ m = [backlog |-> "first", state |-> "idle", wait |-> {}, rdb |-> NoFile,
            listener |-> NoFile, mu |-> Nobody]
    /\ file = [l \in Listeners |-> Empty]
    /\ cl = [c \in Conns |-> [sock |-> "new", mapped |-> FALSE, online |-> FALSE, offset |-> 0]]
    /\ net = [c \in Conns |-> <<>>]
    /\ ack = [c \in Conns |-> [off |-> NoAck, sent |-> 0]]
    /\ sl = [s \in Slaves |-> [id |-> FALSE, off |-> -1, phase |-> "none", data |-> <<>>]]
    /\ sync = [p \in Syncers |-> [pc |-> "idle", conn |-> NoFile, off |-> 0, left |-> {},
                                  id |-> FALSE]]
    /\ writer = [pc |-> "idle", left |-> {}, snap |-> NoSnap]
    /\ cron = [pc |-> "idle", ticks |-> 0, size |-> 0, snap |-> NoSnap]
    /\ rw = [pc |-> "idle", n |-> 0]
    /\ crashed = FALSE

-----------------------------------------------------------------------------
(* The backlog *)

appendBytes(b, item) == [b EXCEPT !.buf = Append(@, item), !.cur = @ + 1]

\* buf[begin:] of a backlog, when the index is in range
After(buf, i) == SubSeq(buf, i + 1, Len(buf))

isValidOffset(b, off) == off >= b.begin /\ off < b.cur

Units(buf) == [i \in 1..Len(buf) |-> [k |-> "unit", n |-> buf[i]]]

MuFree == m.mu = Nobody
AofFree == aof.lock = Nobody
Alive == ~crashed

\* what removeSlave leaves of a client: socket closed, out of all three maps
Removed(client) == [client EXCEPT !.sock = "closed", !.mapped = FALSE, !.online = FALSE]

Unwait(c) == IF m.wait = NilMap THEN NilMap ELSE m.wait \ {c}

-----------------------------------------------------------------------------
(* PSYNC and the saving of an RDB *)

\* execPSync on a connection that its slave has just opened; the arguments are
\* the replication id and offset the slave knows (psyncHandshake)
execPSync(c) ==
    /\ Alive /\ MuFree
    /\ cl[c].sock = "new" /\ c \in Used
    /\ \A d \in Conns : Owner[d] = Owner[c] => cl[d].sock # "open"
    /\ cl' = [cl EXCEPT ![c].mapped = TRUE,
                        ![c].sock = IF m.state = "running" /\ m.wait = NilMap
                                    THEN "closed"    \* assignment to a nil map panics
                                    ELSE "open"]
    /\ \/ /\ m.state = "idle"
          /\ m' = [m EXCEPT !.wait = @ \cup {c}]
          /\ \E p \in Savers :
                /\ sync[p].pc = "idle"
                /\ sync' = [sync EXCEPT ![p].pc = "spawned"]
       \/ /\ m.state = "running"
          /\ m' = IF m.wait = NilMap THEN m ELSE [m EXCEPT !.wait = @ \cup {c}]
          /\ UNCHANGED sync
       \/ /\ m.state = "finish"
          /\ sync' = [sync EXCEPT ![c] = [@ EXCEPT !.pc = "partial", !.conn = c,
                                          !.off = sl[Owner[c]].off, !.id = sl[Owner[c]].id]]
          /\ UNCHANGED m
    /\ sl' = [sl EXCEPT ![Owner[c]].phase = "handshake"]
    /\ UNCHANGED <<hist, aof, lis, bl, file, net, ack, writer, cron, rw, crashed>>

\* saveForReplication, up to the start of the generation
SaveStart(p) ==
    /\ Alive /\ MuFree
    /\ sync[p].pc = "spawned"
    /\ m' = [m EXCEPT !.state = "running", !.rdb = p, !.listener = p]
    /\ lis' = [lis EXCEPT ![p] = [backlog |-> m.backlog, ready |-> FALSE]]
    /\ sync' = [sync EXCEPT ![p].pc = "start"]
    /\ UNCHANGED <<hist, aof, bl, file, cl, net, ack, sl, writer, cron, rw, crashed>>

\* startGenerateRDB: with the AOF paused, its length is taken and the listener
\* registered.  The files hold what was generated only after the rename.
SaveSnapshot(p) ==
    /\ Alive /\ AofFree
    /\ sync[p].pc = "start"
    /\ aof' = [aof EXCEPT !.listeners = @ \cup {p}]
    /\ sync' = [sync EXCEPT ![p].pc = "generate", ![p].off = Len(hist)]
    /\ UNCHANGED <<hist, lis, bl, m, file, cl, net, ack, sl, writer, cron, rw, crashed>>

\* the rest of GenerateRDBForReplication, and readyToSend
SaveGenerate(p) ==
    /\ Alive
    /\ sync[p].pc = "generate"
    /\ \/ /\ file' = [file EXCEPT ![p] = sync[p].off]
          /\ lis' = [lis EXCEPT ![p].ready = TRUE]
          /\ sync' = [sync EXCEPT ![p].pc = "finish"]
       \/ /\ SaveFails
          /\ sync' = [sync EXCEPT ![p].pc = "failed"]
          /\ UNCHANGED <<file, lis>>
    /\ UNCHANGED <<hist, aof, bl, m, cl, net, ack, sl, writer, cron, rw, crashed>>

\* the waiting slaves are dropped
SaveFinish_DropWaiters(p) ==
    /\ Alive /\ MuFree
    /\ sync[p].pc = "finish"
    /\ m' = [m EXCEPT !.state = "finish", !.wait = NilMap]
    /\ sync' = [sync EXCEPT ![p].pc = "next"]
    /\ UNCHANGED <<hist, aof, lis, bl, file, cl, net, ack, sl, writer, cron, rw, crashed>>

SaveFinish(p) ==
    /\ Alive /\ MuFree
    /\ sync[p].pc = "finish"
    /\ m' = [m EXCEPT !.state = "finish", !.wait = NilMap]
    /\ sync' = [sync EXCEPT ![p].pc = "next", ![p].left = IF m.wait = NilMap THEN {} ELSE m.wait]
    /\ UNCHANGED <<hist, aof, lis, bl, file, cl, net, ack, sl, writer, cron, rw, crashed>>

SaveNext(p) ==
    /\ Alive
    /\ sync[p].pc = "next"
    /\ \/ \E c \in sync[p].left :
             sync' = [sync EXCEPT ![p].pc = "header", ![p].conn = c, ![p].left = @ \ {c}]
       \/ /\ sync[p].left = {}
          /\ sync' = [sync EXCEPT ![p].pc = "done"]
    /\ UNCHANGED <<hist, master, cl, net, ack, sl, writer, cron, rw, crashed>>

saveForReplication(p) ==
    SaveStart(p) \/ SaveSnapshot(p) \/ SaveGenerate(p) \/ SaveFinish(p) \/ SaveNext(p)

-----------------------------------------------------------------------------
(* Full and partial resynchronisation, in a saver or a psync goroutine *)

AfterSync(p) == IF p \in Savers THEN "next" ELSE "done"

\* p writes msgs to its connection and continues at pc; if the write fails it
\* removes the slave (removeSlave, under mu)
WriteTo(p, msgs, pc, off) ==
    LET c == sync[p].conn
    IN  \/ /\ cl[c].sock = "open"
           /\ net' = [net EXCEPT ![c] = @ \o msgs]
           /\ sync' = [sync EXCEPT ![p].pc = pc, ![p].off = off]
           /\ UNCHANGED <<cl, m>>
        \/ /\ cl[c].sock = "closed"
           /\ MuFree
           /\ cl' = [cl EXCEPT ![c] = Removed(@)]
           /\ m' = [m EXCEPT !.wait = Unwait(c)]
           /\ sync' = [sync EXCEPT ![p].pc = AfterSync(p)]
           /\ UNCHANGED net

\* the offset taken when the slave comes online, not when its backlog was read
setSlaveOnline_Latest(p) ==
    /\ Alive /\ MuFree
    /\ sync[p].pc = "online"
    /\ cl' = [cl EXCEPT ![sync[p].conn].online = TRUE,
                        ![sync[p].conn].offset = bl[m.backlog].cur]
    /\ sync' = [sync EXCEPT ![p].pc = AfterSync(p)]
    /\ UNCHANGED <<hist, master, net, ack, sl, writer, cron, rw, crashed>>

setSlaveOnline(p) ==
    /\ Alive /\ MuFree
    /\ sync[p].pc = "online"
    /\ cl' = [cl EXCEPT ![sync[p].conn].online = TRUE, ![sync[p].conn].offset = sync[p].off]
    /\ sync' = [sync EXCEPT ![p].pc = AfterSync(p)]
    /\ UNCHANGED <<hist, master, net, ack, sl, writer, cron, rw, crashed>>

\* header, RDB and backlog are three writes; only the last reads under mu
masterFullReSyncWithSlave(p) ==
    /\ Alive
    /\ \/ /\ sync[p].pc = "header"
          /\ WriteTo(p, <<[k |-> "full", n |-> bl[m.backlog].begin]>>, "rdb", 0)
       \/ /\ sync[p].pc = "rdb"
          /\ WriteTo(p, <<[k |-> "rdb", n |-> file[m.rdb]]>>, "backlog", 0)
       \/ /\ sync[p].pc = "backlog"
          /\ MuFree
          /\ WriteTo(p, Units(bl[m.backlog].buf), "online", bl[m.backlog].cur)
    /\ UNCHANGED <<hist, aof, lis, bl, file, ack, sl, writer, cron, rw, crashed>>

\* masterTryPartialSyncWithSlave; a slave that knows an id knows this master's
masterTryPartialSyncWithSlave(p) ==
    /\ Alive /\ MuFree
    /\ sync[p].pc = "partial"
    /\ LET b == bl[m.backlog]
       IN  IF sync[p].id /\ isValidOffset(b, sync[p].off)
           THEN WriteTo(p, <<[k |-> "continue", n |-> 0]>>
                             \o Units(After(b.buf, sync[p].off - b.begin)), "online", b.cur)
           ELSE /\ sync' = [sync EXCEPT ![p].pc = "header"]
                /\ UNCHANGED <<cl, net, m>>
    /\ UNCHANGED <<hist, aof, lis, bl, file, ack, sl, writer, cron, rw, crashed>>

-----------------------------------------------------------------------------
(* Sending updates: the AOF writer's callback and the cron *)

\* what masterSendUpdatesToSlave reads under mu
TakeSnapshot ==
    [begin |-> bl[m.backlog].begin, buf |-> bl[m.backlog].buf, cur |-> bl[m.backlog].cur,
     left |-> {c \in Conns : cl[c].online}, at |-> <<>>]

\* the loop of masterSendUpdatesToSlave takes a slave: its offset is read
\* without mu, and a slice index out of range is a panic
PickSlave(snap, c) == [snap EXCEPT !.left = @ \ {c}, !.at = <<c, cl[c].offset - snap.begin>>]

OutOfRange(snap) == snap.at # <<>> /\ snap.at[2] \notin 0..Len(snap.buf)

\* it writes the rest of the backlog and sets the offset, again without mu
SendTo(snap) ==
    LET c == snap.at[1]
    IN  \/ /\ cl[c].sock = "open"
           /\ net' = [net EXCEPT ![c] = @ \o Units(After(snap.buf, snap.at[2]))]
           /\ cl' = [cl EXCEPT ![c].offset = snap.cur]
           /\ UNCHANGED m
        \/ /\ cl[c].sock # "open"
           /\ MuFree
           /\ cl' = [cl EXCEPT ![c] = Removed(@)]
           /\ m' = [m EXCEPT !.wait = Unwait(c)]
           /\ UNCHANGED net

Sent(snap) == snap.left = {} /\ snap.at = <<>>

\* a command reaches the AOF; the writer keeps pausingAof for the callbacks
WriteAof ==
    /\ Alive /\ AofFree
    /\ writer.pc = "idle"
    /\ Len(hist) < MaxCmds
    /\ SendsOverlap \/ cron.pc = "idle"
    /\ hist' = Append(hist, Len(hist) + 1)
    /\ aof' = [aof EXCEPT !.lock = "writer"]
    /\ writer' = [writer EXCEPT !.pc = "callback", !.left = aof.listeners]
    /\ UNCHANGED <<lis, bl, m, file, cl, net, ack, sl, sync, cron, rw, crashed>>

Callback ==
    /\ Alive /\ MuFree
    /\ writer.pc = "callback"
    /\ \E l \in writer.left :
          /\ bl' = [bl EXCEPT ![lis[l].backlog] = appendBytes(@, Last(hist))]
          /\ writer' = [writer EXCEPT !.left = @ \ {l},
                                      !.pc = IF lis[l].ready THEN "snapshot" ELSE @]
    /\ UNCHANGED <<hist, aof, lis, m, file, cl, net, ack, sl, sync, cron, rw, crashed>>

CallbackSend ==
    /\ Alive
    /\ \/ /\ writer.pc = "snapshot" /\ MuFree
          /\ writer' = [writer EXCEPT !.pc = "send", !.snap = TakeSnapshot]
          /\ UNCHANGED <<cl, net, m, crashed>>
       \/ /\ writer.pc = "send" /\ writer.snap.at = <<>>
          /\ \E c \in writer.snap.left : writer' = [writer EXCEPT !.snap = PickSlave(@, c)]
          /\ crashed' = OutOfRange(writer'.snap)
          /\ UNCHANGED <<cl, net, m>>
       \/ /\ writer.pc = "send" /\ writer.snap.at # <<>>
          /\ SendTo(writer.snap)
          /\ writer' = [writer EXCEPT !.snap.at = <<>>]
          /\ UNCHANGED <<crashed>>
       \/ /\ writer.pc = "send" /\ Sent(writer.snap)
          /\ writer' = [writer EXCEPT !.pc = "callback", !.snap = NoSnap]
          /\ UNCHANGED <<cl, net, m, crashed>>
    /\ UNCHANGED <<hist, aof, lis, bl, file, ack, sl, sync, cron, rw>>

\* all listeners called: pausingAof is released
WriteDone ==
    /\ Alive
    /\ writer.pc = "callback" /\ writer.left = {}
    /\ writer' = [writer EXCEPT !.pc = "idle"]
    /\ aof' = [aof EXCEPT !.lock = Nobody]
    /\ UNCHANGED <<hist, lis, bl, m, file, cl, net, ack, sl, sync, cron, rw, crashed>>

\* masterCron: a ping is appended once an RDB is ready, even if none is online
masterCron ==
    /\ Alive /\ MuFree
    /\ cron.pc = "idle" /\ cron.ticks < MaxTicks
    /\ SendsOverlap \/ writer.pc = "idle"
    /\ \E c \in Conns : cl[c].mapped
    /\ LET b == IF m.state = "finish" THEN appendBytes(bl[m.backlog], 0) ELSE bl[m.backlog]
       IN  /\ bl' = [bl EXCEPT ![m.backlog] = b]
           /\ cron' = [cron EXCEPT !.pc = "snapshot", !.ticks = @ + 1, !.size = Len(b.buf)]
    /\ UNCHANGED <<hist, aof, lis, m, file, cl, net, ack, sl, sync, writer, rw, crashed>>

CronSend ==
    /\ Alive
    /\ \/ /\ cron.pc = "snapshot" /\ MuFree
          /\ cron' = [cron EXCEPT !.pc = "send", !.snap = TakeSnapshot]
          /\ UNCHANGED <<cl, net, m, rw, crashed>>
       \/ /\ cron.pc = "send" /\ cron.snap.at = <<>>
          /\ \E c \in cron.snap.left : cron' = [cron EXCEPT !.snap = PickSlave(@, c)]
          /\ crashed' = OutOfRange(cron'.snap)
          /\ UNCHANGED <<cl, net, m, rw>>
       \/ /\ cron.pc = "send" /\ cron.snap.at # <<>>
          /\ SendTo(cron.snap)
          /\ cron' = [cron EXCEPT !.snap.at = <<>>]
          /\ UNCHANGED <<crashed, rw>>
       \/ /\ cron.pc = "send" /\ Sent(cron.snap)
          /\ cron' = [cron EXCEPT !.pc = "idle", !.snap = NoSnap]
          /\ rw' = IF cron.size > MaxBacklog /\ rw.pc = "idle"
                   THEN [rw EXCEPT !.pc = "start"] ELSE rw
          /\ UNCHANGED <<cl, net, m, crashed>>
    /\ UNCHANGED <<hist, aof, lis, bl, file, ack, sl, sync, writer>>

-----------------------------------------------------------------------------
(* rewriteRDB: a new RDB and a new, shorter backlog (once per behaviour) *)

\* with the AOF paused: the length of the AOF, the listener, and the hook
RewriteSnapshot ==
    /\ Alive /\ AofFree /\ MuFree
    /\ rw.pc = "start"
    /\ aof' = [aof EXCEPT !.listeners = @ \cup {"rewrite"}]
    /\ lis' = [lis EXCEPT !["rewrite"] = [backlog |-> "rewritten", ready |-> FALSE]]
    /\ bl' = [bl EXCEPT !["rewritten"].begin = bl[m.backlog].cur]
    /\ rw' = [pc |-> "generate", n |-> Len(hist)]
    /\ UNCHANGED <<hist, m, file, cl, net, ack, sl, sync, writer, cron, crashed>>

RewriteGenerate ==
    /\ Alive
    /\ rw.pc = "generate"
    /\ \/ /\ file' = [file EXCEPT !["rewrite"] = rw.n]
          /\ rw' = [rw EXCEPT !.pc = "swap"]
       \/ /\ SaveFails
          /\ rw' = [rw EXCEPT !.pc = "failed"]
          /\ UNCHANGED file
    /\ UNCHANGED <<hist, aof, lis, bl, m, cl, net, ack, sl, sync, writer, cron, crashed>>

\* only the file is replaced
RewriteSwap_KeepBacklog ==
    /\ Alive /\ MuFree
    /\ rw.pc = "swap"
    /\ m' = [m EXCEPT !.rdb = "rewrite", !.mu = "rewriter"]
    /\ rw' = [rw EXCEPT !.pc = "remove"]
    /\ UNCHANGED <<hist, aof, lis, bl, file, cl, net, ack, sl, sync, writer, cron, crashed>>

\* mu is taken, file and backlog replaced; RemoveListener waits for pausingAof
RewriteSwap ==
    /\ Alive /\ MuFree
    /\ rw.pc = "swap"
    /\ m' = [m EXCEPT !.rdb = "rewrite", !.backlog = "rewritten", !.mu = "rewriter"]
    /\ rw' = [rw EXCEPT !.pc = "remove"]
    /\ UNCHANGED <<hist, aof, lis, bl, file, cl, net, ack, sl, sync, writer, cron, crashed>>

RewriteRemove ==
    /\ Alive /\ AofFree
    /\ rw.pc = "remove"
    /\ aof' = [aof EXCEPT !.listeners = @ \ {m.listener}]
    /\ m' = [m EXCEPT !.listener = "rewrite", !.mu = Nobody]
    /\ rw' = [rw EXCEPT !.pc = "ready"]
    /\ UNCHANGED <<hist, lis, bl, file, cl, net, ack, sl, sync, writer, cron, crashed>>

RewriteReady ==
    /\ Alive
    /\ rw.pc = "ready"
    /\ lis' = [lis EXCEPT !["rewrite"].ready = TRUE]
    /\ rw' = [rw EXCEPT !.pc = "done"]
    /\ UNCHANGED <<hist, aof, bl, m, file, cl, net, ack, sl, sync, writer, cron, crashed>>

rewriteRDB == RewriteSnapshot \/ RewriteGenerate \/ RewriteSwap \/ RewriteRemove \/ RewriteReady

-----------------------------------------------------------------------------
(* The slave's end *)

\* slaveOfNone: what is left of the state of a slave whose set-up failed
Reset(slave) == [slave EXCEPT !.id = FALSE, !.off = -1, !.phase = "none"]

\* the slave takes one payload: parsePsyncHandshake, loadMasterRDB, receiveAOF
Receive(c) ==
    LET s == Owner[c]
        msg == Head(net[c])
    IN  /\ cl[c].sock = "open" /\ net[c] # <<>>
        /\ \/ /\ msg.k = "full"
              /\ sl' = [sl EXCEPT ![s].id = TRUE, ![s].off = msg.n, ![s].phase = "loading"]
              /\ UNCHANGED cl
           \/ /\ msg.k = "continue"
              /\ sl' = [sl EXCEPT ![s].phase = "stream"]
              /\ UNCHANGED cl
           \/ /\ msg.k = "rdb" /\ msg.n # Empty
              /\ sl' = [sl EXCEPT ![s].data = SubSeq(hist, 1, msg.n), ![s].phase = "stream"]
              /\ UNCHANGED cl
           \/ /\ msg.k = "rdb" /\ msg.n = Empty
              /\ sl' = [sl EXCEPT ![s] = Reset(@)]
              /\ cl' = [cl EXCEPT ![c].sock = "closed"]
           \/ /\ msg.k = "unit"
              /\ sl' = [sl EXCEPT ![s].off = @ + 1,
                                  ![s].data = IF msg.n = 0 THEN @ ELSE Append(@, msg.n)]
              /\ UNCHANGED cl
        /\ net' = [net EXCEPT ![c] = IF cl'[c].sock = "open" THEN Tail(@) ELSE <<>>]
        /\ UNCHANGED <<hist, master, ack, sync, writer, cron, rw, crashed>>

\* the connection breaks: what was under way is lost, and a slave that had not
\* finished its set-up gives up
Disconnect(c) ==
    /\ cl[c].sock = "open"
    /\ cl' = [cl EXCEPT ![c].sock = "closed"]
    /\ net' = [net EXCEPT ![c] = <<>>]
    /\ ack' = [ack EXCEPT ![c].off = NoAck]
    /\ sl' = [sl EXCEPT ![Owner[c]] = IF @.phase = "stream" THEN [@ EXCEPT !.phase = "none"]
                                      ELSE Reset(@)]
    /\ UNCHANGED <<hist, master, sync, writer, cron, rw, crashed>>

\* slaveCron finds no byte received for the timeout while an RDB is loaded
\* and reconnects with the id and the offset of the header
reconnectWithMaster(c) ==
    /\ SlowLoad
    /\ cl[c].sock = "open" /\ sl[Owner[c]].phase = "loading"
    /\ cl' = [cl EXCEPT ![c].sock = "closed"]
    /\ net' = [net EXCEPT ![c] = <<>>]
    /\ ack' = [ack EXCEPT ![c].off = NoAck]
    /\ sl' = [sl EXCEPT ![Owner[c]].phase = "none"]
    /\ UNCHANGED <<hist, master, sync, writer, cron, rw, crashed>>

sendAck2Master(c) ==
    /\ cl[c].sock = "open" /\ sl[Owner[c]].id
    /\ ack[c].off = NoAck /\ ack[c].sent < MaxAcks
    /\ ack' = [ack EXCEPT ![c] = [off |-> sl[Owner[c]].off, sent |-> @.sent + 1]]
    /\ UNCHANGED <<hist, master, cl, net, sl, sync, writer, cron, rw, crashed>>

\* REPLCONF ACK sets the offset the next update is sent from
execReplConf(c) ==
    /\ Alive /\ MuFree
    /\ ack[c].off # NoAck /\ cl[c].mapped
    /\ LateAcks \/ (cl[c].online /\ ack[c].off = cl[c].offset)
    /\ cl' = [cl EXCEPT ![c].offset = ack[c].off]
    /\ ack' = [ack EXCEPT ![c].off = NoAck]
    /\ UNCHANGED <<hist, master, net, sl, sync, writer, cron, rw, crashed>>

-----------------------------------------------------------------------------
Sync(p) ==
    \/ masterTryPartialSyncWithSlave(p)
    \/ masterFullReSyncWithSlave(p)
    \/ setSlaveOnline(p)

Work ==
    \/ \E p \in Savers : saveForReplication(p)
    \/ \E p \in Syncers : Sync(p)
    \/ Callback \/ CallbackSend \/ WriteDone \/ CronSend
    \/ rewriteRDB

Next ==
    /\ \/ Work
       \/ WriteAof \/ masterCron
       \/ \E c \in Conns :
             \/ execPSync(c) \/ Receive(c) \/ Disconnect(c) \/ reconnectWithMaster(c)
             \/ sendAck2Master(c) \/ execReplConf(c)
    /\ UNCHANGED scene

Spec == Init /\ [][Next]_vars

\* goroutines that are not blocked run
FairSpec == Spec /\ WF_vars(Work /\ UNCHANGED scene)

-----------------------------------------------------------------------------
TypeOK ==
    /\ \A i \in 1..Len(hist) : hist[i] = i
    /\ aof.lock \in {Nobody, "writer"} /\ aof.listeners \subseteq Listeners
    /\ lis \in [Listeners -> [backlog : Backlogs, ready : BOOLEAN]]
    /\ \A b \in Backlogs : bl[b].begin \in Nat /\ Len(bl[b].buf) = bl[b].cur
    /\ m.backlog \in Backlogs /\ m.state \in {"idle", "running", "finish"}
    /\ m.wait = NilMap \/ m.wait \subseteq Conns
    /\ m.rdb \in Listeners \cup {NoFile} /\ m.listener \in Listeners \cup {NoFile}
    /\ m.mu \in {Nobody, "rewriter"}
    /\ file \in [Listeners -> -1..MaxCmds]
    /\ cl \in [Conns -> [sock : {"new", "open", "closed"}, mapped : BOOLEAN,
                         online : BOOLEAN, offset : Int]]
    /\ \A s \in Slaves : sl[s].phase \in {"none", "handshake", "loading", "stream"}

(* Nothing overtakes anything: one save at a time, sends under way one after the
   other, no ACK behind updates, no reconnection while an RDB is loaded. *)
Orderly == scene.late = {} /\ Cardinality(Savers) = 1

(* A slave executes exactly the updates of its master, when its steps are orderly:
   what it has loaded and executed since its last full resynchronisation is a
   prefix of the master's history, nothing lost, repeated or reordered, whatever
   is written while an RDB is saved or sent, while the slave comes online, or
   while it reconnects and goes on from its offset. *)
StreamExact == Orderly => \A s \in Slaves : IsPrefix(sl[s].data, hist)

\* the updates of hist the current listener has been called for
Handled == IF writer.pc # "idle" /\ m.listener \in writer.left THEN Front(hist) ELSE hist

NotPing(n) == n # 0

(* The RDB and the backlog that masterFullReSyncWithSlave sends one after the
   other are always a whole: together they hold the history up to the update
   in hand, with no gap and no overlap, also while rewriteRDB replaces both.
   The state is well-typed. *)
SnapshotPlusBacklog ==
    /\ TypeOK
    /\ (m.state = "finish" /\ MuFree)
      => SubSeq(hist, 1, file[m.rdb]) \o SelectSeq(bl[m.backlog].buf, NotPing) = Handled

(* execPSync answers every slave: a connection is open from its PSYNC on, and it
   does not stay open without coming online, whether an RDB was missing, being
   saved or ready; as long as no save fails and no backlog is so long that
   rewriteRDB starts. *)
EveryPsyncServed ==
    ~SaveFails /\ MaxTicks = 0 =>
      \A c \in Conns : []<>(cl[c].sock = "open" => cl[c].online)
=============================================================================
