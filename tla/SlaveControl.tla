---------------------------- MODULE SlaveControl ----------------------------
(***************************************************************************)
(* The slave's side of replication as goroutines: database/                 *)
(* replication_slave.go.  SLAVEOF starts a setupMaster goroutine each time; *)
(* slaveStatus.mutex, configVersion, the cancelled context and the wait     *)
(* group `running` are to keep one of them at work and to stop the others.  *)
(* What the goroutines receive is abstracted to where it comes from.        *)
(***************************************************************************)
EXTENDS Integers, FiniteSets

CONSTANTS Hosts,        \* masters a client can name
          Procs,        \* setupMaster goroutines, each started once at most
          MaxCommands,  \* bound on SLAVEOF commands
          MaxTimeouts,  \* bound on the reconnections of slaveCron
          MaxUpdates,   \* bound on the updates executed
          NetworkFails  \* may a connection to a master fail?

ASSUME FiniteProcs == IsFiniteSet(Procs)

None == "none"
Client == "client"
Cron == "cron"

VARIABLES st,      \* slaveStatus: mutex, version, host, replId, cancel, conn, running
          role,    \* server.role
          g,       \* the goroutines: [pc, ver, addr]
          done,    \* the contexts that have been cancelled
          op,      \* what client and cron do: "idle", "lock" or "wait"
          data,    \* [from, n]: the master the data is of, and the updates executed
          cnt      \* the commands and timeouts so far

vars == <<st, role, g, done, op, data, cnt>>

Init ==
    /\ st = [mutex |-> None, version |-> 0, host |-> None, replId |-> None,
             cancel |-> None, conn |-> None, running |-> 0]
    /\ role = "master"
    /\ g = [p \in Procs |-> [pc |-> "new", ver |-> 0, addr |-> None]]
    /\ done = {}
    /\ op = [a \in {Client, Cron} |-> "idle"]
    /\ data = [from |-> None, n |-> 0]
    /\ cnt = [commands |-> 0, timeouts |-> 0]

Free == st.mutex = None

\* `go server.setupMaster()`: the goroutine that starts, which is the next one
Fresh == {p \in Procs : g[p].pc = "new"}
Go(p) == g' = [g EXCEPT ![p].pc = "setup"]

-----------------------------------------------------------------------------
(* Commands and the cron *)

execSlaveOf(h) ==
    /\ Free /\ op[Client] = "idle"
    /\ cnt.commands < MaxCommands
    /\ st' = [st EXCEPT !.host = h, !.version = @ + 1]
    /\ role' = "slave"
    /\ cnt' = [cnt EXCEPT !.commands = @ + 1]
    /\ \E p \in Fresh : Go(p)
    /\ UNCHANGED <<done, op, data>>

\* what slaveOfNone resets first
Forget(s) == [s EXCEPT !.host = None, !.replId = None]

\* the parts of stopSlaveWithMutex before and after running.Wait
StopBegin(a, s) == [s EXCEPT !.mutex = a, !.version = @ + 1]
StopEnd(s) == [s EXCEPT !.mutex = None, !.cancel = None, !.conn = None]
Cancelled == done \cup ({st.cancel} \ {None})
CanEnd == st.cancel = None \/ st.running = 0

\* slaveOfNone of a client; the goroutines call it when they give up
ClientSlaveOfNone ==
    /\ Free /\ op[Client] = "idle"
    /\ cnt.commands < MaxCommands
    /\ st' = StopBegin(Client, Forget(st))
    /\ done' = Cancelled
    /\ op' = [op EXCEPT ![Client] = "wait"]
    /\ cnt' = [cnt EXCEPT !.commands = @ + 1]
    /\ UNCHANGED <<role, g, data>>

ClientStopped ==
    /\ op[Client] = "wait" /\ CanEnd
    /\ st' = StopEnd(st)
    /\ role' = "master"
    /\ op' = [op EXCEPT ![Client] = "idle"]
    /\ UNCHANGED <<g, done, data, cnt>>

\* a reconnection keeps the version of the configuration
reconnectWithMaster_KeepsVersion ==
    /\ Free /\ op[Cron] = "idle" /\ st.conn # None
    /\ cnt.timeouts < MaxTimeouts
    /\ st' = [st EXCEPT !.mutex = Cron]
    /\ done' = Cancelled
    /\ op' = [op EXCEPT ![Cron] = "wait"]
    /\ cnt' = [cnt EXCEPT !.timeouts = @ + 1]
    /\ UNCHANGED <<role, g, data>>

\* slaveCron sees an old lastRecvTime; reconnectWithMaster
reconnectWithMaster ==
    /\ Free /\ op[Cron] = "idle" /\ st.conn # None
    /\ cnt.timeouts < MaxTimeouts
    /\ st' = StopBegin(Cron, st)
    /\ done' = Cancelled
    /\ op' = [op EXCEPT ![Cron] = "wait"]
    /\ cnt' = [cnt EXCEPT !.timeouts = @ + 1]
    /\ UNCHANGED <<role, g, data>>

CronStopped ==
    /\ op[Cron] = "wait" /\ CanEnd
    /\ st' = StopEnd(st)
    /\ op' = [op EXCEPT ![Cron] = "idle"]
    /\ \E p \in Fresh : Go(p)
    /\ UNCHANGED <<role, done, data, cnt>>

-----------------------------------------------------------------------------
(* setupMaster *)

At(p, pc) == g[p].pc = pc
Move(p, pc) == g' = [g EXCEPT ![p].pc = pc]

Setup(p) ==
    /\ At(p, "setup") /\ Free
    /\ st' = [st EXCEPT !.cancel = p]
    /\ g' = [g EXCEPT ![p].pc = "host", ![p].ver = st.version]
    /\ UNCHANGED <<role, done, op, data, cnt>>

\* connectWithMaster reads the address without the mutex, dials and says hello
Dial(p) ==
    /\ At(p, "host")
    /\ \/ /\ st.host # None
          /\ g' = [g EXCEPT ![p].pc = "dialled", ![p].addr = st.host]
       \/ /\ NetworkFails \/ st.host = None
          /\ Move(p, "abort twice")
    /\ UNCHANGED <<st, role, done, op, data, cnt>>

\* connectWithMaster under the mutex, which psyncHandshake keeps until the
\* master has answered
Handshake(p) ==
    /\ At(p, "dialled") /\ Free
    /\ \/ /\ st.version # g[p].ver
          /\ Move(p, "abort")
          /\ UNCHANGED st
       \/ /\ st.version = g[p].ver
          /\ st' = [st EXCEPT !.mutex = p, !.conn = p]
          /\ Move(p, "psync")
    /\ UNCHANGED <<role, done, op, data, cnt>>

parsePsyncHandshake(p) ==
    /\ At(p, "psync")
    /\ \/ /\ st' = [st EXCEPT !.mutex = None, !.replId = g[p].addr]    \* FULLRESYNC
          /\ Move(p, "load")
       \/ /\ st.replId = g[p].addr                                     \* CONTINUE
          /\ st' = [st EXCEPT !.mutex = None]
          /\ Move(p, "receive aof")
       \/ /\ NetworkFails
          /\ st' = [st EXCEPT !.mutex = None]
          /\ Move(p, "abort")
    /\ UNCHANGED <<role, done, op, data, cnt>>

\* the version is not compared
loadMasterRDB_NoCheck(p) ==
    /\ At(p, "loaded") /\ Free
    /\ data' = [data EXCEPT !.from = g[p].addr]
    /\ Move(p, "receive aof")
    /\ UNCHANGED <<st, role, done, op, cnt>>

\* loadMasterRDB: the RDB is read from the current masterChan (a nil channel
\* blocks for ever) and takes effect under the mutex
DownloadRDB(p) ==
    /\ At(p, "load")
    /\ \/ /\ st.conn # None
          /\ g' = [g EXCEPT ![p].pc = "loaded", ![p].addr = g[st.conn].addr]
       \/ /\ st.conn # p \/ NetworkFails
          /\ Move(p, "abort")
       \/ st.conn = None /\ Move(p, "blocked")
    /\ UNCHANGED <<st, role, done, op, data, cnt>>

loadMasterRDB(p) ==
    /\ At(p, "loaded") /\ Free
    /\ \/ /\ st.version # g[p].ver
          /\ Move(p, "abort")
          /\ UNCHANGED data
       \/ /\ st.version = g[p].ver
          /\ data' = [data EXCEPT !.from = g[p].addr]
          /\ Move(p, "receive aof")
    /\ UNCHANGED <<st, role, done, op, cnt>>

\* receiveAOF
ReceiveStart(p) ==
    /\ At(p, "receive aof")
    /\ st' = [st EXCEPT !.running = @ + 1]
    /\ Move(p, "receive")
    /\ UNCHANGED <<role, done, op, data, cnt>>

\* the select: a payload, a closed channel, or the context; a channel it waits
\* on still delivers after masterChan has been set to nil
Select(p) ==
    /\ At(p, "receive")
    /\ \/ /\ data.n < MaxUpdates
          /\ Move(p, "payload")
          /\ UNCHANGED st
       \/ /\ st.conn # p \/ p \in done \/ NetworkFails
          /\ Move(p, "end")
          /\ st' = [st EXCEPT !.running = @ - 1]
    /\ UNCHANGED <<role, done, op, data, cnt>>

\* a payload is executed; the return on a changed configuration keeps the mutex
ReceivePayload(p) ==
    /\ At(p, "payload") /\ Free
    /\ \/ /\ st.version # g[p].ver
          /\ st' = [st EXCEPT !.mutex = p, !.running = @ - 1]
          /\ Move(p, "end")
          /\ UNCHANGED data
       \/ /\ st.version = g[p].ver
          /\ data' = [data EXCEPT !.n = @ + 1]
          /\ Move(p, "receive")
          /\ UNCHANGED st
    /\ UNCHANGED <<role, done, op, cnt>>

\* slaveOfNone at the end of a set-up that failed; once more after a failed dial
Abort(p) ==
    /\ g[p].pc \in {"abort", "abort twice"} /\ Free
    /\ st' = StopBegin(p, Forget(st))
    /\ done' = Cancelled
    /\ Move(p, IF At(p, "abort") THEN "stopping" ELSE "stopping twice")
    /\ UNCHANGED <<role, op, data, cnt>>

AbortEnd(p) ==
    /\ g[p].pc \in {"stopping", "stopping twice"} /\ CanEnd
    /\ st' = StopEnd(st)
    /\ role' = "master"
    /\ Move(p, IF At(p, "stopping") THEN "end" ELSE "abort")
    /\ UNCHANGED <<done, op, data, cnt>>

setupMaster(p) ==
    \/ Setup(p) \/ Dial(p) \/ Handshake(p) \/ parsePsyncHandshake(p)
    \/ DownloadRDB(p) \/ loadMasterRDB(p)
    \/ ReceiveStart(p) \/ Select(p) \/ ReceivePayload(p)
    \/ Abort(p) \/ AbortEnd(p)

Work == ClientStopped \/ CronStopped \/ \E p \in Procs : setupMaster(p)

Next ==
    \/ Work
    \/ \E h \in Hosts : execSlaveOf(h)
    \/ ClientSlaveOfNone \/ reconnectWithMaster

Spec == Init /\ [][Next]_vars

-----------------------------------------------------------------------------
TypeOK ==
    /\ st \in [mutex : Procs \cup {None, Client, Cron}, version : Nat, host : Hosts \cup {None},
               replId : Hosts \cup {None}, cancel : Procs \cup {None}, conn : Procs \cup {None},
               running : 0..Cardinality(Procs)]
    /\ role \in {"master", "slave"}
    /\ done \subseteq Procs
    /\ data.from \in Hosts \cup {None} /\ data.n \in Nat

(* Data comes from the configured master only: whenever an RDB takes effect or
   an update is executed, the goroutine that does it had dialled the master
   that slaveStatus names at that moment, however many SLAVEOF commands,
   reconnections and failed set-ups came between. *)
SourceIsMaster ==
    [][\A p \in Procs : (data' # data /\ g'[p] # g[p]) => g[p].addr = st.host]_vars

(* One goroutine executes the updates of the master, so updates keep their
   order: no two are in the loop of receiveAOF for the current configuration.
   A reconnection keeps this ("If configVersion change has been found during
   slaveStatus current slaveStatus procedure will stop"); two SLAVEOF in a row
   need not, as setupMaster reads the version only when it starts.  The state is
   well-typed. *)
OneReceiver ==
    TypeOK /\ (cnt.commands = 1 =>
      \A p, q \in {r \in Procs : g[r].pc \in {"receive", "payload"} /\ g[r].ver = st.version} : p = q)

-----------------------------------------------------------------------------
(* The strengthening of SourceIsMaster that the steps preserve *)

Unconnected == {"new", "setup", "host"}
Reading == {"psync", "load"}
Following == {"dialled", "loaded", "receive aof", "receive", "payload"} \cup Reading
Leaving == {"blocked", "abort", "abort twice", "stopping", "stopping twice", "end"}

SlaveType ==
    /\ st \in [mutex : Procs \cup {None, Client, Cron}, version : Nat, host : Hosts \cup {None},
               replId : Hosts \cup {None}, cancel : Procs \cup {None}, conn : Procs \cup {None},
               running : Int]
    /\ g \in [Procs -> [pc : Unconnected \cup Following \cup Leaving, ver : Nat, addr : Hosts \cup {None}]]

\* The version a goroutine remembers is not of the future, and if it is the
\* current one the address was read after the last change of the configuration.
\* While a goroutine reads an RDB for the current version, the connection, which
\* may be of another goroutine, is to the configured master too.
Configured ==
    /\ st.conn # None => g[st.conn].pc \notin Unconnected
    /\ \A p \in Procs :
         /\ g[p].ver <= st.version
         /\ g[p].ver = st.version /\ g[p].pc \in Following => g[p].addr = st.host
         /\ g[p].ver = st.version /\ g[p].pc \in Reading /\ st.conn # None
              => g[st.conn].ver = st.version /\ g[st.conn].addr = st.host

SlaveInv == SlaveType /\ Configured

-----------------------------------------------------------------------------
(* The strengthening of OneReceiver *)

\* The goroutines in the loop of receiveAOF: those the wait group counts.
Receivers == {p \in Procs : g[p].pc \in {"receive", "payload"}}

Counting ==
    /\ role \in {"master", "slave"} /\ done \subseteq Procs
    /\ data \in [from : Hosts \cup {None}, n : Nat]
    /\ op \in [{Client, Cron} -> {"idle", "wait"}]
    /\ cnt \in [commands : Nat, timeouts : Nat]
    /\ st.running = Cardinality(Receivers)

\* The goroutines that may still receive in the current version.
Candidates ==
    {p \in Procs : \/ At(p, "setup")
                   \/ g[p].pc \in Following \cup {"host"} /\ g[p].ver = st.version}

\* Nothing runs before the first command.  After it there is one candidate at
\* most, there is none while the cron stops the slave, and a connection is made by
\* a goroutine that has read its version.
Single ==
    /\ cnt.commands = 0 =>
         /\ st.conn = None /\ op[Cron] = "idle"
         /\ \A p \in Procs : At(p, "new")
    /\ cnt.commands = 1 =>
         /\ \A p, q \in Candidates : p = q
         /\ op[Cron] = "wait" => Candidates = {}
         /\ st.conn # None => \A p \in Procs : ~At(p, "setup")
=============================================================================
