----------------------------- MODULE Transaction -----------------------------
(***************************************************************************)
(* Clients that send single commands and transactions (WATCH, MULTI, queued*)
(* commands, EXEC, DISCARD) to one database: database.go's execNormal-     *)
(* Command and transaction.go.  A connection serves one request at a time; *)
(* requests of different connections interleave.                           *)
(*                                                                         *)
(* The key locks are those of LockSpec: a request is granted, all its keys *)
(* at once, when no conflicting one holds its locks (KeyLocks implements   *)
(* this).  Under its locks a single command is one step; a transaction     *)
(* executes command by command, and undoes line by line.  addVersion reads *)
(* and writes a version in two steps, without a lock: single commands bump *)
(* before they take their locks, transactions when they have executed.     *)
(***************************************************************************)
EXTENDS Commands

CONSTANTS Client, Key,
          Cmds,        \* the command lines clients send
          Scenes       \* per behaviour, which of the following the clients do

VARIABLE scene

Sent(c) == scene.cmds[c]     \* the command lines a client sends
Queued(c) == scene.queue[c]  \* bound on the commands of its transactions
Watched == scene.watch       \* who watches which key
MaxVersion == scene.version  \* bound on the versions when a request starts

ASSUME ScenesAssumption ==
    \A s \in Scenes : \A c \in Client : s.cmds[c] \subseteq Cmds /\ s.queue[c] \in Nat

VARIABLES db,          \* the database
          version,     \* versionMap
          conn,        \* per connection: multi flag, queue, watching, txErrors
          job,         \* per connection: the request being served
          last         \* the last reply

\* History variables, which no step reads.
VARIABLES before,      \* the database when a transaction got its locks
          quiet,       \* the watched keys no request was about to write when watched
          changed      \* the watched keys that have changed since

code == <<db, version, conn, job, last>>
vars == <<scene, code, before, quiet, changed>>

-----------------------------------------------------------------------------
Idle == [pc |-> "idle", tx |-> FALSE, cmds |-> <<>>, W |-> {}, R |-> {},
         bump |-> <<>>, read |-> 0, vals |-> <<>>, undo |-> <<>>]

NewConn == [multi |-> FALSE, queue |-> <<>>, watching |-> <<>>, txErrors |-> FALSE]

\* SetMultiState(false).
CancelMulti(cn) == [cn EXCEPT !.multi = FALSE, !.queue = <<>>, !.watching = <<>>]

ReplyTo(c, status, vals) == [to |-> c, status |-> status, vals |-> vals]

\* The keys a request writes and reads; a transaction also reads what it watches.
Writes(cmds) == UNION {Prepare(cmds[i]).write : i \in DOMAIN cmds}

WriteSeq(cmds) == FlattenSeq([i \in DOMAIN cmds |-> SetToSeq(Prepare(cmds[i]).write)])

\* Variant: the keys a transaction only reads are not locked.
Reads_None(cmds) == {}

Reads(cmds) == UNION {Prepare(cmds[i]).read : i \in DOMAIN cmds}

\* The transactions that hold their locks; a single command holds its own only
\* during the step that executes it.
Holds(j) == j.tx /\ j.pc \in {"run", "undo", "bump", "put"}

Conflict(i, j) == i.W \intersect (j.W \union j.R) # {} \/ j.W \intersect (i.W \union i.R) # {}

\* The history of a step of c that changes the database.
NoteChange(c) ==
    changed' = [d \in Client |->
      IF d = c /\ job[c].tx THEN changed[d]
      ELSE changed[d] \union {k \in DOMAIN conn[d].watching : db'.data[k] # db.data[k]}]

CanLock(c, j) == \A d \in Client \ {c} : Holds(job[d]) => ~Conflict(j, job[d])

-----------------------------------------------------------------------------
Init ==
    /\ scene \in Scenes
    /\ db = EmptyDB(Key)
    /\ version = [k \in Key |-> 0]
    /\ conn = [c \in Client |-> NewConn]
    /\ job = [c \in Client |-> Idle]
    /\ \E c \in Client : last = ReplyTo(c, "err", <<>>)
    /\ before = [c \in Client |-> EmptyDB(Key)]
    /\ quiet = [c \in Client |-> {}]
    /\ changed = [c \in Client |-> {}]

\* A request about k is between its addVersion and its execution.
AboutToWrite(k) == \E d \in Client : ~job[d].tx /\ job[d].pc # "idle" /\ k \in job[d].W

Watch(c, k) ==
    /\ job[c].pc = "idle"
    /\ <<c, k>> \in Watched
    /\ conn' = [conn EXCEPT ![c].watching = (k :> version[k]) @@ @]
    /\ quiet' = [quiet EXCEPT ![c] = IF AboutToWrite(k) THEN @ \ {k} ELSE @ \union {k}]
    /\ changed' = [changed EXCEPT ![c] = @ \ {k}]
    /\ UNCHANGED <<scene, db, version, job, last, before>>

StartMulti(c) ==
    /\ job[c].pc = "idle" /\ ~conn[c].multi
    /\ conn' = [conn EXCEPT ![c].multi = TRUE]
    /\ UNCHANGED <<scene, db, version, job, last, before, quiet, changed>>

\* A line with a wrong number of arguments is not queued but remembered as an error.
EnqueueCmd(c, cmd) ==
    /\ job[c].pc = "idle" /\ conn[c].multi
    /\ \/ /\ validateArity(cmd)
          /\ Len(conn[c].queue) < Queued(c)
          /\ conn' = [conn EXCEPT ![c].queue = Append(@, cmd)]
       \/ /\ ~validateArity(cmd)
          /\ conn' = [conn EXCEPT ![c].txErrors = TRUE]
    /\ UNCHANGED <<scene, db, version, job, last, before, quiet, changed>>

\* The connection forgets its transaction; so do the histories.
EndMulti(c) ==
    /\ conn' = [conn EXCEPT ![c] = CancelMulti(@)]
    /\ quiet' = [quiet EXCEPT ![c] = {}]
    /\ changed' = [changed EXCEPT ![c] = {}]

DiscardMulti(c) ==
    /\ job[c].pc = "idle" /\ conn[c].multi
    /\ EndMulti(c)
    /\ UNCHANGED <<scene, db, version, job, last, before>>

\* execNormalCommand, up to its addVersion.
CallCommand(c, cmd) ==
    /\ job[c].pc = "idle" /\ ~conn[c].multi
    /\ validateArity(cmd)
    /\ \A k \in Writes(<<cmd>>) : version[k] < MaxVersion
    /\ job' = [job EXCEPT ![c] = [Idle EXCEPT !.pc = "bump", !.cmds = <<cmd>>,
                 !.W = Writes(<<cmd>>), !.R = Reads(<<cmd>>), !.bump = WriteSeq(<<cmd>>)]]
    /\ UNCHANGED <<scene, db, version, conn, last, before, quiet, changed>>

\* addVersion, one key: GetVersion, then Put.
GetVersion(c) ==
    /\ job[c].pc = "bump" /\ job[c].bump # <<>>
    /\ job' = [job EXCEPT ![c].pc = "put", ![c].read = version[Head(job[c].bump)]]
    /\ UNCHANGED <<scene, db, version, conn, last, before, quiet, changed>>

PutVersion(c) ==
    /\ job[c].pc = "put"
    /\ version' = [version EXCEPT ![Head(job[c].bump)] = job[c].read + 1]
    /\ job' = [job EXCEPT ![c].pc = "bump", ![c].bump = Tail(@), ![c].read = 0]
    /\ UNCHANGED <<scene, db, conn, last, before, quiet, changed>>

\* execNormalCommand: locks, executes, unlocks.
RunCommand(c) ==
    /\ job[c].pc = "bump" /\ ~job[c].tx /\ job[c].bump = <<>>
    /\ CanLock(c, job[c])
    /\ \E r \in {Exec(db, job[c].cmds[1], 0)} :
         /\ db' = r.db
         /\ last' = IF r.status = "ok" THEN ReplyTo(c, "ok", <<r.val>>) ELSE ReplyTo(c, "err", <<>>)
    /\ job' = [job EXCEPT ![c] = Idle]
    /\ NoteChange(c)
    /\ UNCHANGED <<scene, version, conn, before, quiet>>

-----------------------------------------------------------------------------
\* execMulti on a connection with an error among its queued commands.
ExecRefused(c) ==
    /\ job[c].pc = "idle" /\ conn[c].multi /\ conn[c].txErrors
    /\ last' = ReplyTo(c, "err", <<>>)
    /\ EndMulti(c)
    /\ UNCHANGED <<scene, db, version, job, before>>

\* execMulti, up to RWLocks.
CallExec(c) ==
    LET cmds == conn[c].queue
    IN  /\ job[c].pc = "idle" /\ conn[c].multi /\ ~conn[c].txErrors
        /\ \A k \in Writes(cmds) : version[k] < MaxVersion
        /\ job' = [job EXCEPT ![c] = [Idle EXCEPT !.pc = "lock", !.tx = TRUE, !.cmds = cmds,
                     !.W = Writes(cmds), !.R = Reads(cmds) \union DOMAIN conn[c].watching]]
        /\ UNCHANGED <<scene, db, version, conn, last, before, quiet, changed>>

isWatchingChanged(c) == \E k \in DOMAIN conn[c].watching : version[k] # conn[c].watching[k]

\* RWLocks returns and the watched versions are compared.  A transaction that is
\* to abort has nothing to undo.
Granted(c) ==
    /\ job[c].pc = "lock"
    /\ CanLock(c, job[c])
    /\ job' = [job EXCEPT ![c].pc = IF isWatchingChanged(c) THEN "undo" ELSE "run"]
    /\ before' = [before EXCEPT ![c] = db]
    /\ UNCHANGED <<scene, db, version, conn, last, quiet, changed>>

\* The next command: its undo lines, computed on the database it is about to
\* change, go before those of the commands executed earlier.  A panic releases
\* the locks and undoes nothing.
ExecNext(c) ==
    /\ job[c].pc = "run" /\ job[c].cmds # <<>>
    /\ \E log \in {GetUndoLogs(db, Head(job[c].cmds), 0)} :
       \E r \in {Exec(log.db, Head(job[c].cmds), 0)} :
         /\ db' = r.db
         /\ job' = [job EXCEPT ![c] =
              CASE r.status = "ok"    -> [@ EXCEPT !.cmds = Tail(@), !.vals = Append(@, r.val), !.undo = log.lines \o @]
                [] r.status = "err"   -> [@ EXCEPT !.pc = "undo", !.cmds = <<>>]
                [] r.status = "panic" -> [@ EXCEPT !.pc = "undo", !.cmds = <<>>, !.undo = <<>>]]
    /\ NoteChange(c)
    /\ UNCHANGED <<scene, version, conn, last, before, quiet>>

\* Variant: a transaction does not bump the versions of what it wrote.
ExecDone_NoBump(c) ==
    /\ job[c].pc = "run" /\ job[c].cmds = <<>>
    /\ job' = [job EXCEPT ![c].pc = "bump", ![c].undo = <<>>]
    /\ UNCHANGED <<scene, db, version, conn, last, before, quiet, changed>>

\* Every command has executed: addVersion follows, the locks still held.
ExecDone(c) ==
    /\ job[c].pc = "run" /\ job[c].cmds = <<>>
    /\ job' = [job EXCEPT ![c].pc = "bump", ![c].undo = <<>>, ![c].bump = WriteSeq(conn[c].queue)]
    /\ UNCHANGED <<scene, db, version, conn, last, before, quiet, changed>>

UndoNext(c) ==
    /\ job[c].pc = "undo" /\ job[c].undo # <<>>
    /\ db' = Exec(db, Head(job[c].undo), 0).db
    /\ job' = [job EXCEPT ![c].undo = Tail(@)]
    /\ NoteChange(c)
    /\ UNCHANGED <<scene, version, conn, last, before, quiet>>

\* execMulti returns: the locks are released and the connection leaves MULTI.
Return(c, reply) ==
    /\ last' = reply
    /\ job' = [job EXCEPT ![c] = Idle]
    /\ before' = [before EXCEPT ![c] = EmptyDB(Key)]
    /\ EndMulti(c)
    /\ UNCHANGED <<scene, db, version>>

Commit(c) ==
    /\ job[c].tx /\ job[c].pc = "bump" /\ job[c].bump = <<>>
    /\ Return(c, ReplyTo(c, "ok", job[c].vals))

\* Variant: the error return does not release the locks.
Aborted_KeepsLocks(c) ==
    /\ job[c].pc = "undo" /\ job[c].undo = <<>>
    /\ last' = ReplyTo(c, "err", <<>>)
    /\ EndMulti(c)
    /\ UNCHANGED <<scene, db, version, job, before>>

Aborted(c) ==
    /\ job[c].pc = "undo" /\ job[c].undo = <<>>
    /\ Return(c, ReplyTo(c, "err", <<>>))

Next ==
    \E c \in Client :
        \/ \E k \in Key : Watch(c, k)
        \/ \E cmd \in Sent(c) : EnqueueCmd(c, cmd) \/ CallCommand(c, cmd)
        \/ StartMulti(c) \/ DiscardMulti(c)
        \/ GetVersion(c) \/ PutVersion(c) \/ RunCommand(c)
        \/ ExecRefused(c) \/ CallExec(c) \/ Granted(c)
        \/ ExecNext(c) \/ ExecDone(c) \/ UndoNext(c)
        \/ Commit(c) \/ Aborted(c)

Spec == Init /\ [][Next]_vars

\* A request that has begun takes its steps; RWLocks returns when it can for
\* ever (the mutexes of KeyLocks hand over to waiters).
Serve(c) ==
    \/ GetVersion(c) \/ PutVersion(c) \/ ExecNext(c) \/ ExecDone(c)
    \/ UndoNext(c) \/ Commit(c) \/ Aborted(c)

LiveSpec == Spec /\ \A c \in Client : WF_vars(Serve(c)) /\ SF_vars(RunCommand(c)) /\ SF_vars(Granted(c))

-----------------------------------------------------------------------------
TypeOK ==
    /\ \A k \in Key : db.ttl[k] = NoTTL
    /\ version \in [Key -> Nat]
    /\ \A c \in Client :
         /\ conn[c].multi \in BOOLEAN /\ conn[c].txErrors \in BOOLEAN
         /\ conn[c].queue \in Seq(Cmds)
         /\ DOMAIN conn[c].watching \subseteq Key
         /\ job[c].pc \in {"idle", "bump", "put", "lock", "run", "undo"}
         /\ job[c].tx => job[c].pc # "idle" /\ conn[c].multi
         /\ job[c].W \subseteq Key /\ job[c].R \subseteq Key
    /\ last.to \in Client /\ last.status \in {"ok", "err"}

\* The database as its clients may see it: what a transaction that holds its
\* locks has written so far is not there yet.
AtomicDB ==
    LET owners(k) == {c \in Client : Holds(job[c]) /\ k \in job[c].W}
        shown(k) == IF owners(k) = {} THEN db ELSE before[CHOOSE c \in owners(k) : TRUE]
    IN  [data |-> [k \in Key |-> shown(k).data[k]], ttl |-> [k \in Key |-> shown(k).ttl[k]]]

Tx == INSTANCE TxSpec WITH db <- AtomicDB

\* "ExecMulti executes multi commands transaction Atomically and Isolated"
\* (transaction.go): whatever the interleaving, a transaction that replies its
\* results took effect in one step on the database other clients see and replied
\* what it found in that step, and one that is refused, by an error in the queue,
\* by a watched key or by a command that fails half-way, changed nothing.
ImplementsTxSpec == Tx!Spec

\* "watching keys changed, abort" (transaction.go): a transaction that goes on
\* to execute has seen no change of a key it watches since WATCH.
WatchDetects == \A c \in Client : job[c].pc = "run" /\ job[c].vals = <<>> => changed[c] = {}

\* The same for the keys no command of another client was about to write when
\* WATCH read their version (between its addVersion and its RWLocks).  The state
\* is well-typed.
WatchDetectsQuiet ==
    TypeOK /\ \A c \in Client : job[c].pc = "run" /\ job[c].vals = <<>> => changed[c] \intersect quiet[c] = {}

\* Every EXEC and every single command is answered, whatever the others do: no
\* circle of transactions waiting for one another, no lock that stays taken.
EveryRequestAnswered == \A c \in Client : job[c].pc # "idle" ~> job[c].pc = "idle"
=============================================================================
