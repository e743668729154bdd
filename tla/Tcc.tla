-------------------------------- MODULE Tcc --------------------------------
(***************************************************************************)
(* Commands over the keys of several cluster nodes, by try-commit-cancel:  *)
(* cluster/core/tcc.go (a node's prepare, commit and rollback) and         *)
(* cluster/commands (the coordinator: doTcc, execRename, requestRollback). *)
(*                                                                         *)
(* A coordinator sends one request at a time and waits for its reply; the  *)
(* client gives up waiting after a while although the node goes on.  The   *)
(* goroutines of a node run concurrently.  Key locks are granted all at    *)
(* once (KeyLocks).  A command is [op, keys, val, src, dst]; a key lives   *)
(* on one node and holds a value or is Absent.                             *)
(***************************************************************************)
EXTENDS Integers, Sequences, FiniteSets

CONSTANTS Node, Key, Absent,
          NodeOf,      \* where a key lives
          Client,      \* clients, each with one command
          Scenes       \* what clients ask for, and how slow the network is

\* A behaviour is about one of the Scenes.
VARIABLE scene

Plan == scene.plan             \* the command of each client
Present == scene.present       \* the keys that exist at first
SlowPhases == scene.slow       \* the phases whose requests may be answered too late
MaxTimeouts == scene.timeouts  \* bound on the requests a coordinator stops waiting for

VARIABLES db,          \* the keys of all nodes
          txs,         \* per node and client: the TCC record, if any
          held,        \* the locks: who holds them, on which node, taken by which handler
          todo,        \* requests on the way to or in execution at a node
          co,          \* per client: the coordinator
          timeouts

\* History: at which nodes a command was committed, and what it read there.
VARIABLES committed, got

vars == <<scene, db, txs, held, todo, co, timeouts, committed, got>>

-----------------------------------------------------------------------------
Command == [op : {"mset", "msetnx", "mget", "del", "rename", "renamenx"}, keys : SUBSET Key, val : Int,
            src : Key \union {""}, dst : Key \union {""}]

IsRename(cmd) == cmd.op \in {"rename", "renamenx"}

Nodes(cmd) == {NodeOf[k] : k \in cmd.keys}

At(cmd, n) == {k \in cmd.keys : NodeOf[k] = n}

\* A RENAME is over two nodes: one on a single node is relayed to it as it is.
ASSUME TccAssumption ==
    /\ NodeOf \in [Key -> Node] /\ "" \notin Node
    /\ \A s \in Scenes :
         /\ s.plan \in [Client -> Command]
         /\ \A t \in Client : LET cmd == s.plan[t] IN IsRename(cmd) =>
              {cmd.src, cmd.dst} \subseteq Key /\ cmd.keys = {cmd.src, cmd.dst} /\ NodeOf[cmd.src] # NodeOf[cmd.dst]

\* The commands that execMSet serves: "msetnx" is registered with it too.
Sets(cmd) == cmd.op \in {"mset", "msetnx"}

\* GetRelatedKeys of a node's part of the command.
WriteKeys(cmd, n) ==
    CASE Sets(cmd) \/ cmd.op = "del" -> At(cmd, n)
      [] IsRename(cmd) -> At(cmd, n) \ {cmd.src}
      [] OTHER -> {}

ReadKeys(cmd, n) == At(cmd, n) \ WriteKeys(cmd, n)

NoLogs == [k \in Key |-> <<>>]

NoTx == [cmd |-> "none", undo |-> NoLogs, hasLock |-> FALSE]

NewTx == [cmd |-> "some", undo |-> NoLogs, hasLock |-> FALSE]

CanLock(t, n) ==
    LET W == WriteKeys(Plan[t], n)
        R == ReadKeys(Plan[t], n)
    IN  \A h \in held : h.node = n =>
          /\ W \intersect (WriteKeys(Plan[h.tx], n) \union ReadKeys(Plan[h.tx], n)) = {}
          /\ R \intersect WriteKeys(Plan[h.tx], n) = {}

\* rollbackGivenKeys: for each key DEL, and the value the key has, if any.
UndoLogs(cmd, n) ==
    [k \in Key |-> IF k \notin WriteKeys(cmd, n) THEN <<>>
                   ELSE IF db[k] = Absent THEN <<Absent>> ELSE <<Absent, db[k]>>]

\* The undo logs run, the last one first: of the lines of a key its first one stays.
Apply(d, undo) == [k \in Key |-> IF undo[k] = <<>> THEN d[k] ELSE Head(undo[k])]

\* The value that the key k, now old, has after a command: RenameTo loads what
\* RenameFrom dumped.
Outcome(cmd, dump, old, k) ==
    CASE Sets(cmd) -> cmd.val
      [] cmd.op = "del" -> Absent
      [] IsRename(cmd) -> IF k = cmd.dst THEN dump ELSE Absent
      [] OTHER -> old

NewValue(t, k) == Outcome(Plan[t], co[t].dump, db[k], k)

\* ExecWithLock of a node's part.
ExecPart(t, n) == [k \in Key |-> IF k \in At(Plan[t], n) THEN NewValue(t, k) ELSE db[k]]

\* What a command has read, with the keys K.
ReadAlso(vals, K) == [k \in Key |-> IF k \in K THEN db[k] ELSE vals[k]]

Answer(t, n, what, ok, val) ==
    co' = IF co[t].phase = what /\ co[t].wait = n
          THEN [co EXCEPT ![t].reply = IF ok THEN "ok" ELSE "err", ![t].dump = IF val = Absent THEN @ ELSE val]
          ELSE co

Init ==
    /\ scene \in Scenes
    /\ db = [k \in Key |-> IF k \in Present THEN 0 ELSE Absent]
    /\ txs = [n \in Node |-> [t \in Client |-> NoTx]]
    /\ held = {} /\ todo = {}
    /\ co = [t \in Client |-> [phase |-> "new", wait |-> "", left |-> {}, reply |-> "", dump |-> Absent, out |-> ""]]
    /\ timeouts = 0
    /\ committed = {} /\ got = [t \in Client |-> [k \in Key |-> Absent]]

-----------------------------------------------------------------------------
\* A command all of whose keys are on one node is executed there under its locks.
Local(t) ==
    /\ co[t].phase = "new" /\ ~IsRename(Plan[t])
    /\ \E n \in Node : /\ Nodes(Plan[t]) = {n} /\ CanLock(t, n)
                      /\ db' = ExecPart(t, n)
                      /\ committed' = committed \union {<<t, n>>}
    /\ got' = [got EXCEPT ![t] = ReadAlso(@, Plan[t].keys)]
    /\ co' = [co EXCEPT ![t].phase = "done", ![t].out = "ok"]
    /\ UNCHANGED <<txs, held, todo, timeouts>>

Start(t) ==
    /\ co[t].phase = "new" /\ Cardinality(Nodes(Plan[t])) > 1
    /\ co' = [co EXCEPT ![t].phase = "prepare", ![t].left = Nodes(Plan[t])]
    /\ UNCHANGED <<db, txs, held, todo, timeouts, committed, got>>

\* The next request of the coordinator: the nodes come in the order of a Go map,
\* except that RENAME prepares the node of src first.
Send(t, n) ==
    /\ co[t].phase \in {"prepare", "commit", "rollback"} /\ co[t].wait = "" /\ n \in co[t].left
    /\ IsRename(Plan[t]) /\ co[t].phase = "prepare" /\ NodeOf[Plan[t].src] \in co[t].left => n = NodeOf[Plan[t].src]
    /\ todo' = todo \union {[tx |-> t, node |-> n, what |-> co[t].phase]}
    /\ co' = [co EXCEPT ![t].wait = n, ![t].left = @ \ {n}]
    /\ UNCHANGED <<db, txs, held, timeouts, committed, got>>

\* requestRollback; a RENAME that fails on the node of src goes to no other.
Rollback(t) ==
    LET src == NodeOf[Plan[t].src]
        nodes == IF IsRename(Plan[t]) /\ co[t].phase = "prepare" /\ co[t].wait = src THEN {src} ELSE Nodes(Plan[t])
    IN  co' = [co EXCEPT ![t].phase = "rollback", ![t].left = nodes, ![t].wait = "", ![t].reply = "", ![t].out = "err"]

\* The reply arrives: an error of a prepare or a commit makes the coordinator
\* roll back, the last reply of a phase ends it.
Receive(t) ==
    /\ co[t].reply # ""
    /\ IF co[t].phase # "rollback" /\ co[t].reply = "err"
       THEN Rollback(t)
       ELSE co' = [co EXCEPT ![t] =
              LET c == [@ EXCEPT !.wait = "", !.reply = ""]
              IN  IF c.left # {} THEN c
                  ELSE CASE c.phase = "prepare" -> [c EXCEPT !.phase = "commit", !.left = Nodes(Plan[t])]
                         [] c.phase = "commit" -> [c EXCEPT !.phase = "done", !.out = "ok"]
                         [] c.phase = "rollback" -> [c EXCEPT !.phase = "done"]]
    /\ UNCHANGED <<db, txs, held, todo, timeouts, committed, got>>

\* The client of the peer stops waiting: an error to the coordinator, while the
\* request goes on at the node.
Timeout(t) ==
    /\ co[t].wait # "" /\ co[t].phase \in SlowPhases /\ timeouts < MaxTimeouts
    /\ timeouts' = timeouts + 1
    /\ IF co[t].phase # "rollback" THEN Rollback(t)
       ELSE co' = [co EXCEPT ![t].wait = "", ![t].reply = "", ![t].phase = IF co[t].left = {} THEN "done" ELSE @]
    /\ UNCHANGED <<db, txs, held, todo, committed, got>>

-----------------------------------------------------------------------------
Request(t, n, what) == [tx |-> t, node |-> n, what |-> what]

\* execPrepare: the transaction is created, then its locks are awaited.
PrepareCreate(t, n) ==
    /\ Request(t, n, "prepare") \in todo
    /\ txs' = [txs EXCEPT ![n][t] = NewTx]
    /\ todo' = (todo \ {Request(t, n, "prepare")}) \union {Request(t, n, "locking")}
    /\ UNCHANGED <<db, held, co, timeouts, committed, got>>

\* Variant: nothing is checked.
PrepareFails_Never(cmd, n) == FALSE

\* prepareRenameFrom, prepareRenameNxTo.
PrepareFails(cmd, n) ==
    \/ IsRename(cmd) /\ n = NodeOf[cmd.src] /\ db[cmd.src] = Absent
    \/ cmd.op = "renamenx" /\ n = NodeOf[cmd.dst] /\ db[cmd.dst] # Absent

\* Variant: after a check that fails the locks are not released.
PrepareLock_ErrorKeepsLock(t, n) ==
    LET fails == PrepareFails(Plan[t], n)
        isSrc == IsRename(Plan[t]) /\ n = NodeOf[Plan[t].src]
    IN  /\ Request(t, n, "locking") \in todo /\ CanLock(t, n)
        /\ txs' = [txs EXCEPT ![n][t].undo = UndoLogs(Plan[t], n), ![n][t].hasLock = ~fails]
        /\ held' = held \union {[tx |-> t, node |-> n, by |-> "prepare"]}
        /\ todo' = todo \ {Request(t, n, "locking")}
        /\ Answer(t, n, "prepare", ~fails, IF isSrc THEN db[Plan[t].src] ELSE Absent)
        /\ UNCHANGED <<db, timeouts, committed, got>>

\* The locks are granted: undo logs, check, and the locks go back on an error.
\* The record may have been deleted from the manager in the meantime.
PrepareLock(t, n) ==
    LET fails == PrepareFails(Plan[t], n)
        isSrc == IsRename(Plan[t]) /\ n = NodeOf[Plan[t].src]
    IN  /\ Request(t, n, "locking") \in todo /\ CanLock(t, n)
        /\ txs' = IF txs[n][t] = NoTx THEN txs
                  ELSE [txs EXCEPT ![n][t].undo = UndoLogs(Plan[t], n), ![n][t].hasLock = ~fails]
        /\ held' = IF fails THEN held ELSE held \union {[tx |-> t, node |-> n, by |-> "prepare"]}
        /\ todo' = todo \ {Request(t, n, "locking")}
        /\ Answer(t, n, "prepare", ~fails, IF isSrc THEN db[Plan[t].src] ELSE Absent)
        /\ UNCHANGED <<db, timeouts, committed, got>>

\* Variant: the locks stay taken after a commit.
execCommit_KeepsLock(t, n) ==
    /\ Request(t, n, "commit") \in todo
    /\ todo' = todo \ {Request(t, n, "commit")}
    /\ Answer(t, n, "commit", TRUE, Absent)
    /\ db' = ExecPart(t, n)
    /\ got' = [got EXCEPT ![t] = ReadAlso(@, At(Plan[t], n))]
    /\ committed' = committed \union {<<t, n>>}
    /\ UNCHANGED <<txs, held, timeouts>>

execCommit(t, n) ==
    /\ Request(t, n, "commit") \in todo
    /\ todo' = todo \ {Request(t, n, "commit")}
    /\ Answer(t, n, "commit", txs[n][t] # NoTx, Absent)
    /\ IF txs[n][t] = NoTx
       THEN UNCHANGED <<db, txs, held, committed, got>>
       ELSE /\ db' = ExecPart(t, n)
            /\ got' = [got EXCEPT ![t] = ReadAlso(@, At(Plan[t], n))]
            /\ committed' = committed \union {<<t, n>>}
            /\ held' = held \ {[tx |-> t, node |-> n, by |-> "prepare"]}
            /\ txs' = [txs EXCEPT ![n][t].hasLock = FALSE]
    /\ UNCHANGED timeouts

\* The undo logs run and the transaction is deleted.
Undo(t, n) ==
    /\ db' = Apply(db, txs[n][t].undo)
    /\ txs' = [txs EXCEPT ![n][t] = NoTx]

execRollback(t, n) ==
    /\ Request(t, n, "rollback") \in todo
    /\ \/ /\ txs[n][t] = NoTx
          /\ todo' = todo \ {Request(t, n, "rollback")}
          /\ Answer(t, n, "rollback", FALSE, Absent)
          /\ UNCHANGED <<db, txs, held>>
       \/ /\ txs[n][t].hasLock
          /\ Undo(t, n)
          /\ held' = held \ {[tx |-> t, node |-> n, by |-> "prepare"]}
          /\ todo' = todo \ {Request(t, n, "rollback")}
          /\ Answer(t, n, "rollback", TRUE, Absent)
       \/ /\ txs[n][t] # NoTx /\ ~txs[n][t].hasLock
          /\ todo' = (todo \ {Request(t, n, "rollback")}) \union {Request(t, n, "relocking")}
          /\ UNCHANGED <<db, txs, held, co>>
    /\ UNCHANGED <<timeouts, committed, got>>

RollbackLock(t, n) ==
    /\ Request(t, n, "relocking") \in todo /\ CanLock(t, n)
    /\ Undo(t, n)
    /\ todo' = todo \ {Request(t, n, "relocking")}
    /\ Answer(t, n, "rollback", TRUE, Absent)
    /\ UNCHANGED <<held, timeouts, committed, got>>

\* transactionTTL after a commit: a minute, by when the coordinator is done.
Forget(t, n) ==
    /\ <<t, n>> \in committed /\ txs[n][t] # NoTx /\ co[t].phase = "done"
    /\ txs' = [txs EXCEPT ![n][t] = NoTx]
    /\ UNCHANGED <<db, held, todo, co, timeouts, committed, got>>

\* A step of a coordinator or of a node that serves it.
Serve(t) ==
    \/ Local(t) \/ Start(t) \/ Receive(t)
    \/ \E n \in Node :
         \/ Send(t, n) \/ PrepareCreate(t, n) \/ PrepareLock(t, n) \/ execCommit(t, n)
         \/ execRollback(t, n) \/ RollbackLock(t, n)

Next ==
    /\ \E t \in Client : Serve(t) \/ Timeout(t) \/ \E n \in Node : Forget(t, n)
    /\ UNCHANGED scene

Spec == Init /\ [][Next]_vars

\* What goes on as long as it can: messages arrive, goroutines run, free locks are
\* granted.
Proceed == (\E t \in Client : Serve(t)) /\ UNCHANGED scene

-----------------------------------------------------------------------------
TypeOK ==
    /\ db \in [Key -> Int \union {Absent}]
    /\ \A h \in held : h.tx \in Client /\ h.node \in Node /\ h.by = "prepare"
    /\ \A r \in todo : r.tx \in Client /\ r.node \in Node
                      /\ r.what \in {"prepare", "locking", "commit", "rollback", "relocking"}
    /\ \A t \in Client :
         /\ co[t].phase \in {"new", "prepare", "commit", "rollback", "done"}
         /\ co[t].left \subseteq Node
         /\ co[t].phase = "done" => co[t].out \in {"ok", "err"} /\ co[t].wait = ""
         /\ \A n \in Node : txs[n][t].hasLock => [tx |-> t, node |-> n, by |-> "prepare"] \in held

\* The nodes that have committed the command of t.
CommitsOf(t, commits) == {n \in Node : <<t, n>> \in commits}

\* The cluster as one store: a command has taken effect once one node has
\* committed it, on the nodes that are still to commit it too.
Ahead(k, plan, cs, commits) ==
    {t \in Client : /\ cs[t].phase = "commit" /\ k \in plan[t].keys
                    /\ CommitsOf(t, commits) # {} /\ NodeOf[k] \notin CommitsOf(t, commits)}

StoreIn(plan, cs, commits, d) ==
    [k \in Key |-> LET ahead == Ahead(k, plan, cs, commits)
                       t == CHOOSE t \in ahead : TRUE
                   IN  IF ahead = {} THEN d[k] ELSE Outcome(plan[t], cs[t].dump, d[k], k)]

Store == StoreIn(Plan, co, committed, db)

\* What a client has been told, or will be: nothing is refused any more once a node
\* has committed.
Told(cmd, out, commits, seen, d) ==
    IF out = "err" THEN [status |-> "refused", vals |-> <<>>]
    ELSE IF commits = {} THEN [status |-> "none", vals |-> <<>>]
    ELSE [status |-> "ok", vals |->
           IF cmd.op # "mget" THEN <<>>
           ELSE [k \in cmd.keys |-> IF NodeOf[k] \in commits THEN seen[k] ELSE d[k]]]

Result == [t \in Client |-> Told(Plan[t], co[t].out, CommitsOf(t, committed), got[t], db)]

Abstract == INSTANCE TccSpec WITH plan <- Plan, store <- Store, result <- Result

\* "atomically executed in cluster mode, allow over multi node" (README.md): over
\* prepares, commits and rollbacks at several nodes, a command takes effect on
\* all its keys at once, reads them at once, or changes nothing.
ClusterAtomic == Abstract!Spec

\* "unlock regardless of result" (tcc.go): when every command has returned and
\* the nodes have nothing left to do, no key is locked, as long as no coordinator
\* has stopped waiting (the prepare it gave up may still take its locks).  The
\* state is well-typed: a transaction that says it has its locks has them.
LocksReleased ==
    /\ TypeOK
    /\ timeouts = 0 /\ (\A t \in Client : co[t].phase = "done") /\ todo = {} => held = {}

\* The commands stand in a row in which only neighbours share a node, and one
\* only: they cannot wait for one another in a circle.
InRow ==
    \E row \in [1 .. Cardinality(Client) -> Client] : \A i, j \in DOMAIN row : i < j =>
      /\ row[i] # row[j]
      /\ Cardinality(Nodes(Plan[row[i]]) \intersect Nodes(Plan[row[j]])) <= IF j = i + 1 THEN 1 ELSE 0

\* What the cluster reaches: every command has returned to its client, without any
\* timeout, if the commands can wait for one another in no circle: a prepare that
\* waits for locks gets them, and an error of one node ends the command on all.
AllReturned == (\A t \in Client : co[t].phase = "done") \/ ~InRow

-----------------------------------------------------------------------------
(* The strengthening of LocksReleased that the steps preserve *)

Value == Int \union {Absent}
Lock == [tx : Client, node : Node, by : {"prepare"}]
Tx == [cmd : {"none", "some"}, undo : [Key -> Seq(Value)], hasLock : BOOLEAN]
Coordinator ==
    [phase : {"new", "prepare", "commit", "rollback", "done"}, wait : Node \union {""}, left : SUBSET Node,
     reply : {"", "ok", "err"}, dump : Value, out : {"", "ok", "err"}]

TccType ==
    /\ scene \in Scenes
    /\ db \in [Key -> Value] /\ got \in [Client -> [Key -> Value]]
    /\ txs \in [Node -> [Client -> Tx]]
    /\ held \subseteq Lock
    /\ todo \subseteq [tx : Client, node : Node, what : {"prepare", "locking", "commit", "rollback", "relocking"}]
    /\ co \in [Client -> Coordinator]
    /\ timeouts \in Nat
    /\ committed \subseteq Client \X Node

LockOf(t, n) == [tx |-> t, node |-> n, by |-> "prepare"]

\* A coordinator waits in one of the three phases, and knows the outcome when it
\* rolls back or is done.
InPhase(c) ==
    /\ c.reply # "" => c.wait # ""
    /\ c.wait # "" => c.phase \in {"prepare", "commit", "rollback"}
    /\ c.phase = "rollback" => c.out = "err"
    /\ c.phase = "done" => c.out # ""

\* A record that says it has its locks has them.
Orderly ==
    /\ \A t \in Client : InPhase(co[t])
    /\ \A t \in Client, n \in Node : txs[n][t].hasLock => LockOf(t, n) \in held

PhaseOf(what) ==
    CASE what \in {"prepare", "locking"} -> "prepare"
      [] what \in {"rollback", "relocking"} -> "rollback"
      [] OTHER -> "commit"

\* A node works on the request the coordinator waits for, and on no other.
Awaited ==
    \A r \in todo :
      /\ co[r.tx].wait = r.node /\ co[r.tx].reply = "" /\ co[r.tx].phase = PhaseOf(r.what)
      /\ \A s \in todo : r.tx = s.tx => r = s

\* A lock has a record that says so, but not while its handler is to come.
Recorded ==
    /\ \A h \in held : txs[h.node][h.tx].hasLock
    /\ \A t \in Client, n \in Node :
         /\ txs[n][t].hasLock => txs[n][t].cmd = "some"
         /\ Request(t, n, "locking") \in todo => txs[n][t].cmd = "some"
         /\ Request(t, n, "relocking") \in todo => ~txs[n][t].hasLock

\* A lock is held from the prepare of its node to the commit or rollback there.
Timely(h, c) ==
    \/ c.phase = "prepare" /\ h.node \notin c.left /\ (h.node = c.wait => c.reply = "ok")
    \/ c.phase \in {"commit", "rollback"} /\ (h.node \in c.left \/ (h.node = c.wait /\ c.reply = ""))

HeldInTime == \A h \in held : h.node \in Nodes(Plan[h.tx]) /\ Timely(h, co[h.tx])

\* A coordinator goes through the nodes of its command; a RENAME prepares the node of
\* src before the other.
InTurn(cmd, c) ==
    /\ c.left \subseteq Nodes(cmd) /\ c.wait \in Nodes(cmd) \union {""} /\ c.wait \notin c.left
    /\ IsRename(cmd) /\ c.phase = "prepare" =>
         LET src == NodeOf[cmd.src]
         IN  /\ src \in c.left => c.left = Nodes(cmd) /\ c.wait = ""
             /\ c.wait = src => c.left = Nodes(cmd) \ {src}

OneByOne == \A t \in Client : InTurn(Plan[t], co[t])

Exact == Awaited /\ Recorded /\ HeldInTime /\ OneByOne

Punctual == timeouts = 0 => Exact

TccInv == TccType /\ Orderly /\ Punctual

-----------------------------------------------------------------------------
(* The strengthening of ClusterAtomic that the steps preserve *)

\* Nobody stops waiting; RENAMENX and MSETNX are left out (see PrepareFails and
\* Sets); and the key a RENAME removes is read by no other command, as RENAME takes
\* but a read lock on it.
Clean ==
    /\ MaxTimeouts = 0
    /\ \A t \in Client : Plan[t].op \in {"mset", "mget", "del", "rename"}
    /\ \A t, u \in Client : t # u /\ IsRename(Plan[t]) =>
         Plan[t].src \notin ReadKeys(Plan[u], NodeOf[Plan[t].src])

\* Locks that are held together agree.
Compatible ==
    \A g, h \in held : g.tx # h.tx /\ g.node = h.node =>
      WriteKeys(Plan[g.tx], g.node) \intersect At(Plan[h.tx], g.node) = {}

LocksOf(t, locks) == {n \in Node : LockOf(t, n) \in locks}

\* Two-phase locking: a coordinator c whose command has locks at the nodes L and is
\* committed at the nodes C.  From the prepare of a node to its commit there are locks
\* there.  A commit is never refused, and what is committed is not rolled back.  Only a
\* RENAME is refused, by the node of src, and it rolls back that node only.
Staged(cmd, c, L, C) ==
    /\ c.phase = "prepare" =>
         /\ \A n \in Nodes(cmd) : n \in L \/ n \in c.left \/ (n = c.wait /\ c.reply # "ok")
         /\ c.reply = "err" => IsRename(cmd) /\ c.wait = NodeOf[cmd.src]
    /\ c.phase = "commit" => Nodes(cmd) \subseteq L \union C /\ c.reply # "err"
    /\ c.phase = "rollback" => /\ IsRename(cmd) /\ c.left \subseteq {NodeOf[cmd.src]}
                              /\ c.wait \in {NodeOf[cmd.src], ""}
    /\ c.out = "err" => c.phase \in {"rollback", "done"}
    /\ C # {} =>
         /\ c.out # "err" /\ C \subseteq Nodes(cmd) \ L
         /\ \/ c.phase = "commit" /\ \A n \in C : n \notin c.left /\ (n = c.wait => c.reply # "")
            \/ c.phase = "done" /\ C = Nodes(cmd)

\* There is nothing to undo at the source of a RENAME, and what was dumped from it is
\* what it still has.
Sourced(cmd, c, L, undo, d) ==
    IsRename(cmd) =>
      /\ undo[NodeOf[cmd.src]] = NoLogs
      /\ NodeOf[cmd.src] \in L => c.dump = d[cmd.src] /\ d[cmd.src] # Absent

UndosOf(t, records) == [n \in Node |-> records[n][t].undo]

TwoPhase ==
    /\ Compatible
    /\ \A t \in Client :
         /\ Staged(Plan[t], co[t], LocksOf(t, held), CommitsOf(t, committed))
         /\ Sourced(Plan[t], co[t], LocksOf(t, held), UndosOf(t, txs), db)
=============================================================================
