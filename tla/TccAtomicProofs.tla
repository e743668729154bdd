-------------------------- MODULE TccAtomicProofs --------------------------
(***************************************************************************)
(* Proofs about commands over several nodes, continued.                    *)
(*                                                                         *)
(*   CleanIsAtomic: Spec /\ Clean => ClusterAtomic.  The strengthening      *)
(*   TwoPhase is two-phase locking: a coordinator has its locks until it   *)
(*   has committed, and nobody else has one that conflicts.  A command     *)
(*   takes effect at its first commit.                                     *)
(*                                                                         *)
(* For each action there is a lemma that it preserves TwoPhase (...Stage)  *)
(* and one on what is seen of it in TccSpec (...Seen, ...Performs).        *)
(***************************************************************************)
EXTENDS TccProofs

\* Both commands may have locks at the node.
CanShare(t, u, n) ==
    /\ WriteKeys(Plan[t], n) \intersect At(Plan[u], n) = {}
    /\ WriteKeys(Plan[u], n) \intersect At(Plan[t], n) = {}

Ops == {"mset", "mget", "del", "rename"}

\* The commands of a clean scene.
LEMMA CleanOps == ASSUME Clean, NEW t \in Client PROVE Plan[t].op \in Ops
  BY DEF Clean, Ops

\* What a command writes at a node: all its keys there, all but the source, or none.
LEMMA Written ==
    ASSUME NEW t \in Client, NEW n \in Node, Clean
    PROVE  /\ Plan[t].op \in {"mset", "del"} => WriteKeys(Plan[t], n) = At(Plan[t], n)
           /\ IsRename(Plan[t]) => WriteKeys(Plan[t], n) = At(Plan[t], n) \ {Plan[t].src}
           /\ Plan[t].op = "mget" => WriteKeys(Plan[t], n) = {}
           /\ WriteKeys(Plan[t], n) \subseteq At(Plan[t], n)
           /\ IsRename(Plan[t]) <=> Plan[t].op = "rename"
  BY CleanOps DEF WriteKeys, Sets, IsRename, Ops

\* Two commands that have the same key locked only read it.
LEMMA Readers ==
    ASSUME Clean, NEW t \in Client, NEW u \in Client, t # u, NEW k \in Plan[t].keys, k \in Plan[u].keys,
           NodeOf[k] \in Node, CanShare(t, u, NodeOf[k])
    PROVE  Plan[t].op = "mget"
  <1> DEFINE n == NodeOf[k]
  <1>1. k \in At(Plan[t], n) /\ k \in At(Plan[u], n)
    BY DEF At
  <1>2. k \notin WriteKeys(Plan[t], n) /\ k \notin WriteKeys(Plan[u], n)
    BY <1>1 DEF CanShare
  <1>3. Plan[t].op \in Ops
    BY CleanOps
  <1>4. ~IsRename(Plan[t])
    <2> SUFFICES ASSUME IsRename(Plan[t]) PROVE FALSE
      OBVIOUS
    <2>1. k = Plan[t].src
      BY <1>1, <1>2, Written, SMTT(30)
    <2>2. k \in ReadKeys(Plan[u], n)
      BY <1>1, <1>2 DEF ReadKeys
    <2> QED
      BY <2>1, <2>2 DEF Clean
  <1> QED
    BY <1>1, <1>2, <1>3, <1>4, Written DEF Ops

\* Sharing is symmetric.
LEMMA ShareSym == ASSUME NEW t, NEW u, NEW n, CanShare(t, u, n) PROVE CanShare(u, t, n)
  BY DEF CanShare

\* Locks that can be granted agree with those that are held.
LEMMA LockShares ==
    ASSUME TccType, Clean, NEW t \in Client, NEW u \in Client, NEW n \in Node, CanLock(t, n), n \in LocksOf(u, held)
    PROVE  CanShare(t, u, n)
  <1>1. LockOf(u, n) \in held /\ LockOf(u, n).node = n /\ LockOf(u, n).tx = u
    BY DEF LocksOf, LockOf
  <1>2. /\ WriteKeys(Plan[t], n) \intersect (WriteKeys(Plan[u], n) \union ReadKeys(Plan[u], n)) = {}
        /\ ReadKeys(Plan[t], n) \intersect WriteKeys(Plan[u], n) = {}
    BY <1>1 DEF CanLock
  <1> QED
    BY <1>2, Written DEF CanShare, ReadKeys

\* Locks that are held agree.
LEMMA HoldersShare ==
    ASSUME Compatible, NEW t \in Client, NEW u \in Client, t # u, NEW n \in Node,
           n \in LocksOf(t, held), n \in LocksOf(u, held)
    PROVE  CanShare(t, u, n)
  <1>1. /\ LockOf(u, n) \in held /\ LockOf(u, n).node = n /\ LockOf(u, n).tx = u
        /\ LockOf(t, n) \in held /\ LockOf(t, n).node = n /\ LockOf(t, n).tx = t
    BY DEF LocksOf, LockOf
  <1> QED
    BY <1>1 DEF Compatible, CanShare

\* What a command leaves to those it shares a node with.
LEMMA ExecKeeps ==
    ASSUME TccType, Clean, NEW t \in Client, NEW n \in Node, NEW u \in Client, t # u,
           NEW k \in Plan[u].keys, CanShare(t, u, NodeOf[k])
    PROVE  ExecPart(t, n)[k] = db[k]
  <1>1. k \in Key /\ NodeOf[k] \in Node
    BY Plans, Homes
  <1>2. CASE k \in At(Plan[t], n)
    <2>1. Plan[t].op = "mget"
      BY <1>1, <1>2, Readers DEF At
    <2> QED
      BY <1>1, <2>1 DEF ExecPart, NewValue, Outcome, Sets, IsRename
  <1>3. CASE k \notin At(Plan[t], n)
    BY <1>1, <1>3 DEF ExecPart
  <1> QED
    BY <1>2, <1>3

-----------------------------------------------------------------------------
\* TwoPhase in the next state of a scene.
CompatibleNext ==
    \A g, h \in held' : g.tx # h.tx /\ g.node = h.node =>
      WriteKeys(Plan[g.tx], g.node) \intersect At(Plan[h.tx], g.node) = {}

StageNext(t) ==
    /\ Staged(Plan[t], co'[t], LocksOf(t, held'), CommitsOf(t, committed'))
    /\ Sourced(Plan[t], co'[t], LocksOf(t, held'), UndosOf(t, txs'), db')

\* What a step of t leaves to the command of u.
Leaves(u) ==
    /\ co'[u] = co[u] /\ LocksOf(u, held') = LocksOf(u, held)
    /\ CommitsOf(u, committed') = CommitsOf(u, committed) /\ UndosOf(u, txs') = UndosOf(u, txs)
    /\ IsRename(Plan[u]) /\ NodeOf[Plan[u].src] \in LocksOf(u, held) => db'[Plan[u].src] = db[Plan[u].src]

\* A step of t that leaves the other commands alone preserves TwoPhase if it does so for t.
LEMMA OthersStay ==
    ASSUME TwoPhase, NEW t \in Client, StageNext(t), CompatibleNext, \A u \in Client : u # t => Leaves(u)
    PROVE  CompatibleNext /\ \A u \in Client : StageNext(u)
  <1> SUFFICES ASSUME NEW u \in Client, u # t PROVE StageNext(u)
    OBVIOUS
  <1>1. /\ Staged(Plan[u], co[u], LocksOf(u, held), CommitsOf(u, committed))
        /\ Sourced(Plan[u], co[u], LocksOf(u, held), UndosOf(u, txs), db)
    BY DEF TwoPhase
  <1>2. Leaves(u)
    OBVIOUS
  <1> QED
    BY <1>1, <1>2 DEF StageNext, Leaves, Sourced

\* The conditions on the next state are those of TwoPhase.
LEMMA TwoPhaseNext ==
    ASSUME scene' = scene, CompatibleNext, \A u \in Client : StageNext(u)
    PROVE  TwoPhase'
  <1>1. Plan' = Plan
    BY DEF Plan
  <1>2. Compatible'
    BY <1>1 DEF CompatibleNext, Compatible, WriteKeys, At, Sets, IsRename
  <1> QED
    BY <1>1, <1>2, ZenonT(60) DEF StageNext, TwoPhase, Staged, Sourced, LocksOf, CommitsOf, UndosOf, Nodes, IsRename, LockOf, NoLogs

\* The locks after t has got those of n.
LEMMA LocksTaken ==
    ASSUME NEW t \in Client, NEW n \in Node, held' = held \union {LockOf(t, n)}
    PROVE  /\ LocksOf(t, held') = LocksOf(t, held) \union {n}
           /\ \A u \in Client : u # t => LocksOf(u, held') = LocksOf(u, held)
  <1>1. \A u \in Client, m \in Node : LockOf(u, m) = LockOf(t, n) <=> u = t /\ m = n
    BY DEF LockOf
  <1> QED
    BY <1>1 DEF LocksOf

\* The locks after t has released those of n.
LEMMA LocksGiven ==
    ASSUME NEW t \in Client, NEW n \in Node, held' = held \ {LockOf(t, n)}
    PROVE  /\ LocksOf(t, held') = LocksOf(t, held) \ {n}
           /\ \A u \in Client : u # t => LocksOf(u, held') = LocksOf(u, held)
  <1>1. \A u \in Client, m \in Node : LockOf(u, m) = LockOf(t, n) <=> u = t /\ m = n
    BY DEF LockOf
  <1> QED
    BY <1>1 DEF LocksOf

\* The commits after n has committed the command of t.
LEMMA CommitAdded ==
    ASSUME NEW t \in Client, NEW n \in Node, committed' = committed \union {<<t, n>>}
    PROVE  /\ CommitsOf(t, committed') = CommitsOf(t, committed) \union {n}
           /\ \A u \in Client : u # t => CommitsOf(u, committed') = CommitsOf(u, committed)
  BY DEF CommitsOf

\* The undo logs when the record of t at n becomes x.
LEMMA UndosChanged ==
    ASSUME TccType, NEW t \in Client, NEW n \in Node, NEW x, Records(t, n, x)
    PROVE  /\ \A u \in Client : u # t => UndosOf(u, txs') = UndosOf(u, txs)
           /\ \A m \in Node : UndosOf(t, txs')[m] = IF m = n THEN x.undo ELSE UndosOf(t, txs)[m]
  BY ChangedRecord DEF UndosOf

\* A step of the coordinator alone.
LEMMA StageStep ==
    ASSUME TccType, TwoPhase, NEW t \in Client, NEW c, Becomes(t, c), UNCHANGED <<txs, held, db, committed>>,
           c.dump = co[t].dump, Staged(Plan[t], c, LocksOf(t, held), CommitsOf(t, committed))
    PROVE  CompatibleNext /\ \A u \in Client : StageNext(u)
  <1>1. co'[t] = c /\ \A u \in Client : u # t => co'[u] = co[u]
    BY Changed
  <1>2. CompatibleNext
    BY DEF CompatibleNext, TwoPhase, Compatible
  <1>3. StageNext(t)
    BY <1>1 DEF StageNext, TwoPhase, Sourced
  <1>4. \A u \in Client : u # t => Leaves(u)
    BY <1>1 DEF Leaves
  <1> QED
    BY <1>2, <1>3, <1>4, OthersStay

\* Start: nothing is prepared yet.
LEMMA StartStage ==
    ASSUME TccType, Orderly, TwoPhase, NEW t \in Client, Start(t)
    PROVE  CompatibleNext /\ \A u \in Client : StageNext(u)
  <1> DEFINE c == [co[t] EXCEPT !.phase = "prepare", !.left = Nodes(Plan[t])]
             L == LocksOf(t, held)
             C == CommitsOf(t, committed)
  <1>1. Becomes(t, c) /\ UNCHANGED <<txs, held, db, committed>>
    BY StartType DEF Start
  <1>2. co[t].phase = "new" /\ co[t].reply = ""
    BY DEF Start, Orderly, InPhase
  <1>3. /\ c.phase = "prepare" /\ c.left = Nodes(Plan[t]) /\ c.reply = co[t].reply /\ c.out = co[t].out
        /\ c.dump = co[t].dump
    BY DEF TccType, Coordinator
  <1>4. Staged(Plan[t], co[t], L, C)
    BY DEF TwoPhase
  <1> HIDE DEF c, L, C
  <1>5. C = {} /\ co[t].out # "err"
    BY <1>2, <1>4 DEF Staged
  <1>6. Staged(Plan[t], c, L, C)
    BY <1>2, <1>3, <1>5 DEF Staged
  <1> QED
    BY <1>1, <1>3, <1>6, StageStep DEF L, C

\* Send: the node that is asked is no longer to be asked.
LEMMA SendStage ==
    ASSUME TccType, Orderly, Exact, TwoPhase, NEW t \in Client, NEW n \in Node, Send(t, n)
    PROVE  CompatibleNext /\ \A u \in Client : StageNext(u)
  <1> DEFINE c == [co[t] EXCEPT !.wait = n, !.left = co[t].left \ {n}]
             L == LocksOf(t, held)
             C == CommitsOf(t, committed)
  <1>1. Becomes(t, c) /\ UNCHANGED <<txs, held, db, committed>>
    BY SendType DEF Send
  <1>2. co[t].wait = "" /\ n \in co[t].left /\ co[t].reply = "" /\ "" \notin Nodes(Plan[t])
    BY Plans DEF Send, Orderly, InPhase
  <1>3. /\ c.phase = co[t].phase /\ c.wait = n /\ c.left = co[t].left \ {n} /\ c.reply = co[t].reply
        /\ c.out = co[t].out /\ c.dump = co[t].dump
    BY DEF TccType, Coordinator
  <1>4. Staged(Plan[t], co[t], L, C) /\ InTurn(Plan[t], co[t])
    BY DEF TwoPhase, Exact, OneByOne
  <1> HIDE DEF c
  <1>5. Staged(Plan[t], c, L, C)
    BY <1>2, <1>3, <1>4 DEF Staged
  <1> QED
    BY <1>1, <1>3, <1>5, StageStep

\* A RENAME refused by the node of src goes back there.
LEMMA RollbackStage ==
    ASSUME TccType, Orderly, Exact, TwoPhase, NEW t \in Client, Rollback(t), co[t].reply = "err",
           co[t].phase # "rollback", UNCHANGED <<txs, held, db, committed>>
    PROVE  CompatibleNext /\ \A u \in Client : StageNext(u)
  <1> DEFINE c == [co[t] EXCEPT !.phase = "rollback", !.left = RollbackNodes(t), !.wait = "", !.reply = "",
                                !.out = "err"]
             L == LocksOf(t, held)
             C == CommitsOf(t, committed)
  <1>1. Becomes(t, c)
    BY RollbackType
  <1>2. co[t].phase \in {"prepare", "commit"} /\ "" \notin Nodes(Plan[t])
    BY Plans DEF Orderly, InPhase
  <1>3. c.phase = "rollback" /\ c.wait = "" /\ c.left = RollbackNodes(t) /\ c.dump = co[t].dump /\ c.out = "err"
    BY DEF TccType, Coordinator
  <1>4. Staged(Plan[t], co[t], L, C)
    BY DEF TwoPhase
  <1> HIDE DEF c, L, C
  <1>5. co[t].phase = "prepare" /\ IsRename(Plan[t]) /\ co[t].wait = NodeOf[Plan[t].src] /\ C = {}
    BY <1>2, <1>4 DEF Staged
  <1>6. RollbackNodes(t) = {NodeOf[Plan[t].src]}
    BY <1>5 DEF RollbackNodes
  <1>7. Staged(Plan[t], c, L, C)
    BY <1>3, <1>5, <1>6 DEF Staged
  <1> QED
    BY <1>1, <1>3, <1>7, StageStep DEF L, C

\* After the last commit is answered there are no locks, hence it is committed at all
\* nodes.
LEMMA AllCommitted ==
    ASSUME TccType, Exact, TwoPhase, NEW t \in Client, co[t].phase = "commit", co[t].left = {}, co[t].reply # ""
    PROVE  CommitsOf(t, committed) = Nodes(Plan[t])
  <1> DEFINE L == LocksOf(t, held)
             C == CommitsOf(t, committed)
  <1>1. Staged(Plan[t], co[t], L, C)
    BY DEF TwoPhase
  <1>2. ASSUME NEW n \in L PROVE FALSE
    <2>1. LockOf(t, n) \in held /\ LockOf(t, n).tx = t
      BY <1>2 DEF LocksOf, LockOf
    <2> QED
      BY <2>1 DEF Exact, HeldInTime, Timely
  <1> HIDE DEF L, C
  <1>3. L = {}
    BY <1>2
  <1>4. C = Nodes(Plan[t])
    BY <1>1, <1>3 DEF Staged
  <1> QED
    BY <1>4 DEF C

\* Receive: when no node is left to prepare, all have locks.
LEMMA ReceiveStage ==
    ASSUME TccType, Orderly, Exact, TwoPhase, NEW t \in Client, Receive(t)
    PROVE  CompatibleNext /\ \A u \in Client : StageNext(u)
  <1> DEFINE L == LocksOf(t, held)
             C == CommitsOf(t, committed)
             f == Free(co[t])
  <1>1. UNCHANGED <<txs, held, db, committed>> /\ co[t].reply # "" /\ "" \notin Nodes(Plan[t])
    BY Plans DEF Receive
  <1>2. Staged(Plan[t], co[t], L, C)
    BY DEF TwoPhase
  <1>3. f \in Coordinator /\ co[t].reply \in {"", "ok", "err"}
    <2>1. co[t] \in Coordinator
      BY DEF TccType
    <2>2. f \in Coordinator
      BY <2>1, Zenon DEF Coordinator, Free
    <2> QED
      BY <2>1, <2>2 DEF Coordinator
  <1>4. /\ f.phase = co[t].phase /\ f.left = co[t].left /\ f.wait = "" /\ f.reply = "" /\ f.out = co[t].out
        /\ f.dump = co[t].dump
    BY DEF TccType, Coordinator, Free
  <1>5. co[t].phase # "rollback" /\ co[t].reply = "err" /\ Rollback(t) =>
          CompatibleNext /\ \A u \in Client : StageNext(u)
    BY <1>1, RollbackStage
  <1>6. ASSUME co[t].phase = "rollback" \/ co[t].reply # "err", co[t].left # {}, Becomes(t, f)
        PROVE  CompatibleNext /\ \A u \in Client : StageNext(u)
    <2> HIDE DEF f, L, C
    <2>1. Staged(Plan[t], f, L, C)
      BY <1>1, <1>2, <1>3, <1>4, <1>6 DEF Staged
    <2> QED
      BY <1>1, <1>4, <1>6, <2>1, StageStep DEF L, C
  <1>7. ASSUME co[t].reply # "err", co[t].left = {}, co[t].phase = "prepare",
               Becomes(t, [f EXCEPT !.phase = "commit", !.left = Nodes(Plan[t])])
        PROVE  CompatibleNext /\ \A u \in Client : StageNext(u)
    <2> DEFINE c == [f EXCEPT !.phase = "commit", !.left = Nodes(Plan[t])]
    <2> HIDE DEF f, L, C
    <2>1. c.phase = "commit" /\ c.reply = "" /\ c.out = co[t].out /\ c.dump = co[t].dump
      BY <1>3, <1>4 DEF Coordinator
    <2> HIDE DEF c
    <2>2. Nodes(Plan[t]) \subseteq L /\ C = {} /\ co[t].out # "err"
      BY <1>1, <1>2, <1>3, <1>7 DEF Staged
    <2>3. Staged(Plan[t], c, L, C)
      BY <2>1, <2>2 DEF Staged
    <2> QED
      BY <1>1, <1>7, <2>1, <2>3, StageStep DEF L, C, c
  <1>8. ASSUME co[t].left = {}, co[t].phase = "commit", Becomes(t, [f EXCEPT !.phase = "done", !.out = "ok"])
        PROVE  CompatibleNext /\ \A u \in Client : StageNext(u)
    <2> DEFINE c == [f EXCEPT !.phase = "done", !.out = "ok"]
    <2>1. C = Nodes(Plan[t])
      BY <1>1, <1>8, AllCommitted
    <2> HIDE DEF f, L, C
    <2>2. c.phase = "done" /\ c.out = "ok" /\ c.dump = co[t].dump
      BY <1>3, <1>4 DEF Coordinator
    <2> HIDE DEF c
    <2>3. Staged(Plan[t], c, L, C)
      BY <1>2, <2>1, <2>2 DEF Staged
    <2> QED
      BY <1>1, <1>8, <2>2, <2>3, StageStep DEF L, C, c
  <1>9. ASSUME co[t].left = {}, co[t].phase = "rollback", Becomes(t, [f EXCEPT !.phase = "done"])
        PROVE  CompatibleNext /\ \A u \in Client : StageNext(u)
    <2> DEFINE c == [f EXCEPT !.phase = "done"]
    <2> HIDE DEF f, L, C
    <2>1. c.phase = "done" /\ c.out = co[t].out /\ c.dump = co[t].dump
      BY <1>3, <1>4 DEF Coordinator
    <2> HIDE DEF c
    <2>2. Staged(Plan[t], c, L, C)
      BY <1>2, <1>9, <2>1 DEF Staged
    <2> QED
      BY <1>1, <1>9, <2>1, <2>2, StageStep DEF L, C, c
  <1> QED
    BY <1>5, <1>6, <1>7, <1>8, <1>9, ReceiveType

-----------------------------------------------------------------------------
\* The nodes: a new record, and one that is deleted, have nothing to undo.
LEMMA RecordStage ==
    ASSUME TccType, TwoPhase, NEW t \in Client, NEW n \in Node, NEW x \in {NoTx, NewTx}, Records(t, n, x),
           UNCHANGED <<co, held, db, committed>>
    PROVE  CompatibleNext /\ \A u \in Client : StageNext(u)
  <1>1. x.undo = NoLogs
    BY DEF NoTx, NewTx
  <1>2. CompatibleNext
    BY DEF CompatibleNext, TwoPhase, Compatible
  <1>3. StageNext(t)
    <2>1. IsRename(Plan[t]) => NodeOf[Plan[t].src] \in Node
      BY Plans, Homes
    <2>2. Sourced(Plan[t], co[t], LocksOf(t, held), UndosOf(t, txs), db)
      BY DEF TwoPhase
    <2>3. Sourced(Plan[t], co[t], LocksOf(t, held), UndosOf(t, txs'), db)
      BY <1>1, <2>1, <2>2, UndosChanged, SMTT(30) DEF Sourced
    <2> QED
      BY <2>3 DEF StageNext, TwoPhase
  <1>4. \A u \in Client : u # t => Leaves(u)
    BY UndosChanged DEF Leaves
  <1> QED
    BY <1>2, <1>3, <1>4, OthersStay

\* A command of t that has the locks of n changes no key that another one has locked.
LEMMA ExecLeaves ==
    ASSUME TccType, Clean, Compatible, NEW t \in Client, NEW n \in Node, CanLock(t, n) \/ n \in LocksOf(t, held),
           NEW u \in Client, u # t, NEW k \in Plan[u].keys, NodeOf[k] \in LocksOf(u, held)
    PROVE  ExecPart(t, n)[k] = db[k]
  <1>1. k \in Key
    BY Plans
  <1>2. CASE NodeOf[k] = n
    <2>1. CanShare(t, u, n)
      BY <1>2, LockShares, HoldersShare
    <2> QED
      BY <1>2, <2>1, ExecKeeps
  <1>3. CASE NodeOf[k] # n
    BY <1>1, <1>3 DEF ExecPart, At
  <1> QED
    BY <1>2, <1>3

\* Local: the command is committed at its only node at once.
LEMMA LocalStage ==
    ASSUME TccType, Orderly, Exact, Clean, TwoPhase, NEW t \in Client, Local(t)
    PROVE  CompatibleNext /\ \A u \in Client : StageNext(u)
  <1> DEFINE c == [co[t] EXCEPT !.phase = "done", !.out = "ok"]
             L == LocksOf(t, held)
             C == CommitsOf(t, committed)
  <1>1. PICK n \in Node : /\ Nodes(Plan[t]) = {n} /\ CanLock(t, n) /\ db' = ExecPart(t, n)
                          /\ committed' = committed \union {<<t, n>>}
    BY DEF Local
  <1>2. txs' = txs /\ held' = held /\ co[t].phase = "new" /\ ~IsRename(Plan[t])
    BY DEF Local
  <1>3. co'[t] = c /\ \A u \in Client : u # t => co'[u] = co[u]
    BY LocalType, Changed
  <1>4. c.phase = "done" /\ c.out = "ok"
    BY DEF TccType, Coordinator
  <1>5. L = {}
    <2> SUFFICES ASSUME NEW m \in L PROVE FALSE
      OBVIOUS
    <2>1. LockOf(t, m) \in held /\ LockOf(t, m).tx = t
      BY DEF LocksOf, LockOf
    <2> QED
      BY <1>2, <2>1 DEF Exact, HeldInTime, Timely
  <1>6. C = {}
    <2>1. Staged(Plan[t], co[t], L, C)
      BY DEF TwoPhase
    <2> HIDE DEF L, C
    <2> QED
      BY <1>2, <2>1 DEF Staged
  <1>7. CommitsOf(t, committed') = {n} /\ \A u \in Client : u # t => CommitsOf(u, committed') = CommitsOf(u, committed)
    BY <1>1, <1>6, CommitAdded
  <1>8. StageNext(t)
    <2> HIDE DEF c
    <2>1. Staged(Plan[t], c, {}, {n})
      BY <1>1, <1>4 DEF Staged
    <2> QED
      BY <1>2, <1>3, <1>5, <1>7, <2>1 DEF StageNext, Sourced
  <1>9. \A u \in Client : u # t => Leaves(u)
    <2> SUFFICES ASSUME NEW u \in Client, u # t PROVE Leaves(u)
      OBVIOUS
    <2>1. ASSUME IsRename(Plan[u]), NodeOf[Plan[u].src] \in LocksOf(u, held) PROVE db'[Plan[u].src] = db[Plan[u].src]
      <3>1. Plan[u].src \in Plan[u].keys
        BY <2>1, Plans
      <3> QED
        BY <1>1, <2>1, <3>1, ExecLeaves DEF TwoPhase
    <2> QED
      BY <1>2, <1>3, <1>7, <2>1 DEF Leaves
  <1>10. CompatibleNext
    BY <1>2 DEF CompatibleNext, TwoPhase, Compatible
  <1> QED
    BY <1>8, <1>9, <1>10, OthersStay

\* The source of a RENAME has nothing to undo.
LEMMA NothingToUndo ==
    ASSUME TccType, NEW t \in Client, IsRename(Plan[t])
    PROVE  UndoLogs(Plan[t], NodeOf[Plan[t].src]) = NoLogs
  <1> DEFINE n == NodeOf[Plan[t].src]
  <1>1. At(Plan[t], n) \subseteq {Plan[t].src}
    BY Plans DEF At
  <1>2. WriteKeys(Plan[t], n) = {}
    BY <1>1 DEF WriteKeys, Sets, IsRename
  <1> QED
    BY <1>2 DEF UndoLogs, NoLogs

\* PrepareLock: the node has the locks, or refuses the RENAME; what it dumps is what it has.
LEMMA PrepareLockStage ==
    ASSUME TccType, Orderly, Exact, Clean, TwoPhase, NEW t \in Client, NEW n \in Node, PrepareLock(t, n)
    PROVE  CompatibleNext /\ \A u \in Client : StageNext(u)
  <1> DEFINE q == Request(t, n, "locking")
             src == NodeOf[Plan[t].src]
             fails == PrepareFails(Plan[t], n)
             val == IF IsRename(Plan[t]) /\ n = src THEN db[Plan[t].src] ELSE Absent
             c == Replied(t, ~fails, val)
             x == [txs[n][t] EXCEPT !.undo = UndoLogs(Plan[t], n), !.hasLock = ~fails]
             L == LocksOf(t, held)
             C == CommitsOf(t, committed)
  <1>1. /\ q \in todo /\ CanLock(t, n) /\ held' = IF fails THEN held ELSE held \union {LockOf(t, n)}
        /\ db' = db /\ committed' = committed
    BY DEF PrepareLock, LockOf
  <1>2. /\ co[t].wait = n /\ co[t].reply = "" /\ co[t].phase = "prepare"
        /\ n \in Nodes(Plan[t]) /\ n \notin co[t].left
    <2>1. q.tx = t /\ q.node = n /\ PhaseOf(q.what) = "prepare"
      BY DEF Request, PhaseOf
    <2>2. q \in todo
      BY <1>1
    <2> HIDE DEF q
    <2> QED
      BY <2>1, <2>2, Serving
  <1>3. txs[n][t] # NoTx /\ txs[n][t] \in Tx
    <2>1. txs[n][t].cmd = "some"
      BY <1>1 DEF Exact, Recorded
    <2>2. NoTx.cmd = "none"
      BY DEF NoTx
    <2>3. txs[n][t] \in Tx
      BY DEF TccType
    <2> QED
      BY <2>1, <2>2, <2>3
  <1>4. Records(t, n, x) /\ fails \in BOOLEAN /\ val \in Value /\ Answer(t, n, "prepare", ~fails, val)
    BY <1>3, PrepareLockType
  <1>5. x.undo = UndoLogs(Plan[t], n)
    BY <1>3 DEF Tx
  <1>6. Becomes(t, c)
    <2>1. (~fails) \in BOOLEAN
      BY Zenon
    <2> HIDE DEF fails, val
    <2> QED
      BY <1>2, <1>4, <2>1, AnswerType DEF c
  <1>7. co'[t] = c /\ \A u \in Client : u # t => co'[u] = co[u]
    BY <1>6, Changed
  <1>8. /\ c.phase = "prepare" /\ c.wait = n /\ c.left = co[t].left /\ c.out = co[t].out
        /\ c.reply = (IF fails THEN "err" ELSE "ok") /\ c.dump = IF val = Absent THEN co[t].dump ELSE val
    BY <1>2 DEF Replied, TccType, Coordinator
  <1>9. fails <=> IsRename(Plan[t]) /\ n = src /\ db[Plan[t].src] = Absent
    BY DEF PrepareFails, Clean
  <1>10. Staged(Plan[t], co[t], L, C) /\ Sourced(Plan[t], co[t], L, UndosOf(t, txs), db)
    BY DEF TwoPhase
  <1>11. /\ LocksOf(t, held') = IF fails THEN L ELSE L \union {n}
         /\ \A u \in Client : u # t => LocksOf(u, held') = LocksOf(u, held)
    <2>1. CASE fails
      BY <1>1, <2>1
    <2>2. CASE ~fails
      BY <1>1, <2>2, LocksTaken
    <2> QED
      BY <2>1, <2>2
  <1>12. /\ \A u \in Client : u # t => UndosOf(u, txs') = UndosOf(u, txs)
         /\ \A m \in Node : UndosOf(t, txs')[m] = IF m = n THEN x.undo ELSE UndosOf(t, txs)[m]
    <2> HIDE DEF x
    <2> QED
      BY <1>4, UndosChanged, SMTT(30)
  <1>13. IsRename(Plan[t]) => src \in Node /\ (n = src => x.undo = NoLogs)
    BY <1>5, NothingToUndo, Plans, Homes
  <1>14. CompatibleNext
    <2>1. CASE fails
      BY <1>1, <2>1 DEF CompatibleNext, TwoPhase, Compatible
    <2>2. CASE ~fails
      <3>1. LockOf(t, n).tx = t /\ LockOf(t, n).node = n
        BY DEF LockOf
      <3>2. ASSUME NEW h \in held, h.node = n, h.tx # t PROVE CanShare(t, h.tx, n)
        <4>1. h = LockOf(h.tx, n) /\ h.tx \in Client
          BY <3>2 DEF TccType, Lock, LockOf
        <4>2. n \in LocksOf(h.tx, held)
          BY <4>1 DEF LocksOf
        <4> QED
          BY <1>1, <4>1, <4>2, LockShares
      <3> HIDE DEF fails
      <3>3. held' = held \union {LockOf(t, n)}
        BY <1>1, <2>2
      <3> QED
        BY <3>1, <3>2, <3>3 DEF CompatibleNext, TwoPhase, Compatible, CanShare
    <2> QED
      BY <2>1, <2>2
  <1> HIDE DEF q, fails, c, x, L, C
  <1>15. StageNext(t)
    <2>1. C = {} /\ c.out # "err"
      BY <1>2, <1>8, <1>10 DEF Staged
    <2>2. Staged(Plan[t], c, IF fails THEN L ELSE L \union {n}, C)
      BY <1>2, <1>8, <1>9, <1>10, <2>1 DEF Staged
    <2>3. Sourced(Plan[t], c, IF fails THEN L ELSE L \union {n}, UndosOf(t, txs'), db)
      BY <1>8, <1>9, <1>10, <1>12, <1>13 DEF Sourced
    <2> QED
      BY <1>1, <1>7, <1>11, <2>2, <2>3 DEF StageNext, C
  <1>16. \A u \in Client : u # t => Leaves(u)
    BY <1>1, <1>7, <1>11, <1>12 DEF Leaves
  <1> QED
    BY <1>14, <1>15, <1>16, OthersStay

\* execCommit: the node has locks and a record for the command, and commits it.
LEMMA execCommitStage ==
    ASSUME TccType, Orderly, Exact, Clean, TwoPhase, NEW t \in Client, NEW n \in Node, execCommit(t, n)
    PROVE  /\ co[t].phase = "commit" /\ txs[n][t] # NoTx /\ n \in LocksOf(t, held) /\ n \in Nodes(Plan[t])
           /\ n \notin CommitsOf(t, committed)
           /\ CompatibleNext /\ \A u \in Client : StageNext(u)
  <1> DEFINE q == Request(t, n, "commit")
             src == NodeOf[Plan[t].src]
             c == Replied(t, TRUE, Absent)
             x == [txs[n][t] EXCEPT !.hasLock = FALSE]
             L == LocksOf(t, held)
             C == CommitsOf(t, committed)
  <1>1. q \in todo
    BY DEF execCommit
  <1>2. /\ co[t].wait = n /\ co[t].reply = "" /\ co[t].phase = "commit"
        /\ n \in Nodes(Plan[t]) /\ n \notin co[t].left
    <2>1. q.tx = t /\ q.node = n /\ PhaseOf(q.what) = "commit"
      BY DEF Request, PhaseOf
    <2>2. q \in todo
      BY <1>1
    <2> HIDE DEF q
    <2> QED
      BY <2>1, <2>2, Serving
  <1>3. Staged(Plan[t], co[t], L, C) /\ Sourced(Plan[t], co[t], L, UndosOf(t, txs), db)
    BY DEF TwoPhase
  <1>4. n \notin C /\ n \in L
    <2> HIDE DEF L, C
    <2> QED
      BY <1>2, <1>3 DEF Staged
  <1>5. txs[n][t] # NoTx
    <2>1. LockOf(t, n) \in held /\ LockOf(t, n).tx = t /\ LockOf(t, n).node = n
      BY <1>4 DEF LocksOf, LockOf
    <2>2. txs[n][t].hasLock
      BY <2>1 DEF Exact, Recorded
    <2> QED
      BY <2>2 DEF NoTx
  <1>6. /\ db' = ExecPart(t, n) /\ committed' = committed \union {<<t, n>>} /\ held' = held \ {LockOf(t, n)}
        /\ Answer(t, n, "commit", TRUE, Absent)
    BY <1>5 DEF execCommit, LockOf
  <1>7. Records(t, n, x)
    BY <1>5, execCommitType
  <1>8. x.undo = txs[n][t].undo
    BY DEF TccType, Tx
  <1>9. co'[t] = c /\ \A u \in Client : u # t => co'[u] = co[u]
    <2>1. Absent \in Value /\ TRUE \in BOOLEAN
      BY DEF Value
    <2>2. Becomes(t, c)
      BY <1>2, <1>6, <2>1, AnswerType
    <2> HIDE DEF c
    <2> QED
      BY <2>2, Changed
  <1>10. /\ c.phase = "commit" /\ c.wait = n /\ c.left = co[t].left /\ c.out = co[t].out
         /\ c.reply = "ok" /\ c.dump = co[t].dump
    BY <1>2 DEF Replied, TccType, Coordinator
  <1>11. /\ LocksOf(t, held') = L \ {n}
         /\ \A u \in Client : u # t => LocksOf(u, held') = LocksOf(u, held)
    BY <1>6, LocksGiven
  <1>12. /\ CommitsOf(t, committed') = C \union {n}
         /\ \A u \in Client : u # t => CommitsOf(u, committed') = CommitsOf(u, committed)
    BY <1>6, CommitAdded
  <1>13. /\ \A u \in Client : u # t => UndosOf(u, txs') = UndosOf(u, txs)
         /\ \A m \in Node : UndosOf(t, txs')[m] = UndosOf(t, txs)[m]
    <2>1. UndosOf(t, txs)[n] = txs[n][t].undo
      BY DEF UndosOf
    <2> HIDE DEF x
    <2> QED
      BY <1>7, <1>8, <2>1, UndosChanged
  <1>14. CompatibleNext
    BY <1>6 DEF CompatibleNext, TwoPhase, Compatible
  <1>15. \A u \in Client : u # t => Leaves(u)
    <2> SUFFICES ASSUME NEW u \in Client, u # t PROVE Leaves(u)
      OBVIOUS
    <2>1. ASSUME IsRename(Plan[u]), NodeOf[Plan[u].src] \in LocksOf(u, held) PROVE db'[Plan[u].src] = db[Plan[u].src]
      <3>1. Plan[u].src \in Plan[u].keys
        BY <2>1, Plans
      <3> QED
        BY <1>4, <1>6, <2>1, <3>1, ExecLeaves DEF TwoPhase
    <2> QED
      BY <1>9, <1>11, <1>12, <1>13, <2>1 DEF Leaves
  <1>16. ASSUME IsRename(Plan[t]), src \in L \ {n} PROVE db'[Plan[t].src] = db[Plan[t].src]
    BY <1>6, <1>16, Plans DEF ExecPart, At
  <1> HIDE DEF q, c, x, L, C
  <1>17. StageNext(t)
    <2>1. Staged(Plan[t], c, L \ {n}, C \union {n})
      BY <1>2, <1>3, <1>4, <1>10 DEF Staged
    <2>2. Sourced(Plan[t], c, L \ {n}, UndosOf(t, txs'), db')
      <3>1. IsRename(Plan[t]) => src \in Node
        BY Plans, Homes
      <3> QED
        BY <1>3, <1>10, <1>13, <1>16, <3>1 DEF Sourced
    <2> QED
      BY <1>9, <1>11, <1>12, <2>1, <2>2 DEF StageNext
  <1>18. CompatibleNext /\ \A u \in Client : StageNext(u)
    BY <1>14, <1>15, <1>17, OthersStay
  <1> QED
    BY <1>2, <1>4, <1>5, <1>18 DEF L, C

\* A rollback comes to the source of a RENAME, and there it undoes nothing.
LEMMA UndoesNothing ==
    ASSUME TccType, Exact, TwoPhase, NEW t \in Client, NEW n \in Node, NEW what \in {"rollback", "relocking"},
           Request(t, n, what) \in todo
    PROVE  co[t].phase = "rollback" /\ co[t].wait = n /\ (Undo(t, n) => db' = db)
  <1> DEFINE q == Request(t, n, what)
             L == LocksOf(t, held)
             C == CommitsOf(t, committed)
  <1>1. q.tx = t /\ q.node = n /\ PhaseOf(q.what) = "rollback" /\ q \in todo
    BY DEF Request, PhaseOf
  <1> HIDE DEF q
  <1>2. co[t].phase = "rollback" /\ co[t].wait = n /\ n # ""
    BY <1>1, Serving, Homes
  <1>3. Staged(Plan[t], co[t], L, C) /\ Sourced(Plan[t], co[t], L, UndosOf(t, txs), db)
    BY DEF TwoPhase
  <1> HIDE DEF L, C
  <1>4. IsRename(Plan[t]) /\ n = NodeOf[Plan[t].src]
    BY <1>2, <1>3 DEF Staged
  <1>5. txs[n][t].undo = NoLogs
    BY <1>3, <1>4 DEF Sourced, UndosOf
  <1>6. Undo(t, n) => db' = db
    BY <1>5 DEF Undo, Apply, NoLogs, TccType
  <1> QED
    BY <1>2, <1>6

\* What it takes for the answer of a rollback to preserve TwoPhase.
LEMMA AnsweredStage ==
    ASSUME TccType, TwoPhase, NEW t \in Client, NEW n \in Node, co[t].phase = "rollback", co[t].wait = n,
           NEW ok \in BOOLEAN, Answer(t, n, "rollback", ok, Absent),
           held' = held \/ held' = held \ {LockOf(t, n)}, txs' = txs \/ Records(t, n, NoTx),
           UNCHANGED <<db, committed>>
    PROVE  CompatibleNext /\ \A u \in Client : StageNext(u)
  <1> DEFINE c == Replied(t, ok, Absent)
             src == NodeOf[Plan[t].src]
             L == LocksOf(t, held)
             C == CommitsOf(t, committed)
  <1>1. co'[t] = c /\ \A u \in Client : u # t => co'[u] = co[u]
    <2>1. Absent \in Value
      BY DEF Value
    <2>2. Becomes(t, c)
      BY <2>1, AnswerType
    <2> HIDE DEF c
    <2> QED
      BY <2>2, Changed
  <1>2. c.phase = "rollback" /\ c.wait = n /\ c.left = co[t].left /\ c.out = co[t].out /\ c.dump = co[t].dump
    BY DEF Replied, TccType, Coordinator
  <1>3. Staged(Plan[t], co[t], L, C) /\ Sourced(Plan[t], co[t], L, UndosOf(t, txs), db)
    BY DEF TwoPhase
  <1>4. /\ LocksOf(t, held') \subseteq L
        /\ \A u \in Client : u # t => LocksOf(u, held') = LocksOf(u, held)
    BY LocksGiven
  <1>5. /\ \A u \in Client : u # t => UndosOf(u, txs') = UndosOf(u, txs)
        /\ \A m \in Node : UndosOf(t, txs')[m] \in {UndosOf(t, txs)[m], NoLogs}
    <2>1. NoTx.undo = NoLogs
      BY DEF NoTx
    <2> QED
      BY <2>1, UndosChanged
  <1>6. CompatibleNext
    BY DEF CompatibleNext, TwoPhase, Compatible
  <1>7. \A u \in Client : u # t => Leaves(u)
    BY <1>1, <1>4, <1>5 DEF Leaves
  <1>8. IsRename(Plan[t]) => src \in Node
    BY Plans, Homes
  <1> HIDE DEF c, L, C
  <1>9. C = {}
    BY <1>3 DEF Staged
  <1>10. Staged(Plan[t], c, LocksOf(t, held'), C)
    BY <1>2, <1>3, <1>9 DEF Staged
  <1>11. Sourced(Plan[t], c, LocksOf(t, held'), UndosOf(t, txs'), db)
    BY <1>2, <1>3, <1>4, <1>5, <1>8 DEF Sourced
  <1>12. StageNext(t)
    BY <1>1, <1>10, <1>11 DEF StageNext, C
  <1> QED
    BY <1>6, <1>7, <1>12, OthersStay

\* execRollback changes no data.
LEMMA execRollbackStage ==
    ASSUME TccType, Exact, TwoPhase, NEW t \in Client, NEW n \in Node, execRollback(t, n)
    PROVE  db' = db /\ CompatibleNext /\ \A u \in Client : StageNext(u)
  <1>1. Request(t, n, "rollback") \in todo /\ committed' = committed
    BY DEF execRollback
  <1>2. co[t].phase = "rollback" /\ co[t].wait = n /\ (Undo(t, n) => db' = db)
    BY <1>1, UndoesNothing
  <1>3. ASSUME NEW ok \in BOOLEAN, Answer(t, n, "rollback", ok, Absent),
               held' = held \/ held' = held \ {LockOf(t, n)}, txs' = txs \/ Records(t, n, NoTx), db' = db
        PROVE  CompatibleNext /\ \A u \in Client : StageNext(u)
    BY <1>1, <1>2, <1>3, AnsweredStage
  <1>4. CASE Answer(t, n, "rollback", FALSE, Absent) /\ UNCHANGED <<db, txs, held>>
    BY <1>3, <1>4
  <1>5. CASE Undo(t, n) /\ held' = held \ {LockOf(t, n)} /\ Answer(t, n, "rollback", TRUE, Absent)
    BY <1>2, <1>3, <1>5, UndoType
  <1>6. CASE UNCHANGED <<db, txs, held, co>>
    BY <1>1, <1>6 DEF CompatibleNext, StageNext, TwoPhase, Compatible
  <1> QED
    BY <1>4, <1>5, <1>6 DEF execRollback, LockOf

\* Nor does it after locking again.
LEMMA RollbackLockStage ==
    ASSUME TccType, Exact, TwoPhase, NEW t \in Client, NEW n \in Node, RollbackLock(t, n)
    PROVE  db' = db /\ CompatibleNext /\ \A u \in Client : StageNext(u)
  <1>1. /\ Request(t, n, "relocking") \in todo /\ committed' = committed /\ held' = held /\ Undo(t, n)
        /\ Answer(t, n, "rollback", TRUE, Absent)
    BY DEF RollbackLock
  <1>2. co[t].phase = "rollback" /\ co[t].wait = n /\ db' = db
    BY <1>1, UndoesNothing
  <1>3. Records(t, n, NoTx)
    BY <1>1, UndoType
  <1> QED
    BY <1>1, <1>2, <1>3, AnsweredStage

\* In a clean scene every step preserves TwoPhase.
LEMMA TwoPhaseStep ==
    ASSUME TccType, Orderly, Exact, Clean, TwoPhase, Next, timeouts' = 0
    PROVE  TwoPhase'
  <1>1. PICK t \in Client : Serve(t) \/ Timeout(t) \/ \E n \in Node : Forget(t, n)
    BY DEF Next
  <1>2. ~Timeout(t)
    BY NoTimeout
  <1>3. ASSUME NEW n \in Node, PrepareCreate(t, n) \/ Forget(t, n)
        PROVE  CompatibleNext /\ \A u \in Client : StageNext(u)
    <2>1. Records(t, n, NewTx) \/ Records(t, n, NoTx)
      BY <1>3, NewTxType DEF PrepareCreate, Forget, Records
    <2>2. UNCHANGED <<co, held, db, committed>>
      BY <1>3 DEF PrepareCreate, Forget
    <2> QED
      BY <2>1, <2>2, RecordStage
  <1>4. CompatibleNext /\ \A u \in Client : StageNext(u)
    BY <1>1, <1>2, <1>3, LocalStage, StartStage, ReceiveStage, SendStage, PrepareLockStage, execCommitStage,
       execRollbackStage, RollbackLockStage DEF Serve
  <1> QED
    BY <1>4, TwoPhaseNext DEF Next

-----------------------------------------------------------------------------
\* The abstract state after a step of a scene.
LEMMA StoreNext ==
    ASSUME scene' = scene
    PROVE  /\ Plan' = Plan /\ Store' = StoreIn(Plan, co', committed', db')
           /\ Result' = [t \in Client |-> Told(Plan[t], co'[t].out, CommitsOf(t, committed'), got'[t], db')]
  BY DEF Plan, Store, Result

\* The store at a key, when all who are ahead on it agree.
LEMMA StoreIs ==
    ASSUME NEW k \in Key, NEW v, Ahead(k, Plan, co, committed) = {} => db[k] = v,
           \A u \in Ahead(k, Plan, co, committed) : Outcome(Plan[u], co[u].dump, db[k], k) = v
    PROVE  Store[k] = v
  <1> DEFINE A == Ahead(k, Plan, co, committed)
             t == CHOOSE u \in A : TRUE
  <1>1. Store[k] = IF A = {} THEN db[k] ELSE Outcome(Plan[t], co[t].dump, db[k], k)
    BY DEF Store, StoreIn
  <1>2. A # {} => t \in A
    OBVIOUS
  <1> HIDE DEF t
  <1> QED
    BY <1>1, <1>2

\* The same after a step.
LEMMA StoreBecomes ==
    ASSUME scene' = scene, NEW k \in Key, NEW v, Ahead(k, Plan, co', committed') = {} => db'[k] = v,
           \A u \in Ahead(k, Plan, co', committed') : Outcome(Plan[u], co'[u].dump, db'[k], k) = v
    PROVE  Store'[k] = v
  <1> DEFINE A == Ahead(k, Plan, co', committed')
             t == CHOOSE u \in A : TRUE
  <1>1. Store'[k] = IF A = {} THEN db'[k] ELSE Outcome(Plan[t], co'[t].dump, db'[k], k)
    BY StoreNext DEF StoreIn
  <1>2. A # {} => t \in A
    OBVIOUS
  <1> HIDE DEF t
  <1> QED
    BY <1>1, <1>2

\* A store is known by its values.
LEMMA StoreSame ==
    ASSUME NEW s, \A k \in Key : Store'[k] = s[k], s = [k \in Key |-> s[k]]
    PROVE  Store' = s
  <1>1. Store' = [k \in Key |-> Store'[k]]
    BY DEF Store, StoreIn
  <1> QED
    BY <1>1

\* Who is ahead on a key has it locked.
LEMMA AheadLocked ==
    ASSUME TccType, TwoPhase, NEW k \in Key, NEW u \in Ahead(k, Plan, co, committed)
    PROVE  u \in Client /\ k \in Plan[u].keys /\ NodeOf[k] \in LocksOf(u, held)
  <1> DEFINE L == LocksOf(u, held)
             C == CommitsOf(u, committed)
  <1>1. u \in Client /\ co[u].phase = "commit" /\ k \in Plan[u].keys /\ NodeOf[k] \notin C
    BY DEF Ahead
  <1>2. Staged(Plan[u], co[u], L, C)
    BY <1>1 DEF TwoPhase
  <1>3. NodeOf[k] \in Nodes(Plan[u])
    BY <1>1 DEF Nodes
  <1> HIDE DEF L, C
  <1>4. NodeOf[k] \in L
    BY <1>1, <1>2, <1>3 DEF Staged
  <1> QED
    BY <1>1, <1>4 DEF L

\* Who shares a key with a command that is ahead on it reads it, as that one does.
LEMMA AheadReads ==
    ASSUME TccType, Clean, TwoPhase, NEW k \in Key, NEW u \in Ahead(k, Plan, co, committed), NEW t \in Client, t # u,
           k \in Plan[t].keys, CanLock(t, NodeOf[k]) \/ NodeOf[k] \in LocksOf(t, held)
    PROVE  Plan[u].op = "mget" /\ Plan[t].op = "mget"
  <1>1. u \in Client /\ k \in Plan[u].keys /\ NodeOf[k] \in LocksOf(u, held) /\ NodeOf[k] \in Node
    BY AheadLocked, Homes
  <1>2. CanShare(t, u, NodeOf[k])
    BY <1>1, LockShares, HoldersShare DEF TwoPhase
  <1> QED
    BY <1>1, <1>2, Readers, ShareSym

\* A command that only reads leaves the value.
LEMMA ReadOutcome ==
    ASSUME NEW cmd, cmd.op = "mget", NEW dump, NEW old, NEW k
    PROVE  Outcome(cmd, dump, old, k) = old
  BY DEF Outcome, Sets, IsRename

\* All who are ahead on a key agree on its value.
LEMMA StoreAhead ==
    ASSUME TccType, Clean, TwoPhase, NEW k \in Key, NEW t \in Ahead(k, Plan, co, committed)
    PROVE  Store[k] = Outcome(Plan[t], co[t].dump, db[k], k)
  <1> DEFINE v == Outcome(Plan[t], co[t].dump, db[k], k)
  <1>1. t \in Client /\ k \in Plan[t].keys /\ NodeOf[k] \in LocksOf(t, held)
    BY AheadLocked
  <1>2. ASSUME NEW u \in Ahead(k, Plan, co, committed), u # t PROVE Outcome(Plan[u], co[u].dump, db[k], k) = v
    BY <1>1, <1>2, AheadReads, ReadOutcome, SMTT(30)
  <1>3. \A u \in Ahead(k, Plan, co, committed) : Outcome(Plan[u], co[u].dump, db[k], k) = v
    BY <1>2
  <1>4. Ahead(k, Plan, co, committed) # {}
    OBVIOUS
  <1> HIDE DEF v
  <1>5. Store[k] = v
    BY <1>3, <1>4, StoreIs
  <1> QED
    BY <1>5 DEF v

\* A key that a command has locked before it takes effect is in the store as it is.
LEMMA StoreLocked ==
    ASSUME TccType, Clean, TwoPhase, NEW t \in Client, NEW k \in Plan[t].keys,
           CanLock(t, NodeOf[k]) \/ NodeOf[k] \in LocksOf(t, held), t \notin Ahead(k, Plan, co, committed)
    PROVE  Store[k] = db[k]
  <1>1. k \in Key
    BY Plans
  <1>2. ASSUME NEW u \in Ahead(k, Plan, co, committed) PROVE Outcome(Plan[u], co[u].dump, db[k], k) = db[k]
    BY <1>1, AheadReads, ReadOutcome, SMTT(30)
  <1> QED
    BY <1>1, <1>2, StoreIs

-----------------------------------------------------------------------------
\* Where t is ahead neither before nor after a step, and the key and the others stay as
\* they are, the store stays as it is.
LEMMA StoreKept ==
    ASSUME TccType, Clean, TwoPhase, scene' = scene, NEW t \in Client, NEW k \in Key, db'[k] = db[k],
           \A u \in Client : u # t => co'[u] = co[u] /\ CommitsOf(u, committed') = CommitsOf(u, committed),
           t \in Ahead(k, Plan, co', committed') <=> t \in Ahead(k, Plan, co, committed),
           t \in Ahead(k, Plan, co, committed) => co'[t].dump = co[t].dump
    PROVE  Store'[k] = Store[k]
  <1> DEFINE A == Ahead(k, Plan, co, committed)
             B == Ahead(k, Plan, co', committed')
  <1>1. ASSUME NEW u \in Client PROVE u \in B <=> u \in A
    BY DEF Ahead
  <1>2. B = A
    BY <1>1 DEF Ahead
  <1>3. A = {} => Store[k] = db[k]
    BY StoreIs
  <1>4. ASSUME NEW u \in A PROVE Outcome(Plan[u], co'[u].dump, db'[k], k) = Store[k]
    <2>1. co'[u].dump = co[u].dump
      BY <1>4 DEF Ahead
    <2> QED
      BY <2>1, StoreAhead
  <1>5. Store'[k] = Store[k]
    <2> DEFINE v == Store[k]
    <2> HIDE DEF v
    <2>1. (B = {} => db'[k] = v) /\ \A u \in B : Outcome(Plan[u], co'[u].dump, db'[k], k) = v
      BY <1>2, <1>3, <1>4 DEF v
    <2>2. Store'[k] = v
      BY <2>1, StoreBecomes
    <2> QED
      BY <2>2 DEF v
  <1> QED
    BY <1>5

\* A step of a coordinator that has committed nowhere, or everywhere, or goes on as it
\* was, is not seen.
LEMMA StoreStays ==
    ASSUME TccType, Clean, TwoPhase, scene' = scene, NEW t \in Client, db' = db, committed' = committed,
           \A u \in Client : u # t => co'[u] = co[u],
           \/ CommitsOf(t, committed) \in {{}, Nodes(Plan[t])}
           \/ co'[t].phase = co[t].phase /\ co'[t].dump = co[t].dump
    PROVE  Store' = Store
  <1>1. ASSUME NEW k \in Key PROVE Store'[k] = Store[k]
    <2>1. k \in Plan[t].keys => NodeOf[k] \in Nodes(Plan[t])
      BY DEF Nodes
    <2>2. /\ t \in Ahead(k, Plan, co', committed') <=> t \in Ahead(k, Plan, co, committed)
          /\ t \in Ahead(k, Plan, co, committed) => co'[t].dump = co[t].dump
      BY <2>1 DEF Ahead
    <2> QED
      BY <2>2, StoreKept
  <1>2. Store = [k \in Key |-> Store[k]]
    BY SMTT(30) DEF Store, StoreIn
  <1> QED
    BY <1>1, <1>2, StoreSame

\* Neither does a client see it.
LEMMA Unseen ==
    ASSUME TccType, Clean, TwoPhase, scene' = scene, NEW t \in Client, UNCHANGED <<db, committed, got>>,
           \A u \in Client : u # t => co'[u] = co[u],
           co'[t].out = "err" <=> co[t].out = "err",
           \/ CommitsOf(t, committed) \in {{}, Nodes(Plan[t])}
           \/ co'[t].phase = co[t].phase /\ co'[t].dump = co[t].dump
    PROVE  UNCHANGED <<Plan, Store, Result>>
  <1>1. Store' = Store
    BY StoreStays
  <1>2. \A u \in Client : Told(Plan[u], co'[u].out, CommitsOf(u, committed'), got'[u], db')
                          = Told(Plan[u], co[u].out, CommitsOf(u, committed), got[u], db)
    BY DEF Told
  <1>3. Result' = Result
    BY <1>2, StoreNext DEF Result
  <1> QED
    BY <1>1, <1>3, StoreNext

\* Where a command is executed at n, or still to be executed, the store is what it leaves.
LEMMA StoreAfter ==
    ASSUME TccType, Clean, TwoPhase, scene' = scene, NEW t \in Client, NEW n \in Node, db' = ExecPart(t, n),
           \A u \in Client : u # t => co'[u] = co[u] /\ CommitsOf(u, committed') = CommitsOf(u, committed),
           co'[t].dump = co[t].dump, NEW k \in Plan[t].keys,
           CanLock(t, NodeOf[k]) \/ NodeOf[k] \in LocksOf(t, held),
           IF NodeOf[k] = n THEN t \notin Ahead(k, Plan, co', committed') ELSE t \in Ahead(k, Plan, co', committed')
    PROVE  Store'[k] = Outcome(Plan[t], co[t].dump, db[k], k)
  <1> DEFINE B == Ahead(k, Plan, co', committed')
             v == Outcome(Plan[t], co[t].dump, db[k], k)
  <1>1. k \in Key
    BY Plans
  <1>2. db'[k] = IF NodeOf[k] = n THEN v ELSE db[k]
    BY <1>1 DEF ExecPart, At, NewValue
  <1>3. ASSUME NEW u \in B, u # t PROVE Plan[u].op = "mget" /\ Plan[t].op = "mget"
    <2>1. u \in Ahead(k, Plan, co, committed)
      BY <1>3 DEF Ahead
    <2> QED
      BY <1>1, <1>3, <2>1, AheadReads
  <1>4. ASSUME NEW u \in B PROVE Outcome(Plan[u], co'[u].dump, db'[k], k) = v
    <2>1. CASE u = t
      BY <1>2, <1>4, <2>1
    <2>2. CASE u # t
      <3>1. Plan[u].op = "mget" /\ Plan[t].op = "mget"
        BY <1>3, <1>4, <2>2
      <3>2. v = db[k]
        BY <3>1, ReadOutcome
      <3>3. Outcome(Plan[u], co'[u].dump, db'[k], k) = db'[k]
        BY <3>1, ReadOutcome
      <3> QED
        BY <1>2, <3>2, <3>3
    <2> QED
      BY <2>1, <2>2
  <1>5. B = {} => db'[k] = v
    BY <1>2
  <1> HIDE DEF v
  <1>6. Store'[k] = v
    <2>1. (B = {} => db'[k] = v) /\ \A u \in B : Outcome(Plan[u], co'[u].dump, db'[k], k) = v
      BY <1>4, <1>5
    <2> QED
      BY <1>1, <2>1, StoreBecomes
  <1> QED
    BY <1>6 DEF v

\* What another client is told stays as it is when a command is executed at a node.
LEMMA ToldOthers ==
    ASSUME TccType, Clean, TwoPhase, NEW t \in Client, NEW n \in Node, db' = ExecPart(t, n),
           CanLock(t, n) \/ n \in LocksOf(t, held), NEW u \in Client, u # t, co'[u] = co[u], got'[u] = got[u],
           CommitsOf(u, committed') = CommitsOf(u, committed)
    PROVE  Told(Plan[u], co'[u].out, CommitsOf(u, committed'), got'[u], db')
           = Told(Plan[u], co[u].out, CommitsOf(u, committed), got[u], db)
  <1> DEFINE C == CommitsOf(u, committed)
  <1>1. ASSUME NEW k \in Plan[u].keys, NodeOf[k] \notin C, C # {} PROVE db'[k] = db[k]
    <2>1. Staged(Plan[u], co[u], LocksOf(u, held), C)
      BY DEF TwoPhase
    <2>2. NodeOf[k] \in Nodes(Plan[u])
      BY DEF Nodes
    <2> HIDE DEF C
    <2>3. NodeOf[k] \in LocksOf(u, held)
      BY <1>1, <2>1, <2>2 DEF Staged
    <2> QED
      BY <2>3, ExecLeaves DEF TwoPhase
  <1> QED
    BY <1>1 DEF Told

\* The abstract effect of a command, key by key.
LEMMA EffectIs ==
    ASSUME TccType, Clean, NEW t \in Client, NEW k \in Key
    PROVE  Abstract!Effect(Plan[t], Store)[k] =
             IF k \in Plan[t].keys THEN Outcome(Plan[t], Store[Plan[t].src], Store[k], k) ELSE Store[k]
  <1>1. Plan[t].op \in Ops
    BY CleanOps
  <1>2. IsRename(Plan[t]) => /\ Plan[t].keys = {Plan[t].src, Plan[t].dst} /\ Plan[t].src # Plan[t].dst
    BY Plans
  <1>3. CASE Plan[t].op = "mset"
    BY <1>3 DEF Abstract!Effect, Outcome, Sets, IsRename
  <1>4. CASE Plan[t].op = "mget"
    BY <1>4 DEF Abstract!Effect, Outcome, Sets, IsRename
  <1>5. CASE Plan[t].op = "del"
    BY <1>5 DEF Abstract!Effect, Outcome, Sets, IsRename
  <1>6. CASE Plan[t].op = "rename"
    BY <1>2, <1>6 DEF Abstract!Effect, Outcome, Sets, IsRename
  <1> QED
    BY <1>1, <1>3, <1>4, <1>5, <1>6 DEF Ops

\* A command that has the locks of all its keys, and is committed nowhere, takes effect.
LEMMA Performs ==
    ASSUME TccType, Clean, TwoPhase, scene' = scene, NEW t \in Client, NEW n \in Node,
           CommitsOf(t, committed) = {}, co[t].out # "err",
           CommitsOf(t, committed') = {n}, co'[t].out # "err",
           n \in Nodes(Plan[t]),
           \A m \in Nodes(Plan[t]) : CanLock(t, m) \/ m \in LocksOf(t, held),
           IsRename(Plan[t]) => NodeOf[Plan[t].src] \in LocksOf(t, held),
           db' = ExecPart(t, n), got' = [got EXCEPT ![t] = ReadAlso(got[t], At(Plan[t], n))],
           \A u \in Client : u # t => co'[u] = co[u] /\ CommitsOf(u, committed') = CommitsOf(u, committed),
           co'[t].dump = co[t].dump, co'[t].phase = "commit" \/ Nodes(Plan[t]) = {n}
    PROVE  Abstract!Perform(t)
  <1>1. \A k \in Plan[t].keys : k \in Key /\ NodeOf[k] \in Nodes(Plan[t])
    BY Plans DEF Nodes
  <1>2. \A k \in Key : t \notin Ahead(k, Plan, co, committed)
    BY DEF Ahead
  <1>3. \A k \in Plan[t].keys : Store[k] = db[k]
    BY <1>1, <1>2, StoreLocked
  <1>4. IsRename(Plan[t]) => Plan[t].src \in Plan[t].keys /\ co[t].dump = db[Plan[t].src] /\ db[Plan[t].src] # Absent
    BY Plans DEF TwoPhase, Sourced
  <1>5. Result[t] = Abstract!Nothing
    BY DEF Result, Told, Abstract!Nothing
  <1>6. Abstract!Allowed(Plan[t], Store)
    <2>1. Plan[t].op \in Ops
      BY CleanOps
    <2> QED
      BY <1>3, <1>4, <2>1 DEF Abstract!Allowed, Ops, IsRename
  <1>7. ASSUME NEW k \in Key PROVE Store'[k] = Abstract!Effect(Plan[t], Store)[k]
    <2>1. CASE k \notin Plan[t].keys
      <3>1. db'[k] = db[k]
        BY <2>1 DEF ExecPart, At
      <3>2. t \notin Ahead(k, Plan, co', committed') /\ t \notin Ahead(k, Plan, co, committed)
        BY <2>1 DEF Ahead
      <3>3. Store'[k] = Store[k]
        BY <3>1, <3>2, StoreKept
      <3> QED
        BY <2>1, <3>3, EffectIs
    <2>2. CASE k \in Plan[t].keys
      <3>1. IF NodeOf[k] = n THEN t \notin Ahead(k, Plan, co', committed') ELSE t \in Ahead(k, Plan, co', committed')
        BY <1>1, <2>2 DEF Ahead
      <3>2. CanLock(t, NodeOf[k]) \/ NodeOf[k] \in LocksOf(t, held)
        BY <1>1, <2>2
      <3>3. Store'[k] = Outcome(Plan[t], co[t].dump, db[k], k)
        BY <2>2, <3>1, <3>2, StoreAfter
      <3>4. Abstract!Effect(Plan[t], Store)[k] = Outcome(Plan[t], Store[Plan[t].src], db[k], k)
        BY <1>3, <2>2, EffectIs
      <3>5. Outcome(Plan[t], Store[Plan[t].src], db[k], k) = Outcome(Plan[t], co[t].dump, db[k], k)
        BY <1>3, <1>4 DEF Outcome
      <3> QED
        BY <3>3, <3>4, <3>5
    <2> QED
      BY <2>1, <2>2
  <1>8. Store' = Abstract!Effect(Plan[t], Store)
    <2>1. Abstract!Effect(Plan[t], Store) = [k \in Key |-> Abstract!Effect(Plan[t], Store)[k]]
      BY DEF Abstract!Effect
    <2> QED
      BY <1>7, <2>1, StoreSame
  <1>9. Told(Plan[t], co'[t].out, CommitsOf(t, committed'), got'[t], db')
        = [status |-> "ok", vals |-> Abstract!Seen(Plan[t], Store)]
    <2>1. ASSUME Plan[t].op = "mget", NEW k \in Plan[t].keys
          PROVE  (IF NodeOf[k] \in CommitsOf(t, committed') THEN got'[t][k] ELSE db'[k]) = Store[k]
      <3>1. CASE NodeOf[k] = n
        BY <1>1, <1>3, <3>1 DEF ReadAlso, At, TccType
      <3>2. CASE NodeOf[k] # n
        BY <1>1, <1>3, <3>2 DEF ExecPart, At
      <3> QED
        BY <3>1, <3>2
    <2> QED
      BY <2>1 DEF Told, Abstract!Seen
  <1>10. Result' = [Result EXCEPT ![t] = [status |-> "ok", vals |-> Abstract!Seen(Plan[t], Store)]]
    <2>1. ASSUME NEW u \in Client, u # t
          PROVE  Told(Plan[u], co'[u].out, CommitsOf(u, committed'), got'[u], db') = Result[u]
      <3>1. got'[u] = got[u] /\ co'[u] = co[u] /\ CommitsOf(u, committed') = CommitsOf(u, committed)
        BY <2>1 DEF TccType
      <3>2. CanLock(t, n) \/ n \in LocksOf(t, held)
        OBVIOUS
      <3> QED
        BY <2>1, <3>1, <3>2, ToldOthers DEF Result
    <2> QED
      BY <1>9, <2>1, StoreNext, ZenonT(60) DEF Result
  <1> QED
    BY <1>5, <1>6, <1>8, <1>10, StoreNext DEF Abstract!Perform

-----------------------------------------------------------------------------
\* A command on one node takes effect there.
LEMMA LocalPerforms ==
    ASSUME TccType, Clean, TwoPhase, scene' = scene, NEW t \in Client, Local(t)
    PROVE  Abstract!Perform(t)
  <1> DEFINE c == [co[t] EXCEPT !.phase = "done", !.out = "ok"]
             C == CommitsOf(t, committed)
  <1>1. PICK n \in Node : /\ Nodes(Plan[t]) = {n} /\ CanLock(t, n) /\ db' = ExecPart(t, n)
                          /\ committed' = committed \union {<<t, n>>}
    BY DEF Local
  <1>2. co[t].phase = "new" /\ ~IsRename(Plan[t]) /\ got' = [got EXCEPT ![t] = ReadAlso(got[t], Plan[t].keys)]
    BY DEF Local, TccType
  <1>3. At(Plan[t], n) = Plan[t].keys
    BY <1>1 DEF At, Nodes
  <1>4. co'[t] = c /\ \A u \in Client : u # t => co'[u] = co[u]
    BY LocalType, Changed
  <1>5. c.dump = co[t].dump /\ c.out # "err"
    BY DEF TccType, Coordinator
  <1>6. C = {} /\ co[t].out # "err"
    <2>1. Staged(Plan[t], co[t], LocksOf(t, held), C)
      BY DEF TwoPhase
    <2> HIDE DEF C
    <2> QED
      BY <1>2, <2>1 DEF Staged
  <1>7. CommitsOf(t, committed') = {n} /\ \A u \in Client : u # t => CommitsOf(u, committed') = CommitsOf(u, committed)
    BY <1>1, <1>6, CommitAdded
  <1> HIDE DEF c
  <1> QED
    BY <1>1, <1>2, <1>3, <1>4, <1>5, <1>6, <1>7, Performs

\* The first commit of a command is where it takes effect; those that follow are not
\* seen.
LEMMA CommitPerforms ==
    ASSUME TccType, Orderly, Exact, Clean, TwoPhase, scene' = scene, NEW t \in Client, NEW n \in Node,
           execCommit(t, n)
    PROVE  Abstract!Perform(t) \/ UNCHANGED <<Plan, Store, Result>>
  <1> DEFINE c == Replied(t, TRUE, Absent)
             L == LocksOf(t, held)
             C == CommitsOf(t, committed)
  <1>1. /\ co[t].phase = "commit" /\ txs[n][t] # NoTx /\ n \in L /\ n \in Nodes(Plan[t]) /\ n \notin C
    BY execCommitStage
  <1>2. /\ db' = ExecPart(t, n) /\ committed' = committed \union {<<t, n>>}
        /\ got' = [got EXCEPT ![t] = ReadAlso(got[t], At(Plan[t], n))]
        /\ Answer(t, n, "commit", TRUE, Absent)
    BY <1>1 DEF execCommit, TccType
  <1>3. co'[t] = c /\ \A u \in Client : u # t => co'[u] = co[u]
    <2>1. Absent \in Value /\ TRUE \in BOOLEAN
      BY DEF Value
    <2>2. co[t].wait = n
      <3> DEFINE q == Request(t, n, "commit")
      <3>1. q \in todo /\ q.tx = t /\ q.node = n
        BY DEF execCommit, Request
      <3> HIDE DEF q
      <3> QED
        BY <3>1, Serving
    <2>3. Becomes(t, c)
      BY <1>1, <1>2, <2>1, <2>2, AnswerType
    <2> HIDE DEF c
    <2> QED
      BY <2>3, Changed
  <1>4. c.phase = "commit" /\ c.out = co[t].out /\ c.dump = co[t].dump
    BY <1>1 DEF Replied, TccType, Coordinator
  <1>5. Staged(Plan[t], co[t], L, C)
    BY DEF TwoPhase
  <1>6. /\ CommitsOf(t, committed') = C \union {n}
        /\ \A u \in Client : u # t => CommitsOf(u, committed') = CommitsOf(u, committed)
    BY <1>2, CommitAdded
  <1> HIDE DEF c
  <1>7. co[t].out # "err" /\ Nodes(Plan[t]) \subseteq L \union C
    <2> HIDE DEF L, C
    <2> QED
      BY <1>1, <1>5 DEF Staged
  <1>8. CASE C = {}
    <2>1. IsRename(Plan[t]) => NodeOf[Plan[t].src] \in L
      BY <1>7, <1>8, Plans
    <2> QED
      BY <1>1, <1>2, <1>3, <1>4, <1>6, <1>7, <1>8, <2>1, Performs
  <1>9. CASE C # {}
    <2>1. ASSUME NEW k \in Key PROVE Store'[k] = Store[k]
      <3>1. CASE k \in Plan[t].keys /\ NodeOf[k] \notin C
        <4>1. NodeOf[k] \in L
          BY <1>7, <3>1 DEF Nodes
        <4>2. t \in Ahead(k, Plan, co, committed)
          BY <1>1, <1>9, <3>1 DEF Ahead
        <4>3. IF NodeOf[k] = n THEN t \notin Ahead(k, Plan, co', committed')
              ELSE t \in Ahead(k, Plan, co', committed')
          BY <1>3, <1>4, <1>6, <3>1 DEF Ahead
        <4>4. Store'[k] = Outcome(Plan[t], co[t].dump, db[k], k)
          BY <1>2, <1>3, <1>4, <1>6, <3>1, <4>1, <4>3, StoreAfter
        <4> QED
          BY <4>2, <4>4, StoreAhead
      <3>2. CASE ~(k \in Plan[t].keys /\ NodeOf[k] \notin C)
        <4>1. t \notin Ahead(k, Plan, co, committed) /\ t \notin Ahead(k, Plan, co', committed')
          BY <1>6, <3>2 DEF Ahead
        <4>2. db'[k] = db[k]
          BY <1>1, <1>2, <3>2 DEF ExecPart, At
        <4> QED
          BY <1>3, <1>6, <4>1, <4>2, StoreKept
      <3> QED
        BY <3>1, <3>2
    <2>2. Store' = Store
      <3>1. Store = [k \in Key |-> Store[k]]
        BY DEF Store, StoreIn
      <3> QED
        BY <2>1, <3>1, StoreSame
    <2>3. ASSUME NEW u \in Client
          PROVE  Told(Plan[u], co'[u].out, CommitsOf(u, committed'), got'[u], db') = Result[u]
      <3>1. CASE u = t
        <4>1. ASSUME Plan[t].op = "mget", NEW k \in Plan[t].keys
              PROVE  (IF NodeOf[k] \in C \union {n} THEN got'[t][k] ELSE db'[k])
                     = (IF NodeOf[k] \in C THEN got[t][k] ELSE db[k])
          <5>1. k \in Key
            BY Plans
          <5>2. CASE NodeOf[k] = n
            BY <1>1, <1>2, <5>1, <5>2 DEF ReadAlso, At, TccType
          <5>3. CASE NodeOf[k] # n
            BY <1>2, <5>1, <5>3 DEF ReadAlso, At, ExecPart, TccType
          <5> QED
            BY <5>2, <5>3
        <4>2. C \union {n} # {}
          OBVIOUS
        <4> QED
          BY <1>3, <1>4, <1>6, <1>9, <3>1, <4>1, <4>2, ZenonT(60) DEF Told, Result
      <3>2. CASE u # t
        <4>1. got'[u] = got[u] /\ co'[u] = co[u] /\ CommitsOf(u, committed') = CommitsOf(u, committed)
          BY <1>2, <1>3, <1>6, <3>2 DEF TccType
        <4> QED
          BY <1>1, <1>2, <3>2, <4>1, ToldOthers DEF Result
      <3> QED
        BY <3>1, <3>2
    <2>4. Result' = Result
      BY <2>3, StoreNext DEF Result
    <2> QED
      BY <2>2, <2>4, StoreNext
  <1> QED
    BY <1>8, <1>9

\* A command is refused when its coordinator decides to roll back.
LEMMA RollbackRefuses ==
    ASSUME TccType, Orderly, Clean, TwoPhase, scene' = scene, NEW t \in Client, Rollback(t), co[t].reply = "err",
           co[t].phase # "rollback", UNCHANGED <<db, committed, got>>
    PROVE  Abstract!Refuse(t)
  <1> DEFINE c == [co[t] EXCEPT !.phase = "rollback", !.left = RollbackNodes(t), !.wait = "", !.reply = "",
                                !.out = "err"]
             C == CommitsOf(t, committed)
  <1>1. co'[t] = c /\ \A u \in Client : u # t => co'[u] = co[u]
    BY RollbackType, Changed
  <1>2. c.out = "err"
    BY DEF TccType, Coordinator
  <1>3. C = {} /\ co[t].out # "err"
    <2>1. Staged(Plan[t], co[t], LocksOf(t, held), C)
      BY DEF TwoPhase
    <2>2. co[t].phase \in {"prepare", "commit"}
      BY DEF Orderly, InPhase
    <2> HIDE DEF C
    <2> QED
      BY <2>1, <2>2 DEF Staged
  <1> HIDE DEF c
  <1>4. Store' = Store
    BY <1>1, <1>3, StoreStays
  <1>5. Result[t] = Abstract!Nothing
    BY <1>3 DEF Result, Told, Abstract!Nothing
  <1>6. Result' = [Result EXCEPT ![t] = Abstract!Refused]
    BY <1>1, <1>2, StoreNext DEF Result, Told, Abstract!Refused
  <1> QED
    BY <1>4, <1>5, <1>6, StoreNext DEF Abstract!Refuse

\* Of the replies a coordinator receives, only an error is seen.
LEMMA ReceiveSeen ==
    ASSUME TccType, Orderly, Exact, Clean, TwoPhase, scene' = scene, NEW t \in Client, Receive(t)
    PROVE  Abstract!Refuse(t) \/ UNCHANGED <<Plan, Store, Result>>
  <1> DEFINE f == Free(co[t])
             C == CommitsOf(t, committed)
  <1>1. UNCHANGED <<db, committed, got>> /\ co[t].reply # ""
    BY DEF Receive
  <1>2. f \in Coordinator
    <2>1. co[t] \in Coordinator
      BY DEF TccType
    <2> QED
      BY <2>1, Zenon DEF Coordinator, Free
  <1>3. f.phase = co[t].phase /\ f.out = co[t].out /\ f.dump = co[t].dump
    BY DEF TccType, Coordinator, Free
  <1>4. co[t].phase # "rollback" /\ co[t].reply = "err" /\ Rollback(t) => Abstract!Refuse(t)
    BY <1>1, RollbackRefuses
  <1>5. ASSUME NEW c, Becomes(t, c), c.out = "err" <=> co[t].out = "err",
               C \in {{}, Nodes(Plan[t])} \/ (c.phase = co[t].phase /\ c.dump = co[t].dump)
        PROVE  UNCHANGED <<Plan, Store, Result>>
    <2>1. co'[t] = c /\ \A u \in Client : u # t => co'[u] = co[u]
      BY <1>5, Changed
    <2> QED
      BY <1>1, <1>5, <2>1, Unseen
  <1>6. Staged(Plan[t], co[t], LocksOf(t, held), C)
    BY DEF TwoPhase
  <1>7. co[t].phase \in {"prepare", "rollback"} => C = {}
    <2> HIDE DEF C
    <2> QED
      BY <1>6 DEF Staged
  <1>8. co[t].phase = "commit" => co[t].out # "err"
    <2> HIDE DEF C
    <2> QED
      BY <1>6 DEF Staged
  <1>9. co[t].phase = "commit" /\ co[t].left = {} => C = Nodes(Plan[t])
    BY <1>1, AllCommitted
  <1> HIDE DEF f, C
  <1>10. /\ [f EXCEPT !.phase = "commit", !.left = Nodes(Plan[t])].out = co[t].out
         /\ [f EXCEPT !.phase = "done", !.out = "ok"].out = "ok"
         /\ [f EXCEPT !.phase = "done"].out = co[t].out
    BY <1>2, <1>3 DEF Coordinator
  <1>11. Becomes(t, f) => UNCHANGED <<Plan, Store, Result>>
    BY <1>3, <1>5
  <1>12. co[t].phase = "prepare" /\ Becomes(t, [f EXCEPT !.phase = "commit", !.left = Nodes(Plan[t])]) =>
           UNCHANGED <<Plan, Store, Result>>
    BY <1>5, <1>7, <1>10
  <1>13. co[t].phase = "commit" /\ co[t].left = {} /\ Becomes(t, [f EXCEPT !.phase = "done", !.out = "ok"]) =>
           UNCHANGED <<Plan, Store, Result>>
    BY <1>5, <1>8, <1>9, <1>10
  <1>14. co[t].phase = "rollback" /\ Becomes(t, [f EXCEPT !.phase = "done"]) => UNCHANGED <<Plan, Store, Result>>
    BY <1>5, <1>7, <1>10
  <1> QED
    BY <1>4, <1>11, <1>12, <1>13, <1>14, ReceiveType DEF f

\* Nothing is seen of a command that starts.
LEMMA StartSeen ==
    ASSUME TccType, Clean, TwoPhase, scene' = scene, NEW t \in Client, Start(t)
    PROVE  UNCHANGED <<Plan, Store, Result>>
  <1> DEFINE c == [co[t] EXCEPT !.phase = "prepare", !.left = Nodes(Plan[t])]
             C == CommitsOf(t, committed)
  <1>1. co'[t] = c /\ \A u \in Client : u # t => co'[u] = co[u]
    BY StartType, Changed
  <1>2. c.out = co[t].out
    BY DEF TccType, Coordinator
  <1>3. UNCHANGED <<db, committed, got>> /\ co[t].phase = "new"
    BY DEF Start
  <1>4. Staged(Plan[t], co[t], LocksOf(t, held), C)
    BY DEF TwoPhase
  <1>5. C = {}
    <2> HIDE DEF C
    <2> QED
      BY <1>3, <1>4 DEF Staged
  <1> HIDE DEF c
  <1> QED
    BY <1>1, <1>2, <1>3, <1>5, Unseen

\* Nor of a request that is sent.
LEMMA SendSeen ==
    ASSUME TccType, Clean, TwoPhase, scene' = scene, NEW t \in Client, NEW n \in Node, Send(t, n)
    PROVE  UNCHANGED <<Plan, Store, Result>>
  <1> DEFINE c == [co[t] EXCEPT !.wait = n, !.left = co[t].left \ {n}]
  <1>1. co'[t] = c /\ \A u \in Client : u # t => co'[u] = co[u]
    BY SendType, Changed
  <1>2. c.out = co[t].out /\ c.phase = co[t].phase /\ c.dump = co[t].dump
    BY DEF TccType, Coordinator
  <1>3. UNCHANGED <<db, committed, got>>
    BY DEF Send
  <1> HIDE DEF c
  <1> QED
    BY <1>1, <1>2, <1>3, Unseen

\* The answer of a prepare or of a rollback.
LEMMA AnswerSeen ==
    ASSUME TccType, Clean, TwoPhase, scene' = scene, NEW t \in Client, NEW n \in Node,
           NEW what \in {"prepare", "rollback"}, NEW ok \in BOOLEAN, NEW val \in Value,
           Answer(t, n, what, ok, val), UNCHANGED <<db, committed, got>>
    PROVE  UNCHANGED <<Plan, Store, Result>>
  <1> DEFINE c == Replied(t, ok, val)
             C == CommitsOf(t, committed)
  <1>1. c.out = co[t].out
    BY DEF TccType, Replied, Coordinator
  <1>2. Staged(Plan[t], co[t], LocksOf(t, held), C)
    BY DEF TwoPhase
  <1>3. CASE co[t].phase = what /\ co[t].wait = n
    <2>1. C = {}
      <3> HIDE DEF C
      <3> QED
        BY <1>2, <1>3 DEF Staged
    <2>2. Becomes(t, c)
      BY <1>3, AnswerType
    <2> HIDE DEF c
    <2>3. co'[t] = c /\ \A u \in Client : u # t => co'[u] = co[u]
      BY <2>2, Changed
    <2> QED
      BY <1>1, <2>1, <2>3, Unseen
  <1>4. CASE ~(co[t].phase = what /\ co[t].wait = n)
    <2>1. co' = co
      BY <1>4, AnswerType
    <2> QED
      BY <2>1, Unseen
  <1> QED
    BY <1>3, <1>4

\* Every step of a clean scene performs a command, refuses one, or is not seen.
LEMMA StepSeen ==
    ASSUME TccType, Orderly, Exact, Clean, TwoPhase, Next
    PROVE  [Abstract!Next]_<<Plan, Store, Result>>
  <1>1. PICK t \in Client : Serve(t) \/ Timeout(t) \/ \E n \in Node : Forget(t, n)
    BY DEF Next
  <1>2. scene' = scene
    BY DEF Next
  <1>3. ~Timeout(t)
    <2>1. timeouts \in Nat
      BY DEF TccType
    <2>2. ~(timeouts < MaxTimeouts)
      BY <2>1 DEF Clean
    <2> QED
      BY <2>2 DEF Timeout
  <1>4. Absent \in Value
    BY DEF Value
  <1>5. ASSUME NEW n \in Node, PrepareCreate(t, n) \/ Forget(t, n) PROVE UNCHANGED <<Plan, Store, Result>>
    <2>1. UNCHANGED <<co, db, committed, got>>
      BY <1>5 DEF PrepareCreate, Forget
    <2> QED
      BY <1>2, <2>1, Unseen
  <1>6. ASSUME NEW n \in Node, PrepareLock(t, n) PROVE UNCHANGED <<Plan, Store, Result>>
    <2> DEFINE fails == PrepareFails(Plan[t], n)
               val == IF IsRename(Plan[t]) /\ n = NodeOf[Plan[t].src] THEN db[Plan[t].src] ELSE Absent
    <2>1. fails \in BOOLEAN /\ val \in Value /\ Answer(t, n, "prepare", ~fails, val)
      BY <1>6, PrepareLockType
    <2>2. UNCHANGED <<db, committed, got>>
      BY <1>6 DEF PrepareLock
    <2>3. (~fails) \in BOOLEAN
      BY Zenon
    <2> HIDE DEF fails, val
    <2> QED
      BY <1>2, <2>1, <2>2, <2>3, AnswerSeen
  <1>7. ASSUME NEW n \in Node, execRollback(t, n) PROVE UNCHANGED <<Plan, Store, Result>>
    <2>1. UNCHANGED <<db, committed, got>>
      BY <1>7, execRollbackStage DEF execRollback
    <2>2. CASE co' = co
      BY <1>2, <2>1, <2>2, Unseen
    <2>3. CASE \E ok \in BOOLEAN : Answer(t, n, "rollback", ok, Absent)
      BY <1>2, <1>4, <2>1, <2>3, AnswerSeen
    <2> QED
      BY <1>7, <2>2, <2>3 DEF execRollback
  <1>8. ASSUME NEW n \in Node, RollbackLock(t, n) PROVE UNCHANGED <<Plan, Store, Result>>
    <2>1. UNCHANGED <<db, committed, got>> /\ Answer(t, n, "rollback", TRUE, Absent)
      BY <1>8, RollbackLockStage DEF RollbackLock
    <2> QED
      BY <1>2, <1>4, <2>1, AnswerSeen
  <1>9. Abstract!Perform(t) \/ Abstract!Refuse(t) \/ UNCHANGED <<Plan, Store, Result>>
    BY <1>1, <1>2, <1>3, <1>5, <1>6, <1>7, <1>8, LocalPerforms, StartSeen, ReceiveSeen, SendSeen, CommitPerforms
       DEF Serve
  <1> QED
    BY <1>9 DEF Abstract!Next

\* The initial state maps to an initial state.
LEMMA InitSeen ==
    ASSUME Init
    PROVE  Abstract!Init
  <1>1. \A t \in Client : co[t].phase = "new" /\ co[t].out = "" /\ CommitsOf(t, committed) = {}
    BY DEF Init, CommitsOf
  <1>2. ASSUME NEW k \in Key PROVE Store[k] \in {0, Absent}
    <2>1. Ahead(k, Plan, co, committed) = {}
      BY <1>1 DEF Ahead
    <2>2. Store[k] = db[k]
      BY <2>1, StoreIs
    <2> QED
      BY <2>2 DEF Init
  <1>3. Store \in [Key -> {0, Absent}]
    <2>1. Store = [k \in Key |-> Store[k]]
      BY DEF Store, StoreIn
    <2> QED
      BY <1>2, <2>1
  <1>4. Result = [t \in Client |-> Abstract!Nothing]
    BY <1>1 DEF Result, Told, Abstract!Nothing
  <1> QED
    BY <1>3, <1>4 DEF Abstract!Init

\* Initially there is nothing to agree on.
LEMMA InitTwoPhase == ASSUME Init PROVE TwoPhase
  <1>1. \A t \in Client : /\ co[t].phase = "new" /\ co[t].out = ""
                          /\ CommitsOf(t, committed) = {} /\ LocksOf(t, held) = {}
    BY DEF Init, CommitsOf, LocksOf
  <1>2. \A t \in Client : Staged(Plan[t], co[t], LocksOf(t, held), CommitsOf(t, committed))
    BY <1>1 DEF Staged
  <1>3. \A t \in Client : Sourced(Plan[t], co[t], LocksOf(t, held), UndosOf(t, txs), db)
    <2>1. TccType
      BY InitType
    <2>2. \A t \in Client, n \in Node : txs[n][t].undo = NoLogs
      BY DEF Init, NoTx
    <2>3. \A t \in Client : IsRename(Plan[t]) => NodeOf[Plan[t].src] \in Node
      BY <2>1, Plans, Homes
    <2> QED
      BY <1>1, <2>2, <2>3 DEF Sourced, UndosOf
  <1>4. Compatible
    BY DEF Init, Compatible
  <1> QED
    BY <1>2, <1>3, <1>4 DEF TwoPhase

\* For any nodes, keys and clients: as long as no coordinator stops waiting, MSET, MGET,
\* DEL and RENAME over several nodes are atomic ("atomically executed in cluster mode",
\* README.md), if no key that a RENAME removes is read by another command: a command
\* takes effect at its first commit, on all its keys, or is refused and changes nothing.
THEOREM CleanIsAtomic == Spec /\ Clean => ClusterAtomic
  <1> DEFINE I == TccInv /\ Clean /\ timeouts = 0 /\ TwoPhase
  <1>1. Init /\ Clean => I
    BY InitInv, InitTwoPhase DEF Init
  <1>2. I /\ [Next]_vars => I'
    <2>1. ASSUME I, Next PROVE I'
      <3>1. TccType /\ Orderly /\ Exact
        BY <2>1 DEF TccInv, Punctual
      <3>2. Plan' = Plan /\ MaxTimeouts' = MaxTimeouts
        BY <2>1 DEF Next, Plan, MaxTimeouts
      <3>3. Clean'
        BY <2>1, <3>2 DEF Clean, IsRename, ReadKeys, WriteKeys, At, Sets
      <3>4. timeouts' = 0
        <4>1. PICK t \in Client : Serve(t) \/ Timeout(t) \/ \E n \in Node : Forget(t, n)
          BY <2>1 DEF Next
        <4>2. ~Timeout(t)
          BY <2>1 DEF Timeout, Clean
        <4> QED
          BY <2>1, <4>1, <4>2 DEF Serve, Local, Start, Receive, Send, PrepareCreate, PrepareLock, execCommit,
             execRollback, RollbackLock, Forget
      <3> QED
        BY <2>1, <3>1, <3>3, <3>4, NextInv, TwoPhaseStep
    <2>2. ASSUME I, UNCHANGED vars PROVE I'
      <3>1. /\ scene' = scene /\ db' = db /\ txs' = txs /\ held' = held /\ co' = co /\ timeouts' = timeouts
            /\ committed' = committed
        BY <2>2 DEF vars
      <3>2. Plan' = Plan /\ MaxTimeouts' = MaxTimeouts
        BY <3>1 DEF Plan, MaxTimeouts
      <3>3. Clean'
        BY <2>2, <3>2 DEF Clean, IsRename, ReadKeys, WriteKeys, At, Sets
      <3>4. CompatibleNext /\ \A u \in Client : StageNext(u)
        BY <2>2, <3>1 DEF CompatibleNext, StageNext, TwoPhase, Compatible
      <3> QED
        BY <2>2, <3>1, <3>3, <3>4, StutterInv, TwoPhaseNext
    <2> QED
      BY <2>1, <2>2
  <1>3. Init => Abstract!Init
    BY InitSeen
  <1>4. I /\ [Next]_vars => [Abstract!Next]_<<Plan, Store, Result>>
    <2>1. ASSUME I, Next PROVE [Abstract!Next]_<<Plan, Store, Result>>
      BY <2>1, StepSeen DEF TccInv, Punctual
    <2>2. ASSUME UNCHANGED vars PROVE UNCHANGED <<Plan, Store, Result>>
      BY <2>2 DEF vars, Plan, Store, Result
    <2> QED
      BY <2>1, <2>2
  <1> QED
    BY <1>1, <1>2, <1>3, <1>4, PTL DEF Spec, ClusterAtomic, Abstract!Spec
=============================================================================
