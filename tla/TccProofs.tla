----------------------------- MODULE TccProofs -----------------------------
(***************************************************************************)
(* Proofs about commands over several nodes (Tcc), for any nodes, keys,    *)
(* clients and commands.                                                   *)
(*                                                                         *)
(*   LocksAreReleased: Spec => []LocksReleased.  The strengthening TccInv   *)
(*   says who holds locks when: from the prepare of a node to the commit   *)
(*   or rollback there, as long as nobody has stopped waiting.             *)
(*                                                                         *)
(* For each action there is a lemma on what it makes of the coordinator    *)
(* and the record (...Type) and one that it preserves Exact (...Exact).    *)
(***************************************************************************)
EXTENDS Tcc, TLAPS

\* Keys live on nodes, and no node is called "", which stands for no node.
LEMMA Homes == NodeOf \in [Key -> Node] /\ "" \notin Node
  BY TccAssumption

\* The commands of a scene.
LEMMA Plans ==
    ASSUME TccType, NEW t \in Client
    PROVE  /\ Plan[t] \in Command /\ Plan[t].keys \subseteq Key /\ Plan[t].val \in Int
           /\ Nodes(Plan[t]) \subseteq Node /\ "" \notin Nodes(Plan[t])
           /\ IsRename(Plan[t]) => NodeOf[Plan[t].src] \in Nodes(Plan[t])
           /\ IsRename(Plan[t]) => /\ Plan[t].src \in Key /\ Plan[t].dst \in Key
                                   /\ Plan[t].keys = {Plan[t].src, Plan[t].dst}
                                   /\ NodeOf[Plan[t].src] # NodeOf[Plan[t].dst]
  <1>1. Plan[t] \in Command
    BY TccAssumption DEF TccType, Plan
  <1>2. Plan[t].keys \subseteq Key /\ Plan[t].val \in Int
    BY <1>1 DEF Command
  <1>3. Nodes(Plan[t]) \subseteq Node /\ "" \notin Nodes(Plan[t])
    BY <1>2, Homes DEF Nodes
  <1>4. IsRename(Plan[t]) => /\ Plan[t].src \in Key /\ Plan[t].dst \in Key
                             /\ Plan[t].keys = {Plan[t].src, Plan[t].dst}
                             /\ NodeOf[Plan[t].src] # NodeOf[Plan[t].dst]
    BY TccAssumption DEF TccType, Plan
  <1>5. IsRename(Plan[t]) => NodeOf[Plan[t].src] \in Nodes(Plan[t])
    BY <1>4 DEF Nodes
  <1> QED
    BY <1>1, <1>2, <1>3, <1>4, <1>5

\* The initial state is well-typed.
LEMMA InitType == ASSUME Init PROVE TccType
  <1>1. Absent \in Value
    BY DEF Value
  <1>2. NoTx \in Tx
    BY DEF NoTx, NoLogs, Tx
  <1>3. [phase |-> "new", wait |-> "", left |-> {}, reply |-> "", dump |-> Absent, out |-> ""] \in Coordinator
    BY <1>1 DEF Coordinator
  <1> QED
    <2>1. db \in [Key -> Value] /\ got \in [Client -> [Key -> Value]]
      <3>1. 0 \in Value
        BY DEF Value
      <3> QED
        BY <1>1, <3>1 DEF Init
    <2>2. txs \in [Node -> [Client -> Tx]] /\ co \in [Client -> Coordinator]
      BY <1>2, <1>3 DEF Init
    <2> QED
      BY <2>1, <2>2 DEF Init, TccType

\* Coordinators

\* The coordinator of t becomes c.
Becomes(t, c) == c \in Coordinator /\ co' = [co EXCEPT ![t] = c]

\* What each step makes of its coordinator, as one record: Local ends the command.
LEMMA LocalType ==
    ASSUME TccType, NEW t \in Client, Local(t)
    PROVE  Becomes(t, [co[t] EXCEPT !.phase = "done", !.out = "ok"])
  BY DEF Local, TccType, Coordinator, Becomes

\* Start has all nodes of the command to prepare.
LEMMA StartType ==
    ASSUME TccType, NEW t \in Client, Start(t)
    PROVE  Becomes(t, [co[t] EXCEPT !.phase = "prepare", !.left = Nodes(Plan[t])])
  BY Plans, ZenonT(60) DEF Start, TccType, Coordinator, Becomes

\* Send waits for one of them.
LEMMA SendType ==
    ASSUME TccType, NEW t \in Client, NEW n \in Node, Send(t, n)
    PROVE  Becomes(t, [co[t] EXCEPT !.wait = n, !.left = co[t].left \ {n}])
  <1> DEFINE c == [co[t] EXCEPT !.wait = n, !.left = co[t].left \ {n}]
  <1>1. co[t] \in Coordinator
    BY DEF TccType
  <1>2. co[t].left \ {n} \in SUBSET Node
    BY <1>1 DEF Coordinator
  <1>3. c \in Coordinator
    BY <1>1, <1>2, Zenon DEF Coordinator
  <1>4. co' = [co EXCEPT ![t] = c]
    BY <1>1 DEF TccType, Send
  <1> QED
    BY <1>3, <1>4 DEF Becomes

RollbackNodes(t) ==
    LET src == NodeOf[Plan[t].src]
    IN  IF IsRename(Plan[t]) /\ co[t].phase = "prepare" /\ co[t].wait = src THEN {src} ELSE Nodes(Plan[t])

\* An error makes the coordinator go to the nodes to be rolled back.
LEMMA RollbackType ==
    ASSUME TccType, NEW t \in Client, Rollback(t)
    PROVE  Becomes(t, [co[t] EXCEPT !.phase = "rollback", !.left = RollbackNodes(t), !.wait = "", !.reply = "",
                                    !.out = "err"])
  <1>1. RollbackNodes(t) \in SUBSET Node
    BY Plans, Homes DEF RollbackNodes
  <1> DEFINE c == [co[t] EXCEPT !.phase = "rollback", !.left = RollbackNodes(t), !.wait = "", !.reply = "",
                                !.out = "err"]
  <1>2. co[t] \in Coordinator
    BY DEF TccType
  <1>3. c \in Coordinator
    BY <1>1, <1>2, Zenon DEF Coordinator
  <1>4. co' = [co EXCEPT ![t] = c]
    BY <1>2 DEF TccType, Rollback, RollbackNodes
  <1> QED
    BY <1>3, <1>4 DEF Becomes

Free(c) == [c EXCEPT !.wait = "", !.reply = ""]

\* A reply is an error to roll back for, or goes on in the phase, or ends it.
LEMMA ReceiveType ==
    ASSUME TccType, Orderly, NEW t \in Client, Receive(t)
    PROVE  \/ co[t].phase # "rollback" /\ co[t].reply = "err" /\ Rollback(t)
           \/ /\ co[t].phase = "rollback" \/ co[t].reply # "err"
              /\ \/ co[t].left # {} /\ Becomes(t, Free(co[t]))
                 \/ /\ co[t].left = {} /\ co[t].phase = "prepare"
                    /\ Becomes(t, [Free(co[t]) EXCEPT !.phase = "commit", !.left = Nodes(Plan[t])])
                 \/ /\ co[t].left = {} /\ co[t].phase = "commit"
                    /\ Becomes(t, [Free(co[t]) EXCEPT !.phase = "done", !.out = "ok"])
                 \/ /\ co[t].left = {} /\ co[t].phase = "rollback"
                    /\ Becomes(t, [Free(co[t]) EXCEPT !.phase = "done"])
  <1>1. co[t] \in Coordinator /\ Nodes(Plan[t]) \in SUBSET Node
    BY Plans DEF TccType
  <1>2. Free(co[t]) \in Coordinator
    BY <1>1, Zenon DEF Coordinator, Free
  <1>3. co[t].phase \in {"prepare", "commit", "rollback"}
    BY DEF Receive, Orderly, InPhase
  <1>4. /\ [Free(co[t]) EXCEPT !.phase = "commit", !.left = Nodes(Plan[t])] \in Coordinator
        /\ [Free(co[t]) EXCEPT !.phase = "done", !.out = "ok"] \in Coordinator
        /\ [Free(co[t]) EXCEPT !.phase = "done"] \in Coordinator
    BY <1>1, <1>2, Zenon DEF Coordinator
  <1>5. Free(co[t]).left = co[t].left /\ Free(co[t]).phase = co[t].phase
    BY <1>1 DEF Free, Coordinator
  <1>6. ASSUME ~(co[t].phase # "rollback" /\ co[t].reply = "err")
        PROVE  co' = [co EXCEPT ![t] =
                  LET c == Free(@)
                  IN  IF c.left # {} THEN c
                      ELSE CASE c.phase = "prepare" -> [c EXCEPT !.phase = "commit", !.left = Nodes(Plan[t])]
                             [] c.phase = "commit" -> [c EXCEPT !.phase = "done", !.out = "ok"]
                             [] c.phase = "rollback" -> [c EXCEPT !.phase = "done"]]
    BY <1>6, Zenon DEF Receive, Free
  <1>7. ASSUME ~(co[t].phase # "rollback" /\ co[t].reply = "err"), co[t].left # {}
        PROVE  co' = [co EXCEPT ![t] = Free(co[t])]
    BY <1>6, <1>7, <1>5
  <1>8. ASSUME ~(co[t].phase # "rollback" /\ co[t].reply = "err"), co[t].left = {}
        PROVE  /\ co[t].phase = "prepare" => co' = [co EXCEPT ![t] = [Free(co[t]) EXCEPT !.phase = "commit", !.left = Nodes(Plan[t])]]
               /\ co[t].phase = "commit" => co' = [co EXCEPT ![t] = [Free(co[t]) EXCEPT !.phase = "done", !.out = "ok"]]
               /\ co[t].phase = "rollback" => co' = [co EXCEPT ![t] = [Free(co[t]) EXCEPT !.phase = "done"]]
    BY <1>6, <1>8, <1>5
  <1>9. co[t].phase # "rollback" /\ co[t].reply = "err" => Rollback(t)
    BY DEF Receive
  <1> QED
    BY <1>2, <1>3, <1>4, <1>7, <1>8, <1>9 DEF Becomes

\* The coordinator of t gets a reply, and may get a dump.
Replied(t, ok, val) == [co[t] EXCEPT !.reply = IF ok THEN "ok" ELSE "err", !.dump = IF val = Absent THEN co[t].dump ELSE val]

\* An answer reaches the coordinator that waits for it, and no other.
LEMMA AnswerType ==
    ASSUME TccType, NEW t \in Client, NEW n \in Node, NEW what, NEW ok \in BOOLEAN, NEW val \in Value,
           Answer(t, n, what, ok, val)
    PROVE  IF co[t].phase = what /\ co[t].wait = n THEN Becomes(t, Replied(t, ok, val)) ELSE co' = co
  <1>1. co[t] \in Coordinator
    BY DEF TccType
  <1>2. (IF val = Absent THEN co[t].dump ELSE val) \in Value /\ (IF ok THEN "ok" ELSE "err") \in {"", "ok", "err"}
    BY <1>1 DEF Coordinator
  <1>3. Replied(t, ok, val) \in Coordinator
    BY <1>1, <1>2, Zenon DEF Coordinator, Replied
  <1>4. co[t].phase = what /\ co[t].wait = n => co' = [co EXCEPT ![t] = Replied(t, ok, val)]
    BY <1>1 DEF Answer, Replied, TccType
  <1>5. ~(co[t].phase = what /\ co[t].wait = n) => co' = co
    BY DEF Answer
  <1> QED
    BY <1>3, <1>4, <1>5 DEF Becomes

\* A coordinator that stops waiting rolls back, or goes on with its rollback.
LEMMA TimeoutType ==
    ASSUME TccType, NEW t \in Client, Timeout(t)
    PROVE  /\ timeouts' = timeouts + 1
           /\ \/ co[t].phase # "rollback" /\ Rollback(t)
              \/ /\ co[t].phase = "rollback" /\ co[t].left # {}
                 /\ Becomes(t, Free(co[t]))
              \/ /\ co[t].phase = "rollback" /\ co[t].left = {}
                 /\ Becomes(t, [Free(co[t]) EXCEPT !.phase = "done"])
  <1>1. co[t] \in Coordinator
    BY DEF TccType
  <1>2. Free(co[t]) \in Coordinator
    BY <1>1, Zenon DEF Coordinator, Free
  <1>3. [Free(co[t]) EXCEPT !.phase = "done"] \in Coordinator
    BY <1>2, Zenon DEF Coordinator
  <1>4. ASSUME co[t].phase = "rollback", co[t].left # {} PROVE co' = [co EXCEPT ![t] = Free(co[t])]
    <2>1. co' = [co EXCEPT ![t].wait = "", ![t].reply = "", ![t].phase = co[t].phase]
      BY <1>4, <1>1 DEF Timeout, TccType
    <2>2. [co[t] EXCEPT !.wait = "", !.reply = "", !.phase = co[t].phase] = Free(co[t])
      BY <1>1 DEF Free, Coordinator
    <2> QED
      BY <2>1, <2>2, <1>1 DEF TccType
  <1>5. co[t].phase = "rollback" /\ co[t].left = {} => co' = [co EXCEPT ![t] = [Free(co[t]) EXCEPT !.phase = "done"]]
    BY <1>1 DEF Timeout, Free, TccType, Coordinator
  <1> QED
    BY <1>2, <1>3, <1>4, <1>5 DEF Becomes, Timeout

-----------------------------------------------------------------------------
\* Records and data

\* The record of t at n becomes x.
Records(t, n, x) == x \in Tx /\ txs' = [txs EXCEPT ![n][t] = x]

\* The records of execPrepare and of a deleted transaction are well-typed.
LEMMA NewTxType == NoTx \in Tx /\ NewTx \in Tx
  BY DEF NoTx, NewTx, NoLogs, Tx

\* Undo logs hold values.
LEMMA UndoLogsType ==
    ASSUME TccType, NEW t \in Client, NEW n \in Node
    PROVE  UndoLogs(Plan[t], n) \in [Key -> Seq(Value)]
  <1>1. ASSUME NEW k \in Key PROVE <<>> \in Seq(Value) /\ <<Absent>> \in Seq(Value) /\ <<Absent, db[k]>> \in Seq(Value)
    BY DEF TccType, Value
  <1> QED
    BY <1>1 DEF UndoLogs

\* What a prepare that has its locks does to the record, and what it answers.
LEMMA PrepareLockType ==
    ASSUME TccType, NEW t \in Client, NEW n \in Node, PrepareLock(t, n)
    PROVE  LET fails == PrepareFails(Plan[t], n)
               val == IF IsRename(Plan[t]) /\ n = NodeOf[Plan[t].src] THEN db[Plan[t].src] ELSE Absent
           IN  /\ fails \in BOOLEAN /\ val \in Value
               /\ Answer(t, n, "prepare", ~fails, val)
               /\ IF txs[n][t] = NoTx THEN txs' = txs
                  ELSE Records(t, n, [txs[n][t] EXCEPT !.undo = UndoLogs(Plan[t], n), !.hasLock = ~fails])
  <1> DEFINE fails == PrepareFails(Plan[t], n)
             val == IF IsRename(Plan[t]) /\ n = NodeOf[Plan[t].src] THEN db[Plan[t].src] ELSE Absent
             x == [txs[n][t] EXCEPT !.undo = UndoLogs(Plan[t], n), !.hasLock = ~fails]
  <1>1. fails \in BOOLEAN
    BY DEF PrepareFails
  <1>2. val \in Value
    BY Plans DEF TccType, Value
  <1>3. x \in Tx
    <2>1. txs[n][t] \in Tx
      BY DEF TccType
    <2> HIDE DEF fails
    <2>2. (~fails) \in BOOLEAN
      OBVIOUS
    <2> QED
      BY <2>1, <2>2, UndoLogsType, Zenon DEF Tx
  <1>4. txs[n][t] # NoTx => txs' = [txs EXCEPT ![n][t] = x]
    <2>1. txs[n][t] \in Tx
      BY DEF TccType
    <2> QED
      BY <2>1 DEF PrepareLock, TccType
  <1>5. txs[n][t] = NoTx => txs' = txs
    BY DEF PrepareLock
  <1>6. Answer(t, n, "prepare", ~fails, val)
    BY DEF PrepareLock
  <1> QED
    BY <1>1, <1>2, <1>3, <1>4, <1>5, <1>6, Zenon DEF Records

\* What a command leaves at a key is a value.
LEMMA NewValueType ==
    ASSUME TccType, NEW t \in Client, NEW k \in Key
    PROVE  NewValue(t, k) \in Value
  <1>1. Plan[t].val \in Value /\ Absent \in Value /\ db[k] \in Value /\ co[t].dump \in Value
    BY Plans DEF TccType, Value, Coordinator
  <1> QED
    BY <1>1 DEF NewValue, Outcome

\* The data after a node has executed its part.
LEMMA ExecPartType ==
    ASSUME TccType, NEW t \in Client, NEW n \in Node
    PROVE  ExecPart(t, n) \in [Key -> Value]
  BY NewValueType DEF ExecPart, TccType

\* The data after undo logs have run.
LEMMA ApplyType ==
    ASSUME NEW d \in [Key -> Value], NEW u \in [Key -> Seq(Value)]
    PROVE  Apply(d, u) \in [Key -> Value]
  BY DEF Apply

\* A rollback leaves well-typed data and deletes the record.
LEMMA UndoType ==
    ASSUME TccType, NEW t \in Client, NEW n \in Node, Undo(t, n)
    PROVE  db' \in [Key -> Value] /\ Records(t, n, NoTx)
  <1>1. txs[n][t].undo \in [Key -> Seq(Value)]
    BY DEF TccType, Tx
  <1> QED
    BY <1>1, ApplyType, NewTxType DEF Undo, Records, TccType

\* What a commit does to the record, the data and the history.
LEMMA execCommitType ==
    ASSUME TccType, NEW t \in Client, NEW n \in Node, execCommit(t, n)
    PROVE  IF txs[n][t] = NoTx THEN db' = db /\ txs' = txs /\ held' = held /\ committed' = committed /\ got' = got
           ELSE /\ Records(t, n, [txs[n][t] EXCEPT !.hasLock = FALSE])
                /\ db' \in [Key -> Value]
                /\ got' \in [Client -> [Key -> Value]]
  <1>1. txs[n][t] \in Tx
    BY DEF TccType
  <1>2. [txs[n][t] EXCEPT !.hasLock = FALSE] \in Tx
    BY <1>1 DEF Tx
  <1>3. ReadAlso(got[t], At(Plan[t], n)) \in [Key -> Value]
    BY DEF ReadAlso, TccType
  <1>4. CASE txs[n][t] = NoTx
    BY <1>4 DEF execCommit
  <1>5. CASE txs[n][t] # NoTx
    <2>1. txs' = [txs EXCEPT ![n][t] = [txs[n][t] EXCEPT !.hasLock = FALSE]]
      BY <1>5, <1>1 DEF execCommit, TccType
    <2>2. db' \in [Key -> Value]
      BY <1>5, ExecPartType DEF execCommit
    <2>3. got' = [got EXCEPT ![t] = ReadAlso(got[t], At(Plan[t], n))]
      BY <1>5 DEF execCommit, TccType
    <2>4. got' \in [Client -> [Key -> Value]]
      BY <2>3, <1>3 DEF TccType
    <2> QED
      BY <1>2, <1>5, <2>1, <2>2, <2>4 DEF Records
  <1> QED
    BY <1>4, <1>5

\* The coordinators when that of t becomes c.
LEMMA Changed ==
    ASSUME TccType, NEW t \in Client, NEW c, Becomes(t, c)
    PROVE  /\ co' \in [Client -> Coordinator] /\ co'[t] = c
           /\ \A u \in Client : u # t => co'[u] = co[u]
  BY DEF TccType, Becomes

\* The records when that of t at n becomes x.
LEMMA ChangedRecord ==
    ASSUME TccType, NEW t \in Client, NEW n \in Node, NEW x, Records(t, n, x)
    PROVE  /\ txs' \in [Node -> [Client -> Tx]] /\ txs'[n][t] = x
           /\ \A m \in Node, u \in Client : m # n \/ u # t => txs'[m][u] = txs[m][u]
  BY DEF TccType, Records

\* What a step that answers does to the coordinators.
LEMMA Answered ==
    ASSUME TccType, NEW t \in Client, NEW n \in Node, NEW what, NEW ok \in BOOLEAN, NEW val \in Value,
           Answer(t, n, what, ok, val)
    PROVE  co' \in [Client -> Coordinator]
  <1>1. CASE co[t].phase = what /\ co[t].wait = n
    BY <1>1, AnswerType, Changed
  <1>2. CASE ~(co[t].phase = what /\ co[t].wait = n)
    BY <1>2, AnswerType DEF TccType
  <1> QED
    BY <1>1, <1>2

\* Every step preserves the types.
LEMMA NextType ==
    ASSUME TccType, Orderly, Next
    PROVE  TccType'
  <1>1. PICK t \in Client : Serve(t) \/ Timeout(t) \/ \E n \in Node : Forget(t, n)
    BY DEF Next
  <1>2. scene' = scene
    BY DEF Next
  <1> DEFINE Req == [tx : Client, node : Node, what : {"prepare", "locking", "commit", "rollback", "relocking"}]
  <1>3. ASSUME NEW n \in Node, NEW what \in {"prepare", "locking", "commit", "rollback", "relocking"}
        PROVE  Request(t, n, what) \in Req
    BY DEF Request
  <1>4. ASSUME NEW n \in Node PROVE [tx |-> t, node |-> n, by |-> "prepare"] \in Lock
    BY DEF Lock
  <1>5. Absent \in Value /\ TRUE \in BOOLEAN /\ FALSE \in BOOLEAN
    BY DEF Value
  <1>6. ASSUME NEW n \in Node PROVE (txs[n][t] # NoTx) \in BOOLEAN
    OBVIOUS
  <1>7. CASE Local(t)
    <2>1. co' \in [Client -> Coordinator]
      BY <1>7, LocalType, Changed
    <2>2. PICK n \in Node : db' = ExecPart(t, n) /\ committed' = committed \union {<<t, n>>}
      BY <1>7 DEF Local
    <2>3. db' \in [Key -> Value] /\ committed' \subseteq Client \X Node
      BY <2>2, ExecPartType DEF TccType
    <2>4. ReadAlso(got[t], Plan[t].keys) \in [Key -> Value]
      BY DEF ReadAlso, TccType
    <2>5. got' \in [Client -> [Key -> Value]]
      BY <1>7, <2>4 DEF Local, TccType
    <2> QED
      BY <1>2, <1>7, <2>1, <2>3, <2>5 DEF Local, TccType
  <1>8. CASE Start(t)
    <2>1. co' \in [Client -> Coordinator]
      BY <1>8, StartType, Changed
    <2> QED
      BY <1>2, <1>8, <2>1 DEF Start, TccType
  <1>9. CASE Receive(t)
    <2>1. co' \in [Client -> Coordinator]
      BY <1>9, ReceiveType, RollbackType, Changed
    <2> QED
      BY <1>2, <1>9, <2>1 DEF Receive, TccType
  <1>10. CASE Timeout(t)
    <2>1. co' \in [Client -> Coordinator] /\ timeouts' = timeouts + 1
      BY <1>10, TimeoutType, RollbackType, Changed
    <2>2. timeouts' \in Nat
      BY <2>1 DEF TccType
    <2>3. UNCHANGED <<db, txs, held, todo, committed, got>>
      BY <1>10 DEF Timeout
    <2> QED
      BY <1>2, <2>1, <2>2, <2>3 DEF TccType
  <1>11. ASSUME NEW n \in Node, Send(t, n) PROVE TccType'
    <2>1. co' \in [Client -> Coordinator]
      BY <1>11, SendType, Changed
    <2>2. [tx |-> t, node |-> n, what |-> co[t].phase] \in Req
      BY <1>11 DEF Send
    <2> QED
      BY <1>2, <1>11, <2>1, <2>2 DEF Send, TccType
  <1>12. ASSUME NEW n \in Node, PrepareCreate(t, n) PROVE TccType'
    <2>1. txs' \in [Node -> [Client -> Tx]]
      BY <1>12, NewTxType DEF PrepareCreate, TccType
    <2> QED
      BY <1>2, <1>3, <1>12, <2>1 DEF PrepareCreate, TccType
  <1>13. ASSUME NEW n \in Node, PrepareLock(t, n) PROVE TccType'
    <2>1. txs' \in [Node -> [Client -> Tx]]
      BY <1>13, PrepareLockType, ChangedRecord DEF TccType
    <2>2. co' \in [Client -> Coordinator]
      BY <1>13, PrepareLockType, Answered
    <2> QED
      BY <1>2, <1>4, <1>13, <2>1, <2>2 DEF PrepareLock, TccType
  <1>14. ASSUME NEW n \in Node, execCommit(t, n) PROVE TccType'
    <2>1. /\ txs' \in [Node -> [Client -> Tx]] /\ db' \in [Key -> Value]
          /\ got' \in [Client -> [Key -> Value]]
      BY <1>14, execCommitType, ChangedRecord DEF TccType
    <2>2. co' \in [Client -> Coordinator]
      BY <1>5, <1>6, <1>14, Answered DEF execCommit
    <2>3. committed' \subseteq Client \X Node /\ held' \subseteq Lock
      BY <1>14 DEF execCommit, TccType
    <2> QED
      BY <1>2, <1>14, <2>1, <2>2, <2>3 DEF execCommit, TccType
  <1>15. ASSUME NEW n \in Node, execRollback(t, n) PROVE TccType'
    <2>1. txs' \in [Node -> [Client -> Tx]] /\ db' \in [Key -> Value]
      BY <1>15, UndoType, ChangedRecord DEF execRollback, TccType
    <2>2. co' \in [Client -> Coordinator]
      BY <1>5, <1>15, Answered DEF execRollback, TccType
    <2>3. todo' \subseteq Req /\ held' \subseteq Lock
      BY <1>3, <1>15 DEF execRollback, TccType
    <2> QED
      BY <1>2, <1>15, <2>1, <2>2, <2>3 DEF execRollback, TccType
  <1>16. ASSUME NEW n \in Node, RollbackLock(t, n) PROVE TccType'
    <2>1. txs' \in [Node -> [Client -> Tx]] /\ db' \in [Key -> Value]
      BY <1>16, UndoType, ChangedRecord DEF RollbackLock
    <2>2. co' \in [Client -> Coordinator]
      BY <1>5, <1>16, Answered DEF RollbackLock
    <2> QED
      BY <1>2, <1>16, <2>1, <2>2 DEF RollbackLock, TccType
  <1>17. ASSUME NEW n \in Node, Forget(t, n) PROVE TccType'
    <2>1. txs' \in [Node -> [Client -> Tx]]
      BY <1>17, NewTxType DEF Forget, TccType
    <2> QED
      BY <1>2, <1>17, <2>1 DEF Forget, TccType
  <1> QED
    BY <1>1, <1>7, <1>8, <1>9, <1>10, <1>11, <1>12, <1>13, <1>14, <1>15, <1>16, <1>17 DEF Serve

-----------------------------------------------------------------------------
\* Phases

\* An answer finds the coordinator waiting, hence in a phase.
LEMMA AnswerInPhase ==
    ASSUME TccType, NEW t \in Client, NEW n \in Node, NEW what, NEW ok \in BOOLEAN, NEW val \in Value,
           Answer(t, n, what, ok, val), \A u \in Client : InPhase(co[u])
    PROVE  \A u \in Client : InPhase(co'[u])
  <1>1. CASE co[t].phase = what /\ co[t].wait = n
    <2>1. Becomes(t, Replied(t, ok, val))
      BY <1>1, AnswerType
    <2>2. co[t] \in Coordinator /\ n # ""
      BY Homes DEF TccType
    <2>3. InPhase(Replied(t, ok, val))
      BY <1>1, <2>2 DEF Replied, InPhase, Coordinator
    <2> QED
      BY <2>1, <2>3, Changed
  <1>2. CASE ~(co[t].phase = what /\ co[t].wait = n)
    BY <1>2, AnswerType
  <1> QED
    BY <1>1, <1>2

\* Every step leaves every coordinator in order.
LEMMA InPhaseNext ==
    ASSUME TccType, Orderly, Next
    PROVE  \A u \in Client : InPhase(co'[u])
  <1>1. PICK t \in Client : Serve(t) \/ Timeout(t) \/ \E n \in Node : Forget(t, n)
    BY DEF Next
  <1>2. co[t] \in Coordinator /\ "" \notin Node /\ \A u \in Client : InPhase(co[u])
    BY Homes DEF TccType, Orderly
  <1>3. Absent \in Value /\ TRUE \in BOOLEAN /\ FALSE \in BOOLEAN
    BY DEF Value
  <1>4. ASSUME Rollback(t) PROVE \A u \in Client : InPhase(co'[u])
    <2> DEFINE c == [co[t] EXCEPT !.phase = "rollback", !.left = RollbackNodes(t), !.wait = "", !.reply = "",
                                  !.out = "err"]
    <2>1. Becomes(t, c)
      BY <1>4, RollbackType
    <2>2. InPhase(c)
      BY <1>2 DEF InPhase, Coordinator
    <2> HIDE DEF c
    <2> QED
      BY <1>2, <2>1, <2>2, Changed
  <1>5. InPhase(Free(co[t])) \/ co[t].phase = "done"
    BY <1>2 DEF InPhase, Coordinator, Free
  <1>6. CASE Local(t)
    <2> DEFINE c == [co[t] EXCEPT !.phase = "done", !.out = "ok"]
    <2>1. Becomes(t, c)
      BY <1>6, LocalType
    <2>2. InPhase(c)
      BY <1>2, <1>6 DEF InPhase, Coordinator, Local
    <2> HIDE DEF c
    <2> QED
      BY <1>2, <2>1, <2>2, Changed
  <1>7. CASE Start(t)
    <2> DEFINE c == [co[t] EXCEPT !.phase = "prepare", !.left = Nodes(Plan[t])]
    <2>1. Becomes(t, c)
      BY <1>7, StartType
    <2>2. InPhase(c)
      BY <1>2, <1>7 DEF InPhase, Coordinator, Start
    <2> HIDE DEF c
    <2> QED
      BY <1>2, <2>1, <2>2, Changed
  <1>8. ASSUME NEW c, Becomes(t, c), InPhase(c) PROVE \A u \in Client : InPhase(co'[u])
    BY <1>2, <1>8, Changed
  <1>9. CASE Receive(t)
    <2>1. co[t].phase \in {"prepare", "commit", "rollback"} /\ InPhase(Free(co[t]))
      BY <1>2, <1>5, <1>9 DEF Receive, InPhase
    <2>2. /\ InPhase([Free(co[t]) EXCEPT !.phase = "commit", !.left = Nodes(Plan[t])])
          /\ InPhase([Free(co[t]) EXCEPT !.phase = "done", !.out = "ok"])
          /\ co[t].phase = "rollback" => InPhase([Free(co[t]) EXCEPT !.phase = "done"])
      BY <1>2 DEF InPhase, Free, Coordinator
    <2> QED
      BY <1>4, <1>8, <1>9, <2>1, <2>2, ReceiveType
  <1>10. CASE Timeout(t)
    <2>1. co[t].phase \in {"prepare", "commit", "rollback"} /\ InPhase(Free(co[t]))
      BY <1>2, <1>5, <1>10 DEF Timeout, InPhase
    <2>2. co[t].phase = "rollback" => InPhase([Free(co[t]) EXCEPT !.phase = "done"])
      BY <1>2 DEF InPhase, Free, Coordinator
    <2> QED
      BY <1>4, <1>8, <1>10, <2>1, <2>2, TimeoutType
  <1>11. ASSUME NEW n \in Node, Send(t, n) PROVE \A u \in Client : InPhase(co'[u])
    <2> DEFINE c == [co[t] EXCEPT !.wait = n, !.left = co[t].left \ {n}]
    <2>1. Becomes(t, c)
      BY <1>11, SendType
    <2>2. InPhase(c)
      BY <1>2, <1>11 DEF InPhase, Coordinator, Send
    <2> HIDE DEF c
    <2> QED
      BY <1>2, <2>1, <2>2, Changed
  <1>12. ASSUME NEW n \in Node, PrepareLock(t, n) PROVE \A u \in Client : InPhase(co'[u])
    BY <1>2, <1>12, PrepareLockType, AnswerInPhase, ZenonT(60)
  <1>13. ASSUME NEW n \in Node, execCommit(t, n) PROVE \A u \in Client : InPhase(co'[u])
    <2>1. (txs[n][t] # NoTx) \in BOOLEAN
      OBVIOUS
    <2> QED
      BY <1>2, <1>3, <1>13, <2>1, AnswerInPhase DEF execCommit
  <1>14. ASSUME NEW n \in Node, execRollback(t, n) PROVE \A u \in Client : InPhase(co'[u])
    BY <1>2, <1>3, <1>14, AnswerInPhase DEF execRollback
  <1>15. ASSUME NEW n \in Node, RollbackLock(t, n) PROVE \A u \in Client : InPhase(co'[u])
    BY <1>2, <1>3, <1>15, AnswerInPhase DEF RollbackLock
  <1>16. ASSUME NEW n \in Node, PrepareCreate(t, n) \/ Forget(t, n) PROVE \A u \in Client : InPhase(co'[u])
    BY <1>2, <1>16 DEF PrepareCreate, Forget
  <1> QED
    BY <1>1, <1>6, <1>7, <1>9, <1>10, <1>11, <1>12, <1>13, <1>14, <1>15, <1>16 DEF Serve

-----------------------------------------------------------------------------
\* Locks while nobody has stopped waiting

\* Exact in the next state of a scene, and what it takes when the coordinator of t
\* alone takes a step.
ExactNext ==
    /\ \A r \in todo' :
         /\ co'[r.tx].wait = r.node /\ co'[r.tx].reply = "" /\ co'[r.tx].phase = PhaseOf(r.what)
         /\ \A s \in todo' : r.tx = s.tx => r = s
    /\ \A h \in held' : txs'[h.node][h.tx].hasLock
    /\ \A t \in Client, n \in Node :
         /\ txs'[n][t].hasLock => txs'[n][t].cmd = "some"
         /\ Request(t, n, "locking") \in todo' => txs'[n][t].cmd = "some"
         /\ Request(t, n, "relocking") \in todo' => ~txs'[n][t].hasLock
    /\ \A h \in held' : h.node \in Nodes(Plan[h.tx]) /\ Timely(h, co'[h.tx])
    /\ \A t \in Client : InTurn(Plan[t], co'[t])

\* The conditions on the next state are those of Exact.
LEMMA ExactNextIs ==
    ASSUME scene' = scene, ExactNext
    PROVE  Exact'
  <1>1. Plan' = Plan
    BY DEF Plan
  <1>2. Awaited'
    BY DEF ExactNext, Awaited, PhaseOf
  <1>3. Recorded'
    BY DEF ExactNext, Recorded, Request
  <1>4. HeldInTime'
    BY <1>1 DEF ExactNext, HeldInTime, Nodes, Timely
  <1>5. OneByOne'
    BY <1>1 DEF ExactNext, OneByOne, InTurn, IsRename, Nodes
  <1> QED
    BY <1>2, <1>3, <1>4, <1>5 DEF Exact

\* What it takes for a step of one coordinator alone to preserve Exact.
LEMMA CoStep ==
    ASSUME TccType, Exact, NEW t \in Client, NEW c, Becomes(t, c), UNCHANGED <<txs, held, todo>>,
           \A r \in todo : r.tx # t,
           \A h \in held : h.tx = t => Timely(h, c),
           InTurn(Plan[t], c)
    PROVE  ExactNext
  <1>1. co'[t] = c /\ \A u \in Client : u # t => co'[u] = co[u]
    BY Changed
  <1>2. (\A r \in todo : r.tx \in Client) /\ (\A h \in held : h.tx \in Client)
    BY DEF TccType, Lock
  <1> QED
    BY <1>1, <1>2, ZenonT(60) DEF ExactNext, Exact, Awaited, Recorded, HeldInTime, OneByOne

\* A command on one node takes its locks and gives them back in one step.
LEMMA LocalExact ==
    ASSUME TccType, Exact, NEW t \in Client, Local(t)
    PROVE  ExactNext
  <1> DEFINE c == [co[t] EXCEPT !.phase = "done", !.out = "ok"]
  <1>1. co[t] \in Coordinator /\ co[t].phase = "new"
    BY DEF TccType, Local
  <1>2. Becomes(t, c)
    BY LocalType
  <1>3. \A r \in todo : r.tx # t
    BY <1>1 DEF Exact, Awaited, PhaseOf
  <1>4. \A h \in held : h.tx # t
    BY <1>1 DEF Exact, HeldInTime, Timely
  <1>5. InTurn(Plan[t], c)
    <2>1. c.left = co[t].left /\ c.wait = co[t].wait /\ c.phase = "done"
      BY <1>1 DEF Coordinator
    <2> HIDE DEF c
    <2> QED
      BY <2>1 DEF InTurn, Exact, OneByOne
  <1>6. UNCHANGED <<txs, held, todo>>
    BY DEF Local
  <1> HIDE DEF c
  <1> QED
    BY <1>2, <1>3, <1>4, <1>5, <1>6, CoStep

\* A coordinator that starts has no request on the way and no lock.
LEMMA StartExact ==
    ASSUME TccType, Orderly, Exact, NEW t \in Client, Start(t)
    PROVE  ExactNext
  <1> DEFINE c == [co[t] EXCEPT !.phase = "prepare", !.left = Nodes(Plan[t])]
  <1>1. co[t] \in Coordinator /\ co[t].phase = "new" /\ co[t].wait = "" /\ "" \notin Node
    BY Homes DEF TccType, Start, Orderly, InPhase
  <1>2. Becomes(t, c)
    BY StartType
  <1>3. \A r \in todo : r.tx # t
    BY <1>1 DEF Exact, Awaited, PhaseOf
  <1>4. \A h \in held : h.tx # t
    BY <1>1 DEF Exact, HeldInTime, Timely
  <1>5. InTurn(Plan[t], c)
    <2>1. c.left = Nodes(Plan[t]) /\ c.wait = ""
      BY <1>1 DEF Coordinator
    <2>2. "" \notin Nodes(Plan[t]) /\ (IsRename(Plan[t]) => NodeOf[Plan[t].src] \in Nodes(Plan[t]))
      BY Plans
    <2> HIDE DEF c
    <2> QED
      BY <1>1, <2>1, <2>2 DEF InTurn
  <1>6. UNCHANGED <<txs, held, todo>>
    BY DEF Start
  <1> HIDE DEF c
  <1> QED
    BY <1>2, <1>3, <1>4, <1>5, <1>6, CoStep

\* A coordinator that gets an error rolls back on all nodes where it has locks: where
\* only src is rolled back there are none, since src itself has refused and the other
\* node has not been asked.
LEMMA RollbackExact ==
    ASSUME TccType, Orderly, Exact, NEW t \in Client, Rollback(t), co[t].reply = "err",
           co[t].phase # "rollback", UNCHANGED <<txs, held, todo>>
    PROVE  ExactNext
  <1> DEFINE c == [co[t] EXCEPT !.phase = "rollback", !.left = RollbackNodes(t), !.wait = "", !.reply = "",
                                !.out = "err"]
  <1>1. co[t] \in Coordinator
    BY DEF TccType
  <1>2. Becomes(t, c)
    BY RollbackType
  <1>3. \A r \in todo : r.tx # t
    BY DEF Exact, Awaited
  <1>4. c.phase = "rollback" /\ c.left = RollbackNodes(t) /\ c.wait = ""
    BY <1>1 DEF Coordinator
  <1>5. InTurn(Plan[t], c)
    <2>1. RollbackNodes(t) \subseteq Nodes(Plan[t]) /\ "" \notin Nodes(Plan[t])
      BY Plans DEF RollbackNodes
    <2> HIDE DEF c
    <2> QED
      BY <1>4, <2>1 DEF InTurn
  <1>6. ASSUME NEW h \in held, h.tx = t PROVE h.node \in RollbackNodes(t)
    <2>1. h.node \in Nodes(Plan[t]) /\ Timely(h, co[t])
      BY <1>6 DEF Exact, HeldInTime
    <2>2. CASE IsRename(Plan[t]) /\ co[t].phase = "prepare" /\ co[t].wait = NodeOf[Plan[t].src]
      <3>1. h.node \notin co[t].left /\ h.node # co[t].wait
        BY <2>1, <2>2 DEF Timely
      <3>2. co[t].left = Nodes(Plan[t]) \ {NodeOf[Plan[t].src]}
        BY <2>2 DEF Exact, OneByOne, InTurn
      <3> QED
        BY <2>1, <2>2, <3>1, <3>2
    <2>3. CASE ~(IsRename(Plan[t]) /\ co[t].phase = "prepare" /\ co[t].wait = NodeOf[Plan[t].src])
      BY <2>1, <2>3 DEF RollbackNodes
    <2> QED
      BY <2>2, <2>3
  <1>7. \A h \in held : h.tx = t => Timely(h, c)
    BY <1>4, <1>6 DEF Timely
  <1> HIDE DEF c
  <1> QED
    BY <1>2, <1>3, <1>5, <1>7, CoStep

\* A coordinator that leaves a phase has the locks that the next one needs: those of all
\* nodes when it commits, none when it is done.
LEMMA ReceiveExact ==
    ASSUME TccType, Orderly, Exact, NEW t \in Client, Receive(t)
    PROVE  ExactNext
  <1>1. co[t] \in Coordinator /\ co[t].reply # "" /\ co[t].wait # "" /\ "" \notin Node
    BY Homes DEF TccType, Receive, Orderly, InPhase
  <1>2. UNCHANGED <<txs, held, todo>>
    BY DEF Receive
  <1>3. \A r \in todo : r.tx # t
    BY <1>1 DEF Exact, Awaited
  <1>4. \A h \in held : h.tx = t => h.node \in Nodes(Plan[t]) /\ Timely(h, co[t]) /\ h.node # ""
    BY <1>1 DEF Exact, HeldInTime, TccType, Lock
  <1>5. InTurn(Plan[t], co[t]) /\ (IsRename(Plan[t]) => NodeOf[Plan[t].src] # "")
    BY <1>1, Plans, Homes DEF Exact, OneByOne
  <1>a. "" \notin Nodes(Plan[t])
    BY Plans
  <1>6. ASSUME NEW c, Becomes(t, c), InTurn(Plan[t], c), \A h \in held : h.tx = t => Timely(h, c)
        PROVE  ExactNext
    BY <1>2, <1>3, <1>6, CoStep
  <1>7. ASSUME co[t].left # {}, co[t].phase = "rollback" \/ co[t].reply # "err", Becomes(t, Free(co[t]))
        PROVE  ExactNext
    <2> DEFINE c == Free(co[t])
    <2>1. c.left = co[t].left /\ c.phase = co[t].phase /\ c.wait = "" /\ c.reply = ""
      BY <1>1 DEF Free, Coordinator
    <2> HIDE DEF c
    <2>2. InTurn(Plan[t], c)
      BY <1>1, <1>a, <1>5, <2>1 DEF InTurn
    <2>3. \A h \in held : h.tx = t => Timely(h, c)
      BY <1>1, <1>4, <2>1 DEF Timely
    <2> QED
      BY <1>6, <1>7, <2>2, <2>3 DEF c
  <1>8. ASSUME co[t].left = {}, co[t].phase = "prepare",
               Becomes(t, [Free(co[t]) EXCEPT !.phase = "commit", !.left = Nodes(Plan[t])])
        PROVE  ExactNext
    <2> DEFINE c == [Free(co[t]) EXCEPT !.phase = "commit", !.left = Nodes(Plan[t])]
    <2>1. c.left = Nodes(Plan[t]) /\ c.phase = "commit" /\ c.wait = ""
      BY <1>1 DEF Free, Coordinator
    <2> HIDE DEF c
    <2>2. InTurn(Plan[t], c)
      BY <1>a, <2>1 DEF InTurn
    <2>3. \A h \in held : h.tx = t => Timely(h, c)
      BY <1>4, <2>1 DEF Timely
    <2> QED
      BY <1>6, <1>8, <2>2, <2>3 DEF c
  <1>9. ASSUME NEW c, co[t].left = {}, co[t].phase \in {"commit", "rollback"}, Becomes(t, c), c.phase = "done",
               c.left = {}, c.wait = ""
        PROVE  ExactNext
    <2>1. InTurn(Plan[t], c)
      BY <1>9 DEF InTurn
    <2>2. \A h \in held : h.tx # t
      BY <1>1, <1>4, <1>9 DEF Timely
    <2> QED
      BY <1>6, <1>9, <2>1, <2>2
  <1>10. ASSUME NEW c \in {[Free(co[t]) EXCEPT !.phase = "done", !.out = "ok"], [Free(co[t]) EXCEPT !.phase = "done"]}
         PROVE  c.phase = "done" /\ c.left = co[t].left /\ c.wait = ""
    BY <1>1 DEF Free, Coordinator
  <1>11. co[t].phase # "rollback" /\ co[t].reply = "err" /\ Rollback(t) => ExactNext
    BY <1>2, RollbackExact
  <1> QED
    BY <1>7, <1>8, <1>9, <1>10, <1>11, ReceiveType

\* The request that is sent is the one the coordinator waits for.
LEMMA SendExact ==
    ASSUME TccType, Orderly, Exact, NEW t \in Client, NEW n \in Node, Send(t, n)
    PROVE  ExactNext
  <1> DEFINE c == [co[t] EXCEPT !.wait = n, !.left = co[t].left \ {n}]
             q == [tx |-> t, node |-> n, what |-> co[t].phase]
  <1>1. co[t] \in Coordinator /\ co[t].wait = "" /\ co[t].reply = "" /\ n # ""
    BY Homes DEF TccType, Send, Orderly, InPhase
  <1>2. /\ co[t].phase \in {"prepare", "commit", "rollback"} /\ n \in co[t].left
        /\ IsRename(Plan[t]) /\ co[t].phase = "prepare" /\ NodeOf[Plan[t].src] \in co[t].left => n = NodeOf[Plan[t].src]
        /\ todo' = todo \union {q}
        /\ txs' = txs /\ held' = held
    BY DEF Send
  <1>3. co'[t] = c /\ \A u \in Client : u # t => co'[u] = co[u]
    BY SendType, Changed
  <1>4. /\ c.wait = n /\ c.left = co[t].left \ {n} /\ c.reply = "" /\ c.phase = co[t].phase
    BY <1>1 DEF Coordinator
  <1>5. \A r \in todo : r.tx # t /\ r.tx \in Client /\ r.node \in Node
    BY <1>1, Homes DEF Exact, Awaited, TccType
  <1>6. \A h \in held : h.tx \in Client /\ h.node # ""
    BY Homes DEF TccType, Lock
  <1>7. q.tx = t /\ q.node = n /\ PhaseOf(q.what) = co[t].phase
    BY <1>2 DEF PhaseOf
  <1>8. \A u \in Client, m \in Node : Request(u, m, "locking") # q /\ Request(u, m, "relocking") # q
    BY <1>2 DEF Request
  <1> HIDE DEF c, q
  <1>9. \A r \in todo' : /\ co'[r.tx].wait = r.node /\ co'[r.tx].reply = "" /\ co'[r.tx].phase = PhaseOf(r.what)
                         /\ \A s \in todo' : r.tx = s.tx => r = s
    <2>1. \A r \in todo' : r = q \/ r \in todo
      BY <1>2
    <2>2. \A r \in todo : /\ co'[r.tx].wait = r.node /\ co'[r.tx].reply = "" /\ co'[r.tx].phase = PhaseOf(r.what)
                          /\ \A s \in todo : r.tx = s.tx => r = s
      BY <1>3, <1>5 DEF Exact, Awaited
    <2>3. co'[q.tx].wait = q.node /\ co'[q.tx].reply = "" /\ co'[q.tx].phase = PhaseOf(q.what)
      BY <1>3, <1>4, <1>7
    <2> QED
      BY <1>5, <1>7, <2>1, <2>2, <2>3
  <1>10. \A h \in held' : h.node \in Nodes(Plan[h.tx]) /\ Timely(h, co'[h.tx])
    <2> SUFFICES ASSUME NEW h \in held PROVE h.node \in Nodes(Plan[h.tx]) /\ Timely(h, co'[h.tx])
      BY <1>2
    <2>1. h.node \in Nodes(Plan[h.tx]) /\ Timely(h, co[h.tx])
      BY DEF Exact, HeldInTime
    <2>2. CASE h.tx = t
      BY <1>1, <1>2, <1>3, <1>4, <1>6, <2>1, <2>2 DEF Timely
    <2>3. CASE h.tx # t
      BY <1>3, <1>6, <2>1, <2>3
    <2> QED
      BY <2>2, <2>3
  <1>11. \A u \in Client : InTurn(Plan[u], co'[u])
    <2>1. InTurn(Plan[t], co[t])
      BY DEF Exact, OneByOne
    <2>2. InTurn(Plan[t], c)
      BY <1>1, <1>2, <1>4, <2>1 DEF InTurn
    <2> QED
      BY <1>3, <2>2 DEF Exact, OneByOne
  <1> QED
    BY <1>2, <1>8, <1>9, <1>10, <1>11 DEF ExactNext, Exact, Recorded

\* What a request in execution says of the rest: its coordinator waits for it alone.
LEMMA Serving ==
    ASSUME TccType, Exact, NEW q \in todo
    PROVE  /\ co[q.tx].wait = q.node /\ co[q.tx].reply = "" /\ co[q.tx].phase = PhaseOf(q.what)
           /\ q.node \in Nodes(Plan[q.tx]) /\ q.node \notin co[q.tx].left
           /\ \A r \in todo : r # q => r.tx # q.tx
           /\ \A h \in held : h.tx = q.tx /\ h.node = q.node => co[q.tx].phase # "prepare"
  <1>1. q.tx \in Client /\ q.node # ""
    BY Homes DEF TccType
  <1>2. /\ co[q.tx].wait = q.node /\ co[q.tx].reply = "" /\ co[q.tx].phase = PhaseOf(q.what)
        /\ \A r \in todo : r.tx = q.tx => r = q
    BY DEF Exact, Awaited
  <1>3. \A h \in held : h.tx = q.tx /\ h.node = q.node => co[q.tx].phase # "prepare"
    BY <1>2 DEF Exact, HeldInTime, Timely
  <1>4. q.node \in Nodes(Plan[q.tx]) /\ q.node \notin co[q.tx].left
    BY <1>1, <1>2 DEF Exact, OneByOne, InTurn
  <1> QED
    BY <1>2, <1>3, <1>4

\* A new record replaces no record with locks: its node is asked for the first time.
LEMMA PrepareCreateExact ==
    ASSUME TccType, Orderly, Exact, NEW t \in Client, NEW n \in Node, PrepareCreate(t, n)
    PROVE  ExactNext
  <1> DEFINE q == Request(t, n, "prepare")
             p == Request(t, n, "locking")
  <1>1. /\ q \in todo /\ todo' = (todo \ {q}) \union {p}
        /\ txs' = [txs EXCEPT ![n][t] = NewTx] /\ held' = held /\ co' = co
    BY DEF PrepareCreate
  <1>2. /\ co[t].wait = n /\ co[t].reply = "" /\ co[t].phase = "prepare"
        /\ \A r \in todo : r # q => r.tx # t
        /\ \A h \in held : ~(h.tx = t /\ h.node = n)
    <2>1. q.tx = t /\ q.node = n /\ PhaseOf(q.what) = "prepare"
      BY DEF Request, PhaseOf
    <2>2. q \in todo
      BY <1>1
    <2> HIDE DEF q
    <2> QED
      BY <2>1, <2>2, Serving
  <1>3. txs'[n][t] = NewTx /\ \A m \in Node, u \in Client : m # n \/ u # t => txs'[m][u] = txs[m][u]
    BY <1>1, NewTxType, ChangedRecord, ZenonT(60) DEF Records
  <1>4. p.tx = t /\ p.node = n /\ PhaseOf(p.what) = "prepare"
    BY DEF Request, PhaseOf
  <1>5. \A u \in Client, m \in Node : /\ Request(u, m, "relocking") # p
                                      /\ Request(u, m, "locking") = p => u = t /\ m = n
    BY DEF Request
  <1>6. NewTx.hasLock = FALSE /\ NewTx.cmd = "some"
    BY DEF NewTx
  <1>7. \A h \in held : h.tx \in Client /\ h.node \in Node
    BY DEF TccType, Lock
  <1> HIDE DEF p, q
  <1>8. \A r \in todo' : /\ co'[r.tx].wait = r.node /\ co'[r.tx].reply = "" /\ co'[r.tx].phase = PhaseOf(r.what)
                         /\ \A s \in todo' : r.tx = s.tx => r = s
    BY <1>1, <1>2, <1>4, ZenonT(60) DEF Exact, Awaited
  <1>9. \A h \in held' : txs'[h.node][h.tx].hasLock
    <2>1. \A h \in held : txs'[h.node][h.tx] = txs[h.node][h.tx]
      BY <1>2, <1>3, <1>7
    <2> QED
      BY <1>1, <2>1 DEF Exact, Recorded
  <1>10. \A u \in Client, m \in Node :
           /\ txs'[m][u].hasLock => txs'[m][u].cmd = "some"
           /\ Request(u, m, "locking") \in todo' => txs'[m][u].cmd = "some"
           /\ Request(u, m, "relocking") \in todo' => ~txs'[m][u].hasLock
    BY <1>1, <1>3, <1>5, <1>6 DEF Exact, Recorded
  <1> QED
    BY <1>1, <1>8, <1>9, <1>10 DEF ExactNext, Exact, HeldInTime, OneByOne

\* Locks that are granted are those of the node the coordinator waits for.
LEMMA PrepareLockExact ==
    ASSUME TccType, Orderly, Exact, NEW t \in Client, NEW n \in Node, PrepareLock(t, n)
    PROVE  ExactNext
  <1> DEFINE q == Request(t, n, "locking")
             fails == PrepareFails(Plan[t], n)
             val == IF IsRename(Plan[t]) /\ n = NodeOf[Plan[t].src] THEN db[Plan[t].src] ELSE Absent
             c == Replied(t, ~fails, val)
             x == [txs[n][t] EXCEPT !.undo = UndoLogs(Plan[t], n), !.hasLock = ~fails]
  <1>1. /\ q \in todo /\ todo' = todo \ {q}
        /\ held' = IF fails THEN held ELSE held \union {LockOf(t, n)}
    BY DEF PrepareLock, LockOf
  <1>2. /\ co[t].wait = n /\ co[t].reply = "" /\ co[t].phase = "prepare"
        /\ \A r \in todo : r # q => r.tx # t
        /\ n \in Nodes(Plan[t]) /\ n \notin co[t].left
        /\ \A h \in held : ~(h.tx = t /\ h.node = n)
    <2>1. q.tx = t /\ q.node = n /\ PhaseOf(q.what) = "prepare"
      BY DEF Request, PhaseOf
    <2>2. q \in todo
      BY <1>1
    <2> HIDE DEF q
    <2> QED
      BY <2>1, <2>2, Serving
  <1>3. txs[n][t].cmd = "some" /\ txs[n][t] # NoTx /\ txs[n][t] \in Tx
    BY <1>1 DEF Exact, Recorded, NoTx, TccType
  <1>4. Records(t, n, x) /\ fails \in BOOLEAN /\ val \in Value /\ Answer(t, n, "prepare", ~fails, val)
    BY <1>3, PrepareLockType
  <1>5. txs'[n][t] = x /\ \A m \in Node, u \in Client : m # n \/ u # t => txs'[m][u] = txs[m][u]
    BY <1>4, ChangedRecord
  <1>6. x.cmd = "some" /\ x.hasLock = ~fails
    BY <1>3 DEF Tx
  <1>7. Becomes(t, c)
    <2>1. (~fails) \in BOOLEAN
      BY Zenon
    <2> HIDE DEF fails, val
    <2> QED
      BY <1>2, <1>4, <2>1, AnswerType DEF c
  <1>8. co'[t] = c /\ \A u \in Client : u # t => co'[u] = co[u]
    BY <1>7, Changed
  <1>9. /\ c.phase = "prepare" /\ c.wait = n /\ c.left = co[t].left
        /\ c.reply = IF fails THEN "err" ELSE "ok"
    BY <1>2 DEF Replied, TccType, Coordinator
  <1>10. \A h \in held : h.tx \in Client /\ h.node \in Node
    BY DEF TccType, Lock
  <1>11. LockOf(t, n).tx = t /\ LockOf(t, n).node = n
    BY DEF LockOf
  <1>12. \A r \in todo : r.tx \in Client
    BY DEF TccType
  <1> HIDE DEF q, fails, val, c, x
  <1>13. \A r \in todo' : r \in todo /\ r.tx # t
    BY <1>1, <1>2
  <1>14. \A r \in todo' : /\ co'[r.tx].wait = r.node /\ co'[r.tx].reply = "" /\ co'[r.tx].phase = PhaseOf(r.what)
                          /\ \A s \in todo' : r.tx = s.tx => r = s
    BY <1>8, <1>12, <1>13 DEF Exact, Awaited
  <1>15. \A h \in held' : h \in held \/ (h.tx = t /\ h.node = n /\ ~fails)
    BY <1>1, <1>11
  <1>16. \A h \in held' : txs'[h.node][h.tx].hasLock
    <2>1. \A h \in held : txs'[h.node][h.tx] = txs[h.node][h.tx]
      BY <1>2, <1>5, <1>10
    <2> QED
      BY <1>5, <1>6, <1>15, <2>1 DEF Exact, Recorded
  <1>17. \A u \in Client, m \in Node : Request(u, m, "locking").tx = u /\ Request(u, m, "relocking").tx = u
    BY DEF Request
  <1>18. \A u \in Client, m \in Node :
           /\ txs'[m][u].hasLock => txs'[m][u].cmd = "some"
           /\ Request(u, m, "locking") \in todo' => txs'[m][u].cmd = "some"
           /\ Request(u, m, "relocking") \in todo' => ~txs'[m][u].hasLock
    BY <1>5, <1>6, <1>13, <1>17 DEF Exact, Recorded
  <1>19. \A h \in held' : h.node \in Nodes(Plan[h.tx]) /\ Timely(h, co'[h.tx])
    <2> SUFFICES ASSUME NEW h \in held' PROVE h.node \in Nodes(Plan[h.tx]) /\ Timely(h, co'[h.tx])
      OBVIOUS
    <2>1. CASE h \in held /\ h.tx = t
      BY <1>2, <1>8, <1>9, <2>1 DEF Exact, HeldInTime, Timely
    <2>2. CASE h \in held /\ h.tx # t
      BY <1>8, <1>10, <2>2 DEF Exact, HeldInTime
    <2>3. CASE h.tx = t /\ h.node = n /\ ~fails
      BY <1>2, <1>8, <1>9, <2>3 DEF Timely
    <2> QED
      BY <1>15, <2>1, <2>2, <2>3
  <1>20. \A u \in Client : InTurn(Plan[u], co'[u])
    <2>1. InTurn(Plan[t], co[t])
      BY DEF Exact, OneByOne
    <2>2. InTurn(Plan[t], c)
      BY <1>2, <1>9, <2>1 DEF InTurn
    <2> QED
      BY <1>8, <2>2 DEF Exact, OneByOne
  <1> QED
    BY <1>14, <1>16, <1>18, <1>19, <1>20 DEF ExactNext

\* A node answers a commit or a rollback, after which it has no locks for t.
LEMMA ServedExact ==
    ASSUME TccType, Exact, NEW q \in todo, NEW t \in Client, NEW n \in Node, q.tx = t, q.node = n,
           co[t].phase \in {"commit", "rollback"}, todo' = todo \ {q},
           co'[t].phase = co[t].phase, co'[t].wait = n, co'[t].left = co[t].left,
           \A u \in Client : u # t => co'[u] = co[u],
           held' \subseteq held, \A h \in held' : ~(h.tx = t /\ h.node = n),
           txs'[n][t].hasLock = FALSE,
           \A m \in Node, u \in Client : m # n \/ u # t => txs'[m][u] = txs[m][u]
    PROVE  ExactNext
  <1>2. (\A r \in todo : r.tx \in Client) /\ (\A h \in held : h.tx \in Client /\ h.node \in Node)
    BY DEF TccType, Lock
  <1>3. co[t].wait = n /\ (\A r \in todo' : r \in todo /\ r.tx # t)
    BY Serving
  <1>4. \A r \in todo' : /\ co'[r.tx].wait = r.node /\ co'[r.tx].reply = "" /\ co'[r.tx].phase = PhaseOf(r.what)
                         /\ \A s \in todo' : r.tx = s.tx => r = s
    <2>1. \A r \in todo' : co'[r.tx] = co[r.tx]
      BY <1>2, <1>3
    <2> QED
      BY <1>3, <2>1, ZenonT(60) DEF Exact, Awaited
  <1>5. \A h \in held' : txs'[h.node][h.tx].hasLock
    <2>1. \A h \in held' : h \in held /\ txs'[h.node][h.tx] = txs[h.node][h.tx]
      BY <1>2
    <2> QED
      BY <2>1 DEF Exact, Recorded
  <1>6. \A u \in Client, m \in Node : Request(u, m, "locking").tx = u /\ Request(u, m, "relocking").tx = u
    BY DEF Request
  <1>7. \A u \in Client, m \in Node :
          /\ txs'[m][u].hasLock => txs'[m][u].cmd = "some"
          /\ Request(u, m, "locking") \in todo' => txs'[m][u].cmd = "some"
          /\ Request(u, m, "relocking") \in todo' => ~txs'[m][u].hasLock
    BY <1>3, <1>6 DEF Exact, Recorded
  <1>8. \A h \in held' : h.node \in Nodes(Plan[h.tx]) /\ Timely(h, co'[h.tx])
    <2> SUFFICES ASSUME NEW h \in held' PROVE h.node \in Nodes(Plan[h.tx]) /\ Timely(h, co'[h.tx])
      OBVIOUS
    <2>1. h \in held /\ h.node \in Nodes(Plan[h.tx]) /\ Timely(h, co[h.tx])
      BY DEF Exact, HeldInTime
    <2>2. CASE h.tx = t
      BY <1>3, <2>1, <2>2 DEF Timely
    <2>3. CASE h.tx # t
      BY <1>2, <2>1, <2>3
    <2> QED
      BY <2>2, <2>3
  <1>9. \A u \in Client : InTurn(Plan[u], co'[u])
    <2>1. InTurn(Plan[t], co'[t])
      BY <1>3 DEF InTurn, Exact, OneByOne
    <2> QED
      BY <2>1 DEF Exact, OneByOne
  <1> QED
    BY <1>4, <1>5, <1>7, <1>8, <1>9 DEF ExactNext

\* The coordinator that a commit or a rollback is answered to.
LEMMA Reaches ==
    ASSUME TccType, Exact, NEW t \in Client, NEW n \in Node, NEW ok \in BOOLEAN,
           NEW what \in {"commit", "rollback", "relocking"}, Request(t, n, what) \in todo,
           Answer(t, n, PhaseOf(what), ok, Absent)
    PROVE  /\ co[t].phase = PhaseOf(what) /\ PhaseOf(what) \in {"commit", "rollback"}
           /\ co'[t].phase = co[t].phase /\ co'[t].wait = n /\ co'[t].left = co[t].left
           /\ \A u \in Client : u # t => co'[u] = co[u]
  <1> DEFINE q == Request(t, n, what)
             c == Replied(t, ok, Absent)
  <1>1. q.tx = t /\ q.node = n /\ q.what = what /\ q \in todo
    BY DEF Request
  <1> HIDE DEF q
  <1>2. co[t].wait = n /\ co[t].phase = PhaseOf(what)
    BY <1>1, Serving
  <1>3. Absent \in Value
    BY DEF Value
  <1>4. Becomes(t, c)
    BY <1>2, <1>3, AnswerType
  <1>5. c.phase = co[t].phase /\ c.wait = n /\ c.left = co[t].left
    BY <1>2, ZenonT(60) DEF TccType, Replied, Coordinator
  <1>6. PhaseOf(what) \in {"commit", "rollback"}
    BY DEF PhaseOf
  <1> HIDE DEF c
  <1> QED
    BY <1>2, <1>4, <1>5, <1>6, Changed

\* A record without locks has none.
LEMMA NoLockWithout ==
    ASSUME TccType, Exact, NEW t \in Client, NEW n \in Node, ~txs[n][t].hasLock
    PROVE  \A h \in held : ~(h.tx = t /\ h.node = n)
  BY DEF Exact, Recorded

\* After a node has released the locks of t, t has none there.
LEMMA IsLockOf ==
    ASSUME TccType, NEW t \in Client, NEW n \in Node, held' = held \ {LockOf(t, n)}
    PROVE  \A h \in held' : ~(h.tx = t /\ h.node = n)
  BY DEF TccType, Lock, LockOf

\* A commit releases the locks at its node, or finds no record and so no locks.
LEMMA execCommitExact ==
    ASSUME TccType, Orderly, Exact, NEW t \in Client, NEW n \in Node, execCommit(t, n)
    PROVE  ExactNext
  <1> DEFINE q == Request(t, n, "commit")
             ok == txs[n][t] # NoTx
             x == [txs[n][t] EXCEPT !.hasLock = FALSE]
  <1>1. q \in todo /\ q.tx = t /\ q.node = n /\ todo' = todo \ {q} /\ Answer(t, n, "commit", ok, Absent)
    BY DEF execCommit, Request
  <1>2. /\ co[t].phase = "commit"
        /\ co'[t].phase = co[t].phase /\ co'[t].wait = n /\ co'[t].left = co[t].left
        /\ \A u \in Client : u # t => co'[u] = co[u]
    <2>1. PhaseOf("commit") = "commit" /\ ok \in BOOLEAN
      BY DEF PhaseOf
    <2> HIDE DEF ok
    <2> QED
      BY <1>1, <2>1, Reaches DEF q
  <1>3. CASE txs[n][t] = NoTx
    <2>1. txs' = txs /\ held' = held
      BY <1>3, execCommitType
    <2>2. txs[n][t].hasLock = FALSE
      BY <1>3 DEF NoTx
    <2>3. \A h \in held' : ~(h.tx = t /\ h.node = n)
      BY <2>1, <2>2, NoLockWithout
    <2> HIDE DEF q
    <2> QED
      BY <1>1, <1>2, <2>1, <2>2, <2>3, ServedExact
  <1>4. CASE txs[n][t] # NoTx
    <2>1. Records(t, n, x) /\ x.hasLock = FALSE
      BY <1>4, execCommitType DEF TccType, Tx
    <2>2. held' = held \ {LockOf(t, n)}
      BY <1>4 DEF execCommit, LockOf
    <2> HIDE DEF q, x
    <2>3. txs'[n][t] = x /\ \A m \in Node, u \in Client : m # n \/ u # t => txs'[m][u] = txs[m][u]
      BY <2>1, ChangedRecord
    <2>4. \A h \in held' : ~(h.tx = t /\ h.node = n)
      BY <2>2, IsLockOf
    <2>5. held' \subseteq held
      BY <2>2
    <2> QED
      BY <1>1, <1>2, <2>1, <2>3, <2>4, <2>5, ServedExact
  <1> QED
    BY <1>3, <1>4

\* A rollback releases the locks, finds none, or is to lock the keys again.
LEMMA execRollbackExact ==
    ASSUME TccType, Orderly, Exact, NEW t \in Client, NEW n \in Node, execRollback(t, n)
    PROVE  ExactNext
  <1> DEFINE q == Request(t, n, "rollback")
             p == Request(t, n, "relocking")
  <1>1. q \in todo /\ q.tx = t /\ q.node = n /\ PhaseOf(q.what) = "rollback"
    BY DEF execRollback, Request, PhaseOf
  <1>2. ASSUME NEW ok \in BOOLEAN, Answer(t, n, "rollback", ok, Absent)
        PROVE  /\ co[t].phase = "rollback"
               /\ co'[t].phase = co[t].phase /\ co'[t].wait = n /\ co'[t].left = co[t].left
               /\ \A u \in Client : u # t => co'[u] = co[u]
    <2>1. PhaseOf("rollback") = "rollback"
      BY DEF PhaseOf
    <2> QED
      BY <1>1, <1>2, <2>1, Reaches DEF q
  <1>3. CASE /\ txs[n][t] = NoTx /\ todo' = todo \ {q}
             /\ Answer(t, n, "rollback", FALSE, Absent) /\ UNCHANGED <<db, txs, held>>
    <2>1. txs[n][t].hasLock = FALSE
      BY <1>3 DEF NoTx
    <2>2. \A h \in held' : ~(h.tx = t /\ h.node = n)
      BY <1>3, <2>1, NoLockWithout
    <2> HIDE DEF q
    <2> QED
      BY <1>1, <1>2, <1>3, <2>1, <2>2, ServedExact
  <1>4. CASE /\ Undo(t, n) /\ held' = held \ {LockOf(t, n)}
             /\ todo' = todo \ {q} /\ Answer(t, n, "rollback", TRUE, Absent)
    <2>1. NoTx.hasLock = FALSE
      BY DEF NoTx
    <2>2. txs'[n][t] = NoTx /\ \A m \in Node, u \in Client : m # n \/ u # t => txs'[m][u] = txs[m][u]
      BY <1>4, UndoType, ChangedRecord
    <2>3. \A h \in held' : ~(h.tx = t /\ h.node = n)
      BY <1>4, IsLockOf
    <2>4. held' \subseteq held
      BY <1>4
    <2> HIDE DEF q
    <2> QED
      BY <1>1, <1>2, <1>4, <2>1, <2>2, <2>3, <2>4, ServedExact
  <1>5. CASE /\ ~txs[n][t].hasLock /\ todo' = (todo \ {q}) \union {p} /\ UNCHANGED <<db, txs, held, co>>
    <2>1. p.tx = t /\ p.node = n /\ PhaseOf(p.what) = "rollback"
      BY DEF Request, PhaseOf
    <2>2. \A u \in Client, m \in Node : /\ Request(u, m, "locking") # p
                                        /\ Request(u, m, "relocking") = p => u = t /\ m = n
      BY DEF Request
    <2> HIDE DEF p, q
    <2>3. /\ co[t].wait = n /\ co[t].reply = "" /\ co[t].phase = "rollback"
          /\ \A r \in todo : r # q => r.tx # t
      BY <1>1, Serving
    <2>4. \A r \in todo' : /\ co'[r.tx].wait = r.node /\ co'[r.tx].reply = "" /\ co'[r.tx].phase = PhaseOf(r.what)
                           /\ \A s \in todo' : r.tx = s.tx => r = s
      BY <1>5, <2>1, <2>3, ZenonT(60) DEF Exact, Awaited
    <2>5. \A u \in Client, m \in Node :
            /\ txs'[m][u].hasLock => txs'[m][u].cmd = "some"
            /\ Request(u, m, "locking") \in todo' => txs'[m][u].cmd = "some"
            /\ Request(u, m, "relocking") \in todo' => ~txs'[m][u].hasLock
      BY <1>5, <2>2 DEF Exact, Recorded
    <2> QED
      BY <1>5, <2>4, <2>5 DEF ExactNext, Exact, HeldInTime, OneByOne, Recorded
  <1> QED
    BY <1>3, <1>4, <1>5 DEF execRollback, LockOf

\* A rollback that has locked the keys again leaves no locks.
LEMMA RollbackLockExact ==
    ASSUME TccType, Orderly, Exact, NEW t \in Client, NEW n \in Node, RollbackLock(t, n)
    PROVE  ExactNext
  <1> DEFINE q == Request(t, n, "relocking")
  <1>1. /\ q \in todo /\ q.tx = t /\ q.node = n /\ todo' = todo \ {q} /\ Undo(t, n) /\ held' = held
        /\ Answer(t, n, "rollback", TRUE, Absent) /\ PhaseOf("relocking") = "rollback"
    BY DEF RollbackLock, Request, PhaseOf
  <1>2. /\ co[t].phase = "rollback"
        /\ co'[t].phase = co[t].phase /\ co'[t].wait = n /\ co'[t].left = co[t].left
        /\ \A u \in Client : u # t => co'[u] = co[u]
    BY <1>1, Reaches DEF q
  <1>3. NoTx.hasLock = FALSE
    BY DEF NoTx
  <1>4. txs'[n][t] = NoTx /\ \A m \in Node, u \in Client : m # n \/ u # t => txs'[m][u] = txs[m][u]
    BY <1>1, UndoType, ChangedRecord
  <1>5. \A h \in held' : ~(h.tx = t /\ h.node = n)
    <2>1. ~txs[n][t].hasLock
      BY <1>1 DEF Exact, Recorded
    <2> QED
      BY <1>1, <2>1, NoLockWithout
  <1> HIDE DEF q
  <1> QED
    BY <1>1, <1>2, <1>3, <1>4, <1>5, ServedExact

\* A record that expires belongs to a command that is done and has no locks.
LEMMA ForgetExact ==
    ASSUME TccType, Orderly, Exact, NEW t \in Client, NEW n \in Node, Forget(t, n)
    PROVE  ExactNext
  <1>1. co[t].phase = "done" /\ held' = held /\ todo' = todo /\ co' = co /\ Records(t, n, NoTx)
    BY NewTxType DEF Forget, Records
  <1>2. txs'[n][t] = NoTx /\ \A m \in Node, u \in Client : m # n \/ u # t => txs'[m][u] = txs[m][u]
    BY <1>1, ChangedRecord
  <1>3. (\A r \in todo : r.tx # t) /\ (\A h \in held : h.tx # t /\ h.tx \in Client /\ h.node \in Node)
    BY <1>1 DEF Exact, Awaited, PhaseOf, HeldInTime, Timely, TccType, Lock
  <1>4. NoTx.hasLock = FALSE
    BY DEF NoTx
  <1>5. \A u \in Client, m \in Node : Request(u, m, "locking").tx = u /\ Request(u, m, "relocking").tx = u
    BY DEF Request
  <1>6. \A u \in Client, m \in Node :
          /\ txs'[m][u].hasLock => txs'[m][u].cmd = "some"
          /\ Request(u, m, "locking") \in todo' => txs'[m][u].cmd = "some"
          /\ Request(u, m, "relocking") \in todo' => ~txs'[m][u].hasLock
    BY <1>1, <1>2, <1>3, <1>4, <1>5, SMTT(30) DEF Exact, Recorded
  <1>7. \A h \in held' : txs'[h.node][h.tx].hasLock
    BY <1>1, <1>2, <1>3 DEF Exact, Recorded
  <1> QED
    BY <1>1, <1>6, <1>7 DEF ExactNext, Exact, Awaited, HeldInTime, OneByOne

\* A record that says it has its locks has them, whatever times out: the record and the
\* locks change together.
LEMMA LocksRecorded ==
    ASSUME TccType, Orderly, Next
    PROVE  \A u \in Client, m \in Node : txs'[m][u].hasLock => LockOf(u, m) \in held'
  <1>1. PICK t \in Client : Serve(t) \/ Timeout(t) \/ \E n \in Node : Forget(t, n)
    BY DEF Next
  <1>2. \A u \in Client, m \in Node : txs[m][u].hasLock => LockOf(u, m) \in held
    BY DEF Orderly
  <1>3. ASSUME NEW n \in Node, NEW x, Records(t, n, x),
               x.hasLock => LockOf(t, n) \in held', held \ {LockOf(t, n)} \subseteq held'
        PROVE  \A u \in Client, m \in Node : txs'[m][u].hasLock => LockOf(u, m) \in held'
    <2>1. txs'[n][t] = x /\ \A m \in Node, u \in Client : m # n \/ u # t => txs'[m][u] = txs[m][u]
      BY <1>3, ChangedRecord
    <2>2. \A u \in Client, m \in Node : LockOf(u, m) = LockOf(t, n) => u = t /\ m = n
      BY DEF LockOf
    <2> QED
      BY <1>2, <1>3, <2>1, <2>2
  <1>4. NoTx.hasLock = FALSE /\ NewTx.hasLock = FALSE
    BY DEF NoTx, NewTx
  <1>5. CASE Local(t) \/ Start(t) \/ Receive(t) \/ Timeout(t)
    BY <1>2, <1>5 DEF Local, Start, Receive, Timeout
  <1>6. ASSUME NEW n \in Node, Send(t, n)
        PROVE  \A u \in Client, m \in Node : txs'[m][u].hasLock => LockOf(u, m) \in held'
    BY <1>2, <1>6 DEF Send
  <1>7. ASSUME NEW n \in Node, PrepareCreate(t, n)
        PROVE  \A u \in Client, m \in Node : txs'[m][u].hasLock => LockOf(u, m) \in held'
    <2>1. Records(t, n, NewTx) /\ held' = held
      BY <1>7, NewTxType DEF PrepareCreate, Records
    <2> QED
      BY <1>3, <1>4, <2>1
  <1>8. ASSUME NEW n \in Node, PrepareLock(t, n)
        PROVE  \A u \in Client, m \in Node : txs'[m][u].hasLock => LockOf(u, m) \in held'
    <2> DEFINE fails == PrepareFails(Plan[t], n)
               x == [txs[n][t] EXCEPT !.undo = UndoLogs(Plan[t], n), !.hasLock = ~fails]
    <2>1. held' = IF fails THEN held ELSE held \union {LockOf(t, n)}
      BY <1>8 DEF PrepareLock, LockOf
    <2>2. CASE txs[n][t] = NoTx
      <3>1. txs' = txs
        BY <1>8, <2>2, PrepareLockType
      <3> QED
        BY <1>2, <2>1, <3>1
    <2>3. CASE txs[n][t] # NoTx
      <3>1. Records(t, n, x)
        BY <1>8, <2>3, PrepareLockType
      <3>2. x.hasLock = ~fails
        BY DEF TccType, Tx
      <3> HIDE DEF x, fails
      <3> QED
        BY <1>3, <2>1, <3>1, <3>2
    <2> QED
      BY <2>2, <2>3
  <1>9. ASSUME NEW n \in Node, execCommit(t, n)
        PROVE  \A u \in Client, m \in Node : txs'[m][u].hasLock => LockOf(u, m) \in held'
    <2> DEFINE x == [txs[n][t] EXCEPT !.hasLock = FALSE]
    <2>1. CASE txs[n][t] = NoTx
      BY <1>2, <1>9, <2>1, execCommitType
    <2>2. CASE txs[n][t] # NoTx
      <3>1. Records(t, n, x) /\ x.hasLock = FALSE
        BY <1>9, <2>2, execCommitType DEF TccType, Tx
      <3>2. held' = held \ {LockOf(t, n)}
        BY <1>9, <2>2 DEF execCommit, LockOf
      <3> HIDE DEF x
      <3> QED
        BY <1>3, <3>1, <3>2
    <2> QED
      BY <2>1, <2>2
  <1>10. ASSUME NEW n \in Node, execRollback(t, n)
        PROVE  \A u \in Client, m \in Node : txs'[m][u].hasLock => LockOf(u, m) \in held'
    <2>1. CASE txs' = txs /\ held' = held
      BY <1>2, <2>1
    <2>2. CASE Undo(t, n) /\ held' = held \ {LockOf(t, n)}
      <3>1. Records(t, n, NoTx)
        BY <2>2, UndoType
      <3> QED
        BY <1>3, <1>4, <2>2, <3>1
    <2> QED
      BY <1>10, <2>1, <2>2 DEF execRollback, LockOf
  <1>11. ASSUME NEW n \in Node, RollbackLock(t, n) \/ Forget(t, n)
        PROVE  \A u \in Client, m \in Node : txs'[m][u].hasLock => LockOf(u, m) \in held'
    <2>1. Records(t, n, NoTx) /\ held' = held
      BY <1>11, NewTxType, UndoType DEF RollbackLock, Forget, Records
    <2> QED
      BY <1>3, <1>4, <2>1
  <1> QED
    BY <1>1, <1>5, <1>6, <1>7, <1>8, <1>9, <1>10, <1>11 DEF Serve

\* If nobody has stopped waiting, nobody does in this step.
LEMMA NoTimeout ==
    ASSUME TccType, timeouts' = 0, NEW t \in Client
    PROVE  ~Timeout(t)
  <1>1. timeouts \in Nat
    BY DEF TccType
  <1>2. timeouts' # timeouts + 1
    BY <1>1
  <1>3. Timeout(t) => timeouts' = timeouts + 1
    BY TimeoutType
  <1> QED
    BY <1>2, <1>3, Zenon

\* While nobody stops waiting, every step preserves Exact.
LEMMA ExactStep ==
    ASSUME TccType, Orderly, Exact, Next, timeouts' = 0
    PROVE  Exact'
  <1>1. PICK t \in Client : Serve(t) \/ Timeout(t) \/ \E n \in Node : Forget(t, n)
    BY DEF Next
  <1>2. ~Timeout(t)
    BY NoTimeout
  <1>3. ExactNext
    BY <1>1, <1>2, LocalExact, StartExact, ReceiveExact, SendExact, PrepareCreateExact, PrepareLockExact,
       execCommitExact, execRollbackExact, RollbackLockExact, ForgetExact DEF Serve
  <1> QED
    BY <1>3, ExactNextIs DEF Next

\* Once somebody has stopped waiting, this stays so.
LEMMA TimeoutsCounted ==
    ASSUME TccType, Next, timeouts' = 0
    PROVE  timeouts = 0
  <1>1. PICK t \in Client : Serve(t) \/ Timeout(t) \/ \E n \in Node : Forget(t, n)
    BY DEF Next
  <1>2. ~Timeout(t)
    BY NoTimeout
  <1> QED
    BY <1>1, <1>2 DEF Serve, Local, Start, Receive, Send, PrepareCreate, PrepareLock, execCommit, execRollback,
       RollbackLock, Forget

\* The invariant holds initially.
LEMMA InitInv == ASSUME Init PROVE TccInv
  <1>1. TccType
    BY InitType
  <1>2. ASSUME NEW t \in Client
        PROVE  co[t].phase = "new" /\ co[t].wait = "" /\ co[t].left = {} /\ co[t].reply = ""
    BY DEF Init
  <1>3. \A t \in Client, n \in Node : txs[n][t].hasLock = FALSE
    BY DEF Init, NoTx
  <1>4. Orderly
    BY <1>2, <1>3 DEF Orderly, InPhase
  <1>5. held = {} /\ todo = {}
    BY DEF Init
  <1>6. OneByOne
    BY <1>2 DEF OneByOne, InTurn
  <1>7. Awaited /\ Recorded /\ HeldInTime
    BY <1>3, <1>5 DEF Awaited, Recorded, HeldInTime
  <1> QED
    BY <1>1, <1>4, <1>6, <1>7 DEF TccInv, Punctual, Exact

\* Every step preserves the invariant.
LEMMA NextInv == ASSUME TccInv, Next PROVE TccInv'
  <1>1. TccType /\ Orderly /\ Punctual
    BY DEF TccInv
  <1>2. TccType'
    BY <1>1, NextType
  <1>3. Orderly'
    BY <1>1, InPhaseNext, LocksRecorded DEF Orderly, InPhase, LockOf
  <1>4. Punctual'
    BY <1>1, TimeoutsCounted, ExactStep DEF Punctual
  <1> QED
    BY <1>2, <1>3, <1>4 DEF TccInv

\* So does a step of another part of the system.
LEMMA StutterInv == ASSUME TccInv, UNCHANGED vars PROVE TccInv'
  <1>1. TccType /\ Orderly /\ Punctual
    BY DEF TccInv
  <1>2. /\ scene' = scene /\ db' = db /\ txs' = txs /\ held' = held /\ todo' = todo /\ co' = co
        /\ timeouts' = timeouts /\ committed' = committed /\ got' = got
    BY DEF vars
  <1>3. TccType'
    BY <1>1, <1>2 DEF TccType
  <1>4. Orderly'
    BY <1>1, <1>2 DEF Orderly, InPhase, LockOf
  <1>5. Exact => ExactNext
    BY <1>2 DEF Exact, ExactNext, Awaited, Recorded, HeldInTime, OneByOne
  <1>6. Punctual'
    BY <1>1, <1>2, <1>5, ExactNextIs DEF Punctual
  <1> QED
    BY <1>3, <1>4, <1>6 DEF TccInv

\* The invariant says that a command which is done has no locks.
LEMMA InvLocksReleased == ASSUME TccInv PROVE LocksReleased
  <1>1. TccType /\ Orderly /\ Punctual
    BY DEF TccInv
  <1>2. TypeOK
    <2>1. db \in [Key -> Int \union {Absent}]
      BY <1>1 DEF TccType, Value
    <2>2. \A h \in held : h.tx \in Client /\ h.node \in Node /\ h.by = "prepare"
      BY <1>1 DEF TccType, Lock
    <2>3. \A r \in todo : r.tx \in Client /\ r.node \in Node
                         /\ r.what \in {"prepare", "locking", "commit", "rollback", "relocking"}
      BY <1>1 DEF TccType
    <2>4. \A t \in Client :
            /\ co[t].phase \in {"new", "prepare", "commit", "rollback", "done"} /\ co[t].left \subseteq Node
            /\ co[t].phase = "done" => co[t].out \in {"ok", "err"} /\ co[t].wait = ""
      BY <1>1 DEF TccType, Coordinator, Orderly, InPhase
    <2>5. \A t \in Client, n \in Node : txs[n][t].hasLock => [tx |-> t, node |-> n, by |-> "prepare"] \in held
      BY <1>1 DEF Orderly, LockOf
    <2> QED
      BY <2>1, <2>2, <2>3, <2>4, <2>5 DEF TypeOK
  <1>3. timeouts = 0 /\ (\A t \in Client : co[t].phase = "done") => held = {}
    <2> SUFFICES ASSUME timeouts = 0, \A t \in Client : co[t].phase = "done", NEW h \in held PROVE FALSE
      OBVIOUS
    <2>1. h.tx \in Client
      BY <1>1 DEF TccType, Lock
    <2>2. Timely(h, co[h.tx])
      BY <1>1 DEF Punctual, Exact, HeldInTime
    <2> QED
      BY <2>1, <2>2 DEF Timely
  <1> QED
    BY <1>2, <1>3 DEF LocksReleased

\* For any nodes, keys, commands and delays: a transaction that says it has its locks has
\* them, and when every command has returned and no coordinator has stopped waiting, no
\* key is locked ("unlock regardless of result", tcc.go).
THEOREM LocksAreReleased == Spec => []LocksReleased
  <1>1. Init => TccInv
    BY InitInv
  <1>2. TccInv /\ [Next]_vars => TccInv'
    BY NextInv, StutterInv
  <1>3. TccInv => LocksReleased
    BY InvLocksReleased
  <1> QED
    BY <1>1, <1>2, <1>3, PTL DEF Spec

=============================================================================
