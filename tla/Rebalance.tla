----------------------------- MODULE Rebalance -----------------------------
(***************************************************************************)
(* The nodes of a cluster with their copies of the slot table: joining,    *)
(* the leader's cron (failover, rebalance), the steps of a migration, and  *)
(* restarts from a snapshot and the log.  cluster/core/node_manager.go,    *)
(* replica_manager.go, cron.go, migration.go (which slots, not their       *)
(* data), cluster/raft.                                                    *)
(*                                                                         *)
(* Raft is external: one log, applied by every node in order.  The leader  *)
(* stays the same; Propose returns once it has applied the entry itself.   *)
(* A migration task keeps the slots of the time the plan was made.         *)
(***************************************************************************)
EXTENDS SlotTable

CONSTANTS Leader,
          Orders,        \* orders in which Restore may go through the map of slots
          Scenes         \* clusters, and bounds on what happens to them

\* A behaviour is about one of the Scenes.
VARIABLE scene

MasterOf == scene.masterOf     \* whose slave a node joins as, or None
InitialLog == scene.log        \* what the cluster has been through before
Joining == scene.joining       \* the nodes that are to join
MaxTasks == scene.tasks
MaxTimeouts == scene.timeouts
MaxFailovers == scene.failovers
MaxRestarts == scene.restarts
MaxInstalls == scene.installs

VARIABLES log, fsm, applied,
          members,       \* raft's configuration
          pending,       \* the plan of doRebalance, what is left of it
          starting,      \* the task whose target is being told, or None
          imports,       \* the doImports in progress
          importing,     \* per node: slotsManager.importingTask
          exporting,     \* per node: the slots in slotStateExporting
          follows,       \* per node: the master it replicates, or None
          count          \* of the bounded events

vars == <<scene, log, fsm, applied, members, pending, starting, imports, importing, exporting, follows, count>>

Table(entries) == FoldLeft(Apply, Empty, entries)

HasTask(n, task) == \E t \in fsm[n].tasks : t.id = task.id

Init ==
    /\ scene \in Scenes
    /\ log = InitialLog
    /\ members = scene.members
    /\ fsm = [n \in Node |-> IF n \in members THEN Table(InitialLog) ELSE Empty]
    /\ applied = [n \in Node |-> IF n \in members THEN Len(InitialLog) ELSE 0]
    /\ pending = <<>> /\ starting = None /\ imports = {}
    /\ importing = [n \in Node |-> None] /\ exporting = [n \in Node |-> {}]
    /\ follows = [n \in Node |-> fsm[n].sm[n]]
    /\ count = [tasks |-> 0, timeouts |-> 0, failovers |-> 0, restarts |-> 0, installs |-> 0]

Propose(entry) ==
    /\ log' = Append(log, entry)
    /\ fsm' = [fsm EXCEPT ![Leader] = Apply(@, entry)]
    /\ applied' = [applied EXCEPT ![Leader] = @ + 1]

\* execJoin at the leader.
Join(n) ==
    /\ n \in Joining \ members
    /\ members' = members \union {n}
    /\ Propose([event |-> "join", node |-> n, master |-> MasterOf[n]])
    /\ UNCHANGED <<scene, pending, starting, imports, importing, exporting, follows, count>>

\* Another node applies the next entry.  FSM.changed is nil: nobody sets it,
\* and so the callback that registerOnFailover prepares is not called.
ApplyNext(n) ==
    /\ n \in members \ {Leader} /\ applied[n] < Len(log)
    /\ fsm' = [fsm EXCEPT ![n] = Apply(@, log[applied[n] + 1])]
    /\ applied' = [applied EXCEPT ![n] = @ + 1]
    /\ UNCHANGED <<scene, log, members, pending, starting, imports, importing, exporting, follows, count>>

\* The cron of the leader is free.
Idle == pending = <<>> /\ starting = None

\* doRebalance
MakePlan(order) ==
    /\ Idle
    /\ LET plan == makeRebalancePlan(fsm[Leader], order)
       IN  /\ plan # <<>> /\ count.tasks + Len(plan) <= MaxTasks
           /\ pending' = [i \in 1 .. Len(plan) |->
                [id |-> count.tasks + i, src |-> plan[i].src, target |-> plan[i].target, slots |-> plan[i].slots]]
           /\ count' = [count EXCEPT !.tasks = @ + Len(plan)]
    /\ UNCHANGED <<scene, log, fsm, applied, members, starting, imports, importing, exporting, follows>>

triggerMigrationTask ==
    /\ pending # <<>> /\ starting = None
    /\ Propose([event |-> "start", task |-> Head(pending)])
    /\ starting' = Head(pending) /\ pending' = Tail(pending)
    /\ UNCHANGED <<scene, members, imports, importing, exporting, follows, count>>

\* At the target, which has the task from raft by now.
execStartMigration ==
    /\ starting # None /\ HasTask(starting.target, starting)
    /\ importing' = [importing EXCEPT ![starting.target] = starting]
    /\ imports' = imports \union {[task |-> starting, step |-> "export"]}
    /\ starting' = None
    /\ UNCHANGED <<scene, log, fsm, applied, members, pending, exporting, follows, count>>


\* A node that has not got the task from raft in five seconds refuses it.
TaskTimeout ==
    /\ count.timeouts < MaxTimeouts
    /\ count' = [count EXCEPT !.timeouts = @ + 1]
    /\ \/ /\ starting # None /\ ~HasTask(starting.target, starting)
          /\ starting' = None /\ UNCHANGED imports
       \/ \E i \in imports :
            /\ i.step = "export" /\ ~HasTask(i.task.src, i.task)
            /\ imports' = imports \ {i} /\ UNCHANGED starting
    /\ UNCHANGED <<scene, log, fsm, applied, members, pending, importing, exporting, follows>>

\* At the source.  A node that has a task refuses another one; importingTask is
\* never reset.
execExport(i) ==
    LET src == i.task.src
        slots == ToSet(i.task.slots)
    IN  /\ i \in imports /\ i.step = "export" /\ HasTask(src, i.task)
        /\ \/ /\ importing[src] # None
              /\ imports' = imports \ {i}
              /\ UNCHANGED <<importing, exporting>>
           \/ /\ importing[src] = None /\ slots \intersect exporting[src] = {}
              /\ importing' = [importing EXCEPT ![src] = i.task]
              /\ exporting' = [exporting EXCEPT ![src] = @ \union slots]
              /\ imports' = (imports \ {i}) \union {[i EXCEPT !.step = "finish"]}
        /\ UNCHANGED <<scene, log, fsm, applied, members, pending, starting, follows, count>>

\* execFinishExport at the source, and execMigrationChangeRoute at the leader.
execFinishExport(i) ==
    /\ i \in imports /\ i.step = "finish" /\ HasTask(i.task.src, i.task)
    /\ imports' = imports \ {i}
    /\ exporting' = [exporting EXCEPT ![i.task.src] = @ \ ToSet(i.task.slots)]
    /\ IF HasTask(Leader, i.task) THEN Propose([event |-> "finish", task |-> i.task])
       ELSE UNCHANGED <<log, fsm, applied>>
    /\ UNCHANGED <<scene, members, pending, starting, importing, follows, count>>

\* Variant: the new master is not told.
triggerFailover_Silent(old) ==
    /\ Idle /\ count.failovers < MaxFailovers
    /\ old \in Masters(fsm[Leader]) \ {Leader} /\ fsm[Leader].ms[old] # <<>>
    /\ Propose([event |-> "failover", old |-> old, new |-> Head(fsm[Leader].ms[old])])
    /\ count' = [count EXCEPT !.failovers = @ + 1]
    /\ UNCHANGED <<scene, members, pending, starting, imports, importing, exporting, follows>>

\* doFailoverCheck and triggerFailover: the leader has not heard of a master.
triggerFailover(old) ==
    /\ Idle /\ count.failovers < MaxFailovers
    /\ old \in Masters(fsm[Leader]) \ {Leader} /\ fsm[Leader].ms[old] # <<>>
    /\ LET new == Head(fsm[Leader].ms[old])
       IN  /\ follows' = [follows EXCEPT ![new] = None]
           /\ Propose([event |-> "failover", old |-> old, new |-> new])
    /\ count' = [count EXCEPT !.failovers = @ + 1]
    /\ UNCHANGED <<scene, members, pending, starting, imports, importing, exporting>>

\* A node starts again, from a snapshot of what it had applied at some time, and
\* replicates the master that this snapshot names.
Restart(n) ==
    /\ n \in members \ {Leader} /\ count.restarts < MaxRestarts
    /\ count' = [count EXCEPT !.restarts = @ + 1]
    /\ \E at \in 0 .. applied[n] : \E order \in Orders :
         LET f == IF at = 0 THEN Empty ELSE Restore(Empty, Snapshot(Table(SubSeq(log, 1, at))), order)
         IN  /\ fsm' = [fsm EXCEPT ![n] = f]
             /\ follows' = [follows EXCEPT ![n] = f.sm[n]]
             /\ applied' = [applied EXCEPT ![n] = at]
    /\ importing' = [importing EXCEPT ![n] = None]
    /\ exporting' = [exporting EXCEPT ![n] = {}]
    /\ imports' = {i \in imports : i.task.target # n}
    /\ UNCHANGED <<scene, log, members, pending, starting>>

\* A node that is far behind gets the leader's snapshot instead of the log.
InstallSnapshot(n) ==
    /\ n \in members \ {Leader} /\ applied[n] < Len(log) /\ count.installs < MaxInstalls
    /\ count' = [count EXCEPT !.installs = @ + 1]
    /\ \E order \in Orders : fsm' = [fsm EXCEPT ![n] = Restore(@, Snapshot(fsm[Leader]), order)]
    /\ applied' = [applied EXCEPT ![n] = Len(log)]
    /\ UNCHANGED <<scene, log, members, pending, starting, imports, importing, exporting, follows>>

-----------------------------------------------------------------------------
Step ==
    \/ \E n \in Node : Join(n) \/ ApplyNext(n)
    \/ \E order \in SetToSeqs(Masters(fsm[Leader])) : MakePlan(order)
    \/ triggerMigrationTask \/ execStartMigration
    \/ \E i \in imports : execExport(i) \/ execFinishExport(i)

Next ==
    \/ Step
    \/ TaskTimeout
    \/ \E n \in Node : triggerFailover(n) \/ Restart(n) \/ InstallSnapshot(n)

Spec == Init /\ [][Next]_vars

\* When a Step can be taken: its guards.
CanStep ==
    \/ Joining \ members # {}
    \/ \E n \in members : applied[n] < Len(log)
    \/ Idle /\ \E order \in SetToSeqs(Masters(fsm[Leader])) :
         LET plan == makeRebalancePlan(fsm[Leader], order) IN plan # <<>> /\ count.tasks + Len(plan) <= MaxTasks
    \/ pending # <<>> /\ starting = None
    \/ starting # None /\ HasTask(starting.target, starting)
    \/ \E i \in imports : HasTask(i.task.src, i.task)

-----------------------------------------------------------------------------
TypeOK ==
    /\ \A n \in Node : applied[n] \in 0 .. Len(log) /\ (n \notin members => applied[n] = 0)
    /\ applied[Leader] = Len(log)
    /\ \A i \in imports : i.step \in {"export", "finish"} /\ ToSet(i.task.slots) \subseteq Slot
    /\ \A n \in Node : exporting[n] \subseteq Slot

\* "nodeID -> slotIDs, slotIDs is in ascending order and distinct" (fsm.go), and
\* the two maps of a table say the same, over joins and migrations.  (A failover
\* shifts the slice it reads; Restore fills the slices in the order of a map.)
Consistent ==
    count.failovers + count.restarts + count.installs = 0 => \A n, m \in Node :
        LET slots == fsm[n].n2s[m]
        IN  /\ \A i \in 1 .. Len(slots) - 1 : slots[i] < slots[i + 1]
            /\ ToSet(slots) = {s \in Slot : fsm[n].s2n[s] = m}

\* Nodes that have applied the same entries route alike, whatever snapshots they
\* have started from.
RoutesAgree ==
    \A n, m \in members :
        applied[n] = applied[m] =>
            fsm[n].s2n = fsm[m].s2n /\ fsm[n].tasks = fsm[m].tasks /\ fsm[n].ms = fsm[m].ms

\* Every slot is routed to a master, over migrations and failovers.
HostsAreMasters ==
    \A n \in Node : applied[n] > 0 => \A s \in Slot : fsm[n].s2n[s] \in Masters(fsm[n])

\* Masters and slaves agree on who they are: GetMaster "Returns empty string
\* ("") if id points to a master node" (fsm_utils.go), and a slave is listed.
\* The state is well-typed.
RolesConsistent ==
    TypeOK /\ \A n, x, m \in Node : fsm[n].sm[x] = m <=> (m \in Masters(fsm[n]) /\ x \in ToSet(fsm[n].ms[m]))

\* A plan takes a slot from its host, and gives it to one node.
PlanSound ==
    /\ \A i, j \in DOMAIN pending : i # j => ToSet(pending[i].slots) \intersect ToSet(pending[j].slots) = {}
    /\ \A i \in DOMAIN pending : pending[i].slots # <<>> /\ pending[i].src # pending[i].target

\* A node that the cluster calls a master replicates nobody: triggerFailover tells
\* the new master before raft tells the others.  (Nothing tells the other slaves,
\* or a node that restarts from a snapshot of before: FSM.changed is nil.)
MastersStandAlone ==
    count.restarts = 0 => \A n \in Masters(fsm[Leader]) : follows[n] = None

\* What the cluster reaches: when one node joins, each master gets its share of the
\* slots, although a node may refuse a task that it has not heard of yet.
\* (A node takes part in one migration in its life, so a second one that joins
\* may wait for ever.)
Balanced ==
    Cardinality(Joining) = 1 /\ MaxTimeouts > 0 =>
        \A n \in Masters(fsm[Leader]) : Len(fsm[Leader].n2s[n]) >= avgSlot(fsm[Leader]) - 1
=============================================================================
