----------------------------- MODULE SlotTable -----------------------------
(***************************************************************************)
(* The routing table that the nodes of a cluster replicate through raft:   *)
(* cluster/raft/fsm.go, fsm_utils.go, and the rebalance plan the leader    *)
(* makes from it (cluster/core/node_manager.go).                           *)
(*                                                                         *)
(* A table has n2s (Node2Slot, slices), s2n (Slot2Node), tasks             *)
(* (Migratings), ms (MasterSlaves: a sequence of slaves, or NotMaster) and *)
(* sm (SlaveMasters).  A slice is a sequence; where the code goes through  *)
(* a slice while it shifts its elements, the array below is modelled too.  *)
(***************************************************************************)
EXTENDS Integers, SequencesExt

CONSTANTS Node, None, NotMaster,
          SlotCount    \* 1024 in the code

Slot == 0 .. SlotCount - 1

Empty ==
    [n2s |-> [n \in Node |-> <<>>], s2n |-> [s \in Slot |-> None], tasks |-> {},
     ms |-> [n \in Node |-> NotMaster], sm |-> [n \in Node |-> None]]

\* sort.Search for the first element >= s, by bisection, whether or not the
\* slice is sorted; 1 .. Len(a) + 1.
Search(a, s) ==
    LET find[i \in 0 .. Len(a), j \in 0 .. Len(a)] ==
          LET h == (i + j) \div 2
          IN  IF i >= j THEN i ELSE IF a[h + 1] >= s THEN find[i, h] ELSE find[h + 1, j]
    IN  find[0, Len(a)] + 1

addSlot(f, n, s) ==
    LET a == f.n2s[n]
        i == Search(a, s)
    IN  [f EXCEPT !.n2s[n] = IF i <= Len(a) /\ a[i] = s THEN a ELSE InsertAt(a, i, s), !.s2n[s] = n]

addSlots(f, n, slots) == FoldLeft(LAMBDA g, s : addSlot(g, n, s), f, slots)

removeSlot(f, n, s) ==
    LET a == f.n2s[n]
        i == Search(a, s)
        end == CHOOSE j \in i .. Len(a) + 1 :
                 /\ \A k \in i .. j - 1 : a[k] = s
                 /\ j <= Len(a) => a[j] # s
    IN  [f EXCEPT !.n2s[n] = SubSeq(a, 1, i - 1) \o SubSeq(a, end, Len(a)),
                  !.s2n[s] = IF @ = n THEN None ELSE @]

removeSlots(f, n, slots) == FoldLeft(LAMBDA g, s : removeSlot(g, n, s), f, slots)

\* removeSlots(n, Node2Slot[n]): the loop reads the array that it shifts.
removeOwnSlots(f, n) ==
    LET step(st, i) ==
          LET g == removeSlot(st.f, n, st.arr[i])
              b == g.n2s[n]
          IN  [f |-> g, arr |-> b \o SubSeq(st.arr, Len(b) + 1, Len(st.arr))]
        slots == f.n2s[n]
    IN  FoldLeft(step, [f |-> f, arr |-> slots], [i \in 1 .. Len(slots) |-> i]).f

\* Variant: the other slaves keep the old master.
failover_KeepsSlaves(f, old, new) ==
    [f EXCEPT !.ms[old] = NotMaster, !.ms[new] = <<old>>, !.sm[old] = new, !.sm[new] = None]

failover(f, old, new) ==
    LET others == SelectSeq(f.ms[old], LAMBDA s : s # new)
    IN  [f EXCEPT !.ms = [@ EXCEPT ![old] = NotMaster, ![new] = Append(others, old)],
                  !.sm = [n \in Node |-> IF n = new THEN None
                                         ELSE IF n = old \/ n \in ToSet(others) THEN new ELSE @[n]]]

addNode(f, id, master) ==
    IF master = None THEN [f EXCEPT !.ms[id] = <<>>]
    ELSE IF f.ms[master] = NotMaster THEN f
    ELSE [f EXCEPT !.ms[master] = IF id \in ToSet(@) THEN @ ELSE Append(@, id), !.sm[id] = master]

-----------------------------------------------------------------------------
\* FSM.Apply
StartMigrate(f, task) == [f EXCEPT !.tasks = @ \union {task}]

FinishMigrate(f, task) ==
    removeSlots(addSlots([f EXCEPT !.tasks = {t \in @ : t.id # task.id}], task.target, task.slots), task.src, task.slots)

SeedStart(f, node) ==
    addNode([f EXCEPT !.s2n = [s \in Slot |-> node], !.n2s[node] = [i \in 1 .. SlotCount |-> i - 1]], node, None)

\* Variant: the slots are not handed over.
FinishFailover_NoSlots(f, old, new) == failover(f, old, new)

FinishFailover(f, old, new) ==
    removeOwnSlots(addSlots(failover(f, old, new), new, f.n2s[old]), old)

Apply(f, entry) ==
    CASE entry.event = "start" -> StartMigrate(f, entry.task)
      [] entry.event = "finish" -> FinishMigrate(f, entry.task)
      [] entry.event = "seed" -> SeedStart(f, entry.node)
      [] entry.event = "failover" -> FinishFailover(f, entry.old, entry.new)
      [] entry.event = "join" -> addNode(f, entry.node, entry.master)

\* Snapshot, and Restore from it into table f: the lists of slots come in the
\* order of a Go map, and SlaveMasters is written over, not replaced.
Snapshot(f) == [s2n |-> f.s2n, tasks |-> f.tasks, ms |-> f.ms]

\* Variant: the migrations of the snapshot are not taken over.
Restore_KeepsTasks(f, snap, order) ==
    [n2s |-> [n \in Node |-> SelectSeq(order, LAMBDA s : snap.s2n[s] = n)], s2n |-> snap.s2n,
     tasks |-> f.tasks, ms |-> snap.ms, sm |-> f.sm]

Restore(f, snap, order) ==
    [n2s |-> [n \in Node |-> SelectSeq(order, LAMBDA s : snap.s2n[s] = n)],
     s2n |-> snap.s2n, tasks |-> snap.tasks, ms |-> snap.ms,
     sm |-> [n \in Node |->
               IF \E m \in Node : snap.ms[m] # NotMaster /\ n \in ToSet(snap.ms[m])
               THEN CHOOSE m \in Node : snap.ms[m] # NotMaster /\ n \in ToSet(snap.ms[m])
               ELSE f.sm[n]]]

-----------------------------------------------------------------------------
Masters(f) == {n \in Node : f.ms[n] # NotMaster}

avgSlot(f) == (SlotCount + Cardinality(Masters(f)) - 1) \div Cardinality(Masters(f))

exportingNodes(f, order) == SelectSeq(order, LAMBDA n : Len(f.n2s[n]) > avgSlot(f) + 1)

\* Variant: a node for which Node2Slot has no entry yet is passed over.
importingNodes_NoEntry(f, order) ==
    SelectSeq(order, LAMBDA n : f.n2s[n] # <<>> /\ Len(f.n2s[n]) < avgSlot(f) - 1)

importingNodes(f, order) == SelectSeq(order, LAMBDA n : Len(f.n2s[n]) < avgSlot(f) - 1)

\* Variant: the slots that are given away stay available.
PlanStep_KeepsSlots(f, E, I, st) ==
    IF st.imp > Len(I) \/ st.exp > Len(E) THEN st ELSE
    LET src == E[st.exp]
        have == SubSeq(f.n2s[src], 1, Len(f.n2s[src]) - avgSlot(f))
    IN  [st EXCEPT !.plan = Append(@, [src |-> src, target |-> I[st.imp], slots |-> have]), !.imp = @ + 1]

\* One turn of the loop of makeRebalancePlan.
PlanStep(f, E, I, st) ==
    IF st.imp > Len(I) \/ st.exp > Len(E) THEN st ELSE
    LET src == E[st.exp]
        have == IF st.slots # <<>> THEN st.slots ELSE SubSeq(f.n2s[src], 1, Len(f.n2s[src]) - avgSlot(f))
        need == avgSlot(f) - Len(f.n2s[I[st.imp]])
        task(slots) == [src |-> src, target |-> I[st.imp], slots |-> slots]
    IN  IF need <= Len(have)
        THEN [st EXCEPT !.plan = Append(@, task(SubSeq(have, 1, need))),
                        !.slots = SubSeq(have, need + 1, Len(have)), !.imp = @ + 1]
        ELSE [st EXCEPT !.plan = Append(@, task(have)), !.slots = <<>>, !.exp = @ + 1]

\* makeRebalancePlan; order: the masters as the Go map yields them.
makeRebalancePlan(f, order) ==
    LET E == exportingNodes(f, order)
        I == importingNodes(f, order)
    IN  FoldLeft(LAMBDA st, i : PlanStep(f, E, I, st), [plan |-> <<>>, slots |-> <<>>, imp |-> 1, exp |-> 1],
                 [i \in 1 .. Len(E) + Len(I) |-> i]).plan
=============================================================================
