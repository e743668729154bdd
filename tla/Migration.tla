------------------------------ MODULE Migration ------------------------------
(***************************************************************************)
(* The data of one slot while it moves from a source to a target node:      *)
(* cluster/core/migration.go and execMigrationChangeRoute of                *)
(* cluster/core/node_manager.go.  Rebalance has the tasks and the raft log; *)
(* here one task exists and its slot has keys that clients write.  A value  *)
(* is the number of the write it comes from, 0 for a key that is absent.    *)
(* A command holds the lock of its key until its callback has returned.     *)
(***************************************************************************)
EXTENDS Naturals, FiniteSets, Sequences

CONSTANTS Keys,              \* keys of the slot
          FirstKeys,         \* those that exist at the start
          MigrationScenes    \* [ops, writes, may]: what clients do and what may happen

\* A behaviour is about one of the MigrationScenes.
VARIABLE traffic

Ops == traffic.ops
MaxWrites == traffic.writes                          \* bound on the writes
WritesInFinish == "write in finish" \in traffic.may  \* a write runs at the source while it finishes
EarlyServe == "early serve" \in traffic.may          \* the target is written before it has all data
RouteFails == "route fails" \in traffic.may          \* the change of the route fails
SourceRestarts == "restart" \in traffic.may          \* the source is restarted before the migration

Source == "source"
Target == "target"
Ends == {Source, Target}
Free == "free"
NoValue == 0

VARIABLES data,   \* data[m][k]: the value of a key at a node
          slot,   \* slotStatus of the source: state, keys, dirtyKeys, mu
          route,  \* route[m]: the node that hosts the slot as m has applied
          exp,    \* the source's handlers: [pc, left]
          imp,    \* doImports at the target
          stream, \* what the source has written and the target not yet executed
          wr,     \* the command under way on each key: [pc, node, new]
          acked,  \* the value of each key as the clients know
          writes  \* how many there were

MigrationVars == <<traffic, data, slot, route, exp, imp, stream, wr, acked, writes>>

Quiet == [pc |-> "none", node |-> Source, new |-> NoValue]

MigrationInit ==
    /\ traffic \in MigrationScenes
    /\ acked = [k \in Keys |-> IF k \in FirstKeys THEN 1 ELSE NoValue]
    /\ data = [m \in Ends |-> IF m = Source THEN acked ELSE [k \in Keys |-> NoValue]]
    /\ slot = [state |-> "hosting", keys |-> FirstKeys, dirty |-> {}, mu |-> Free]
    /\ route = [m \in Ends |-> Source]
    /\ exp = [pc |-> "idle", left |-> {}]
    /\ imp = "idle"
    /\ stream = <<>>
    /\ wr = [k \in Keys |-> Quiet]
    /\ writes = 1

-----------------------------------------------------------------------------
(* Writes of clients, and the callbacks that record them *)

\* the source is between the lock of the slot and the change of its own route
Finishing == route[Source] = Source /\ exp.pc \in {"dirty", "route", "changed", "refused", "end", "drop", "stuck"}

\* a command under way at node m holds the lock of key k
Locked(m, k) == wr[k].pc # "none" /\ wr[k].node = m

Served(m) ==
    /\ route[m] = m
    /\ WritesInFinish \/ ~(m = Source /\ Finishing)
    /\ EarlyServe \/ ~(m = Target /\ imp # "done")

\* a command changes the key at the node that hosts the slot: PutEntity calls
\* the callback only for a key that is new, Remove for a deleted one
Write(k, m) ==
    /\ Served(m) /\ wr[k].pc = "none" /\ writes < MaxWrites
    /\ \/ /\ "insert" \in Ops /\ data[m][k] = NoValue
          /\ data' = [data EXCEPT ![m][k] = writes + 1]
          /\ wr' = [wr EXCEPT ![k] = [pc |-> "inserted", node |-> m, new |-> writes + 1]]
          /\ UNCHANGED acked
       \/ /\ "delete" \in Ops /\ data[m][k] # NoValue
          /\ data' = [data EXCEPT ![m][k] = NoValue]
          /\ wr' = [wr EXCEPT ![k] = [pc |-> "deleted", node |-> m, new |-> NoValue]]
          /\ UNCHANGED acked
       \/ /\ "update" \in Ops /\ data[m][k] # NoValue
          /\ data' = [data EXCEPT ![m][k] = writes + 1]
          /\ acked' = [acked EXCEPT ![k] = writes + 1]
          /\ UNCHANGED wr
    /\ writes' = writes + 1
    /\ UNCHANGED <<slot, route, exp, imp, stream>>

Dirty(k) == IF slot.state = "exporting" THEN slot.dirty \cup {k} ELSE slot.dirty

\* a key inserted during the export is not recorded as dirty
insertCallback_NotDirty(k) == [slot EXCEPT !.keys = @ \cup {k}]

insertCallback(k) == [slot EXCEPT !.keys = @ \cup {k}, !.dirty = Dirty(k)]

\* a deleted key stays among the keys of the slot
deleteCallback_KeepsKey(k) == [slot EXCEPT !.dirty = Dirty(k)]

deleteCallback(k) == [slot EXCEPT !.keys = @ \ {k}, !.dirty = Dirty(k)]

\* the callback waits for the slot's mutex; then the command is answered
Callback(k) ==
    /\ wr[k].pc \in {"inserted", "deleted"}
    /\ IF wr[k].node = Source
       THEN /\ slot.mu = Free
            /\ slot' = IF wr[k].pc = "inserted" THEN insertCallback(k) ELSE deleteCallback(k)
       ELSE UNCHANGED slot
    /\ acked' = [acked EXCEPT ![k] = wr[k].new]
    /\ wr' = [wr EXCEPT ![k] = Quiet]
    /\ UNCHANGED <<data, route, exp, imp, stream, writes>>

\* the source is restarted: its data is loaded before the callbacks are set
Restart ==
    /\ SourceRestarts /\ imp = "idle" /\ slot.mu = Free
    /\ \A k \in Keys : wr[k].pc = "none"
    /\ slot' = [slot EXCEPT !.keys = {}]
    /\ UNCHANGED <<data, route, exp, imp, stream, wr, acked, writes>>

-----------------------------------------------------------------------------
(* The source: execExport, execFinishExport, dropSlot *)

Copied(k) == [k |-> k, v |-> data[Source][k]]
OK == [k |-> "ok", v |-> NoValue]

\* startExporting: the keys of the slot are copied, dirty keys recorded from now
startExporting ==
    /\ imp = "export" /\ exp.pc = "idle"
    /\ slot.mu = Free /\ slot.state = "hosting"
    /\ slot' = [slot EXCEPT !.state = "exporting", !.dirty = {}]
    /\ exp' = [pc |-> "dump", left |-> slot.keys]
    /\ UNCHANGED <<data, route, imp, stream, wr, acked, writes>>

\* dumpDataThroughConnection: a key that is gone is passed over
Dump(phase, k) ==
    /\ exp.pc = phase /\ k \in exp.left
    /\ stream' = IF data[Source][k] = NoValue THEN stream ELSE Append(stream, Copied(k))
    /\ exp' = [exp EXCEPT !.left = @ \ {k}]
    /\ UNCHANGED <<data, slot, route, imp, wr, acked, writes>>

\* the OK that ends the first phase is forgotten
ExportEnd_NoOK ==
    /\ exp.pc = "dump" /\ exp.left = {}
    /\ exp' = [exp EXCEPT !.pc = "exported"]
    /\ UNCHANGED <<data, slot, route, imp, stream, wr, acked, writes>>

ExportEnd ==
    /\ exp.pc = "dump" /\ exp.left = {}
    /\ stream' = Append(stream, OK)
    /\ exp' = [exp EXCEPT !.pc = "exported"]
    /\ UNCHANGED <<data, slot, route, imp, wr, acked, writes>>

\* execFinishExport takes the mutex of the slot and keeps it
FinishLock ==
    /\ imp = "finish" /\ exp.pc = "exported" /\ slot.mu = Free
    /\ WritesInFinish \/ \A k \in Keys : wr[k].pc = "none"
    /\ slot' = [slot EXCEPT !.mu = "finish"]
    /\ exp' = [pc |-> "dirty", left |-> slot.dirty]
    /\ UNCHANGED <<data, route, imp, stream, wr, acked, writes>>

finishExportingWithinLock ==
    /\ exp.pc = "dirty" /\ exp.left = {}
    /\ slot' = [slot EXCEPT !.state = "hosting", !.dirty = {}]
    /\ exp' = [exp EXCEPT !.pc = "route"]
    /\ UNCHANGED <<data, route, imp, stream, wr, acked, writes>>

\* the leader commits the new route, which each node applies when it does;
\* or it answers with an error
execMigrationChangeRoute ==
    /\ exp.pc = "route"
    /\ \/ exp' = [exp EXCEPT !.pc = "changed"]
       \/ RouteFails /\ exp' = [exp EXCEPT !.pc = "refused"]
    /\ UNCHANGED <<data, slot, route, imp, stream, wr, acked, writes>>

Committed == exp.pc \in {"changed", "end"}

ApplyRoute(m) ==
    /\ Committed /\ route[m] = Source
    /\ route' = [route EXCEPT ![m] = Target]
    /\ UNCHANGED <<data, slot, exp, imp, stream, wr, acked, writes>>

\* the mutex is not released
FinishOK_KeepsLock ==
    /\ exp.pc = "changed"
    /\ stream' = Append(stream, OK)
    /\ exp' = [exp EXCEPT !.pc = "end"]
    /\ UNCHANGED <<data, slot, route, imp, wr, acked, writes>>

\* the route has changed: the answer is OK, the slot unlocked
FinishOK ==
    /\ exp.pc = "changed"
    /\ stream' = Append(stream, OK)
    /\ slot' = [slot EXCEPT !.mu = Free]
    /\ exp' = [exp EXCEPT !.pc = "end"]
    /\ UNCHANGED <<data, route, imp, wr, acked, writes>>

\* the route has not changed: also OK, and the slot is dropped in the background
FinishRefused ==
    /\ exp.pc = "refused"
    /\ stream' = Append(stream, OK)
    /\ slot' = [slot EXCEPT !.mu = Free]
    /\ exp' = [exp EXCEPT !.pc = "drop"]
    /\ UNCHANGED <<data, route, imp, wr, acked, writes>>

\* dropSlot deletes a key with the mutex held that the callback waits for
dropSlot ==
    /\ exp.pc = "drop" /\ slot.mu = Free
    /\ \/ /\ slot.keys = {}
          /\ exp' = [exp EXCEPT !.pc = "dropped"]
          /\ UNCHANGED <<data, slot, wr>>
       \/ \E k \in slot.keys :
             /\ ~Locked(Source, k)
             /\ data' = [data EXCEPT ![Source][k] = NoValue]
             /\ wr' = [wr EXCEPT ![k] = [pc |-> "dropping", node |-> Source, new |-> NoValue]]
             /\ slot' = [slot EXCEPT !.mu = "drop"]
             /\ exp' = [exp EXCEPT !.pc = "stuck"]
    /\ UNCHANGED <<route, imp, stream, acked, writes>>

-----------------------------------------------------------------------------
(* The target: doImports *)

execStartMigration ==
    /\ imp = "idle"
    /\ imp' = "export"
    /\ UNCHANGED <<data, slot, route, exp, stream, wr, acked, writes>>

\* one payload of the stream: a command is executed, OK ends a phase
doImports ==
    /\ stream # <<>>
    /\ LET msg == Head(stream)
       IN  \/ /\ msg.k \in Keys /\ ~Locked(Target, msg.k)
              /\ data' = [data EXCEPT ![Target][msg.k] = msg.v]
              /\ UNCHANGED imp
           \/ /\ msg.k = "ok"
              /\ imp' = IF imp = "export" THEN "finish" ELSE "done"
              /\ UNCHANGED data
    /\ stream' = Tail(stream)
    /\ UNCHANGED <<slot, route, exp, wr, acked, writes>>

-----------------------------------------------------------------------------
Work ==
    \/ \E k \in Keys : Callback(k)
    \/ startExporting \/ \E k \in Keys : Dump("dump", k)
    \/ ExportEnd \/ FinishLock
    \/ \E k \in Keys : Dump("dirty", k)
    \/ finishExportingWithinLock \/ execMigrationChangeRoute
    \/ \E m \in Ends : ApplyRoute(m)
    \/ FinishOK \/ FinishRefused \/ dropSlot \/ doImports

MigrationNext ==
    /\ \/ Work
       \/ \E k \in Keys, m \in Ends : Write(k, m)
       \/ execStartMigration \/ Restart
    /\ UNCHANGED traffic

MigrationSpec == MigrationInit /\ [][MigrationNext]_MigrationVars

\* What goes on as long as it can: the two nodes and the commands under way.
MigrationProceeds == Work /\ UNCHANGED traffic

-----------------------------------------------------------------------------
SlotTypeOK ==
    /\ data \in [Ends -> [Keys -> 0..MaxWrites]]
    /\ slot \in [state : {"hosting", "exporting"}, keys : SUBSET Keys, dirty : SUBSET Keys,
                 mu : {Free, "finish", "drop"}]
    /\ slot.state = "hosting" => slot.dirty = {}
    /\ route \in [Ends -> Ends]
    /\ imp \in {"idle", "export", "finish", "done"}
    /\ acked \in [Keys -> 0..MaxWrites] /\ writes \in 1..MaxWrites

(* The node that hosts the slot has the value of every key that the clients
   were last told of: a migration loses no write, and a refused one nothing.
   The source is the host until the new route is committed, the target once it
   has applied it and doImports has returned. *)
HostHasData ==
    \A m \in Ends : (IF Committed THEN m = Target /\ route[m] = Target /\ imp = "done"
                                    ELSE m = Source)
        => \A k \in Keys : wr[k].pc \notin {"inserted", "deleted"} => data[m][k] = acked[k]

(* A migration that nothing disturbs loses no insertion, whenever a key is
   inserted: before, while or after the keys are dumped, or at the target. *)
InsertsArrive == Ops = {"insert"} /\ traffic.may = {} => HostHasData

(* slotStatus.keys, from which an export starts, is the set of keys the source
   has in the slot, but for a key whose callback is still to come; unless the
   source was restarted, which loads its data before it sets the callbacks.
   The state is well-typed. *)
KeysTracked ==
    /\ SlotTypeOK
    /\ ~SourceRestarts =>
      \A k \in Keys : wr[k].pc = "none" => (k \in slot.keys <=> data[Source][k] # NoValue)

(* Once no more writes come (there are MaxWrites of them), every command that has
   changed a key is answered: the callback does not wait for the mutex of the
   slot for ever, unless the leader has refused the route and dropSlot waits for
   itself.  doImports returns too, also when keys vanish while they are dumped and
   when the leader refuses the new route. *)
MigrationEnds ==
    []<>(imp \in {"idle", "done"} /\ (RouteFails \/ \A k \in Keys : wr[k].pc = "none"))

-----------------------------------------------------------------------------
(* Inductive strengthenings *)

\* A slot moves keys it has, and clients may write.
SceneAssumption ==
    /\ FirstKeys \subseteq Keys /\ "ok" \notin Keys
    /\ \A s \in MigrationScenes : s.writes \in Nat \ {0}

MigrationType ==
    /\ SlotTypeOK /\ traffic \in MigrationScenes
    /\ exp \in [pc : {"idle", "dump", "exported", "dirty", "route", "changed", "refused", "end", "drop",
                      "stuck", "dropped"}, left : SUBSET Keys]
    /\ wr \in [Keys -> [pc : {"none", "inserted", "deleted", "dropping"}, node : Ends, new : 0..MaxWrites]]
    /\ stream \in Seq([k : Keys \cup {"ok"}, v : 0..MaxWrites])

\* KeysTracked, with what a command that has not called back yet has done.
Tracking ==
    ~SourceRestarts => \A k \in Keys :
        IF wr[k].pc # "none" /\ wr[k].node = Source
        THEN (wr[k].pc = "inserted" => data[Source][k] # NoValue) /\ (wr[k].pc = "deleted" => data[Source][k] = NoValue)
        ELSE k \in slot.keys <=> data[Source][k] # NoValue

Undisturbed == Ops = {"insert"} /\ traffic.may = {}

OnTheWay(k) == \E i \in 1 .. Len(stream) : stream[i].k = k
NoOK == ~OnTheWay("ok")
OneOK == /\ stream # <<>> /\ stream[Len(stream)].k = "ok"
         /\ \A i \in 1 .. Len(stream) : stream[i].k = "ok" => i = Len(stream)

\* Where the two nodes are, and what of the stream is between them.
Phases ==
    \/ exp.pc = "idle" /\ stream = <<>> /\ imp \in {"idle", "export"} /\ slot.state = "hosting"
    \/ exp.pc = "dump" /\ NoOK /\ imp = "export" /\ slot.state = "exporting"
    \/ /\ exp.pc = "exported" /\ slot.state = "exporting"
       /\ (imp = "export" /\ OneOK) \/ (imp = "finish" /\ stream = <<>>)
    \/ exp.pc \in {"dirty", "route", "changed"} /\ NoOK /\ imp = "finish"
    \/ exp.pc = "end" /\ ((imp = "finish" /\ OneOK) \/ (imp = "done" /\ stream = <<>>))

\* Commands under way are insertions where the slot is served.
Pending ==
    /\ ~Committed => route = [m \in Ends |-> Source]
    /\ \A k \in Keys : wr[k].pc # "none" =>
        /\ wr[k].pc = "inserted"
        /\ IF wr[k].node = Source THEN exp.pc \in {"idle", "dump", "exported"} ELSE imp = "done"

\* The value of a key, and what the target has of it.
Values ==
    /\ \A i \in 1 .. Len(stream) : stream[i].k # "ok" =>
          stream[i].v = data[Source][stream[i].k] /\ stream[i].v # NoValue
    /\ \A k \in Keys :
          /\ imp # "done" => data[Target][k] \in {NoValue, data[Source][k]}
          /\ LET v == IF imp = "done" THEN data[Target][k] ELSE data[Source][k]
             IN  IF wr[k].pc = "none" THEN acked[k] = v ELSE wr[k].new = v /\ v # NoValue

\* What the source has is at the target, or on its way there, or still to be sent.
Delivery ==
    \A k \in Keys : exp.pc # "idle" /\ data[Source][k] # NoValue =>
        \/ data[Target][k] = data[Source][k]
        \/ OnTheWay(k)
        \/ exp.pc \in {"dump", "dirty"} /\ k \in exp.left
        \/ exp.pc \in {"dump", "exported"} /\ (k \in slot.dirty \/ wr[k].pc = "inserted")

Arriving == Undisturbed => Phases /\ Pending /\ Values /\ Delivery
=============================================================================
