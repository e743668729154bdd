--------------------------- MODULE MigrationProofs ---------------------------
(***************************************************************************)
(* For every set of keys and any number of writes: the keys an export      *)
(* starts from are those of the slot, and a migration that nothing         *)
(* disturbs loses no insertion.                                            *)
(***************************************************************************)
EXTENDS Migration, TLAPS

Message == [k : Keys \cup {"ok"}, v : 0..MaxWrites]

\* A key is stored at a node.
LEMMA StoreValue ==
    ASSUME NEW V, NEW d \in [Ends -> [Keys -> V]], NEW m \in Ends, NEW k \in Keys, NEW v \in V
    PROVE  /\ [d EXCEPT ![m][k] = v] \in [Ends -> [Keys -> V]]
           /\ \A i \in Ends : \A j \in Keys :
                [d EXCEPT ![m][k] = v][i][j] = IF i = m /\ j = k THEN v ELSE d[i][j]
  OBVIOUS

\* The migration starts well typed.
LEMMA InitType == SceneAssumption /\ MigrationInit => MigrationType
  <1> SUFFICES ASSUME SceneAssumption, MigrationInit PROVE MigrationType
    OBVIOUS
  <1>1. MaxWrites \in Nat /\ 1 <= MaxWrites
    BY DEF SceneAssumption, MigrationInit, MaxWrites
  <1> QED
    BY <1>1 DEF SceneAssumption, MigrationInit, MigrationType, SlotTypeOK, Ends, Source, Target, Free, NoValue, Quiet

\* A write stores a number within the bound.
LEMMA WriteType ==
    ASSUME SceneAssumption, MigrationType, NEW k \in Keys, NEW m \in Ends, Write(k, m), traffic' = traffic
    PROVE  MigrationType'
  <1>1. writes \in Nat /\ MaxWrites \in Nat /\ writes + 1 \in 1..MaxWrites /\ MaxWrites' = MaxWrites
    BY DEF SceneAssumption, MigrationType, SlotTypeOK, MaxWrites, Write
  <1>2. writes + 1 \in 0..MaxWrites /\ NoValue \in 0..MaxWrites
    BY <1>1 DEF NoValue
  <1>3. data' \in [Ends -> [Keys -> 0..MaxWrites]]
    <2>1. PICK v \in {writes + 1, NoValue} : data' = [data EXCEPT ![m][k] = v]
      BY DEF Write
    <2>2. data \in [Ends -> [Keys -> 0..MaxWrites]]
      BY DEF MigrationType, SlotTypeOK
    <2> QED
      BY <1>2, <2>1, <2>2, StoreValue
  <1>4. wr' \in [Keys -> [pc : {"none", "inserted", "deleted", "dropping"}, node : Ends, new : 0..MaxWrites]]
    BY <1>2 DEF Write, MigrationType
  <1>5. acked' \in [Keys -> 0..MaxWrites] /\ writes' \in 1..MaxWrites
    <2>1. writes' = writes + 1 /\ (acked' = acked \/ acked' = [acked EXCEPT ![k] = writes + 1])
      BY DEF Write
    <2>2. acked \in [Keys -> 0..MaxWrites]
      BY DEF MigrationType, SlotTypeOK
    <2> QED
      BY <1>1, <1>2, <2>1, <2>2
  <1> QED
    BY <1>1, <1>3, <1>4, <1>5 DEF Write, MigrationType, SlotTypeOK

\* A callback stores what the command wrote.
LEMMA CallbackType ==
    ASSUME SceneAssumption, MigrationType, NEW k \in Keys, Callback(k), traffic' = traffic
    PROVE  MigrationType'
  <1>1. MaxWrites \in Nat /\ MaxWrites' = MaxWrites
    BY DEF SceneAssumption, MigrationType, SlotTypeOK, MaxWrites
  <1>2. Quiet \in [pc : {"none", "inserted", "deleted", "dropping"}, node : Ends, new : 0..MaxWrites]
    BY <1>1 DEF Quiet, Ends, NoValue
  <1> DEFINE S == [state : {"hosting", "exporting"}, keys : SUBSET Keys, dirty : SUBSET Keys,
                   mu : {Free, "finish", "drop"}]
  <1>3. Dirty(k) \in SUBSET Keys /\ (slot.state = "hosting" => Dirty(k) = {})
    BY DEF Dirty, MigrationType, SlotTypeOK
  <1>4. insertCallback(k) \in S /\ deleteCallback(k) \in S
    <2>1. slot \in S /\ slot.keys \cup {k} \in SUBSET Keys /\ slot.keys \ {k} \in SUBSET Keys
      BY DEF MigrationType, SlotTypeOK
    <2> QED
      BY <1>3, <2>1, Zenon DEF insertCallback, deleteCallback
  <1>5. /\ insertCallback(k).state = slot.state /\ insertCallback(k).dirty = Dirty(k)
        /\ deleteCallback(k).state = slot.state /\ deleteCallback(k).dirty = Dirty(k)
    BY DEF insertCallback, deleteCallback, MigrationType, SlotTypeOK
  <1>6. slot' \in S /\ (slot'.state = "hosting" => slot'.dirty = {})
    BY <1>3, <1>4, <1>5 DEF Callback, MigrationType, SlotTypeOK
  <1> QED
    BY <1>1, <1>2, <1>6 DEF Callback, MigrationType, SlotTypeOK

\* The stream carries messages.
LEMMA StreamType ==
    ASSUME MigrationType, NEW x \in Message
    PROVE  Append(stream, x) \in Seq(Message)
  BY DEF MigrationType, Message

\* dropSlot removes one key, whose delete callback then waits for the slot's lock.
LEMMA DropType ==
    ASSUME SceneAssumption, MigrationType, dropSlot, traffic' = traffic
    PROVE  MigrationType'
  <1>1. MaxWrites' = MaxWrites /\ NoValue \in 0..MaxWrites /\ Source \in Ends
    BY DEF SceneAssumption, MigrationType, SlotTypeOK, MaxWrites, NoValue, Ends
  <1>2. CASE data' = data /\ slot' = slot /\ wr' = wr /\ exp' = [exp EXCEPT !.pc = "dropped"]
    BY <1>1, <1>2 DEF dropSlot, MigrationType, SlotTypeOK
  <1>3. ASSUME NEW k \in slot.keys, data' = [data EXCEPT ![Source][k] = NoValue],
               wr' = [wr EXCEPT ![k] = [pc |-> "dropping", node |-> Source, new |-> NoValue]],
               slot' = [slot EXCEPT !.mu = "drop"], exp' = [exp EXCEPT !.pc = "stuck"]
        PROVE  MigrationType'
    <2>1. k \in Keys /\ data \in [Ends -> [Keys -> 0..MaxWrites]]
      BY <1>3 DEF MigrationType, SlotTypeOK
    <2>2. data' \in [Ends -> [Keys -> 0..MaxWrites]]
      BY <1>1, <1>3, <2>1, StoreValue
    <2>3. wr' \in [Keys -> [pc : {"none", "inserted", "deleted", "dropping"}, node : Ends, new : 0..MaxWrites]]
      BY <1>1, <1>3, <2>1 DEF MigrationType
    <2> QED
      BY <1>1, <1>3, <2>2, <2>3 DEF dropSlot, MigrationType, SlotTypeOK
  <1> QED
    BY <1>2, <1>3 DEF dropSlot

\* What doImports takes is a message.
LEMMA HeadType ==
    ASSUME MigrationType, stream # <<>>
    PROVE  /\ Head(stream) \in Message /\ Head(stream) = stream[1]
           /\ Tail(stream) \in Seq(Message)
           /\ Len(stream) \in Nat \ {0} /\ Len(Tail(stream)) = Len(stream) - 1
           /\ \A i \in 1 .. Len(stream) - 1 : Tail(stream)[i] = stream[i + 1]
  <1>1. stream \in Seq(Message)
    BY DEF MigrationType, Message
  <1> QED
    BY <1>1

\* doImports stores the value of the message or ends a phase.
LEMMA ImportType ==
    ASSUME SceneAssumption, MigrationType, doImports, traffic' = traffic
    PROVE  MigrationType'
  <1>1. MaxWrites' = MaxWrites /\ Target \in Ends
    BY DEF MaxWrites, Ends
  <1>2. Head(stream) \in Message /\ stream' \in Seq(Message)
    BY HeadType DEF doImports
  <1>3. CASE data' = data
    BY <1>1, <1>2, <1>3 DEF doImports, MigrationType, SlotTypeOK, Message
  <1>4. CASE Head(stream).k \in Keys /\ data' = [data EXCEPT ![Target][Head(stream).k] = Head(stream).v] /\ imp' = imp
    <2>1. Head(stream).v \in 0..MaxWrites /\ data \in [Ends -> [Keys -> 0..MaxWrites]]
      BY <1>2 DEF Message, MigrationType, SlotTypeOK
    <2>2. data' \in [Ends -> [Keys -> 0..MaxWrites]]
      BY <1>1, <1>4, <2>1, StoreValue
    <2> QED
      BY <1>1, <1>2, <1>4, <2>2 DEF doImports, MigrationType, SlotTypeOK, Message
  <1> QED
    BY <1>3, <1>4 DEF doImports

\* Every step keeps the types.
LEMMA NextType ==
    ASSUME SceneAssumption, MigrationType, [MigrationNext]_MigrationVars
    PROVE  MigrationType'
  <1> USE DEF MigrationType, SlotTypeOK
  <1> DEFINE S == [state : {"hosting", "exporting"}, keys : SUBSET Keys, dirty : SUBSET Keys,
                   mu : {Free, "finish", "drop"}]
             E == [pc : {"idle", "dump", "exported", "dirty", "route", "changed", "refused", "end", "drop",
                         "stuck", "dropped"}, left : SUBSET Keys]
  <1>1. CASE UNCHANGED MigrationVars
    BY <1>1 DEF MigrationVars, MaxWrites
  <1>2. ASSUME MigrationNext PROVE MigrationType'
    <2>0. traffic' = traffic /\ MaxWrites' = MaxWrites /\ 0 \in 0..MaxWrites
      BY <1>2 DEF MigrationNext, MaxWrites, SceneAssumption
    <2>1. OK \in Message
      BY <2>0 DEF OK, Message, NoValue
    <2>2. ASSUME NEW k \in Keys PROVE Copied(k) \in Message
      BY DEF Copied, Message, Ends, Source
    <2>3. CASE Restart
      BY <2>0, <2>3 DEF Restart
    <2>4. CASE startExporting
      <3>1. slot' \in S
        BY <2>4, Zenon DEF startExporting
      <3>2. slot'.dirty = {}
        BY <2>4 DEF startExporting
      <3> QED
        BY <2>0, <2>4, <3>1, <3>2 DEF startExporting
    <2>5. ASSUME NEW k \in Keys, NEW phase \in {"dump", "dirty"}, Dump(phase, k) PROVE MigrationType'
      <3>1. stream' \in Seq(Message)
        BY <2>2, <2>5, StreamType DEF Dump, Message
      <3> QED
        BY <2>0, <2>5, <3>1 DEF Dump, Message
    <2>6. CASE ExportEnd
      <3>1. stream' \in Seq(Message)
        BY <2>1, <2>6, StreamType DEF ExportEnd
      <3> QED
        BY <2>0, <2>6, <3>1 DEF ExportEnd, Message
    <2>7. CASE FinishLock
      BY <2>0, <2>7 DEF FinishLock
    <2>8. CASE finishExportingWithinLock
      <3>1. slot' \in S
        BY <2>8, Zenon DEF finishExportingWithinLock
      <3>2. slot'.dirty = {}
        BY <2>8 DEF finishExportingWithinLock
      <3> QED
        BY <2>0, <2>8, <3>1, <3>2 DEF finishExportingWithinLock
    <2>9. CASE execMigrationChangeRoute
      BY <2>0, <2>9 DEF execMigrationChangeRoute
    <2>10. ASSUME NEW m \in Ends, ApplyRoute(m) PROVE MigrationType'
      BY <2>0, <2>10 DEF ApplyRoute, Ends
    <2>11. CASE FinishOK
      <3>1. stream' \in Seq(Message)
        BY <2>1, <2>11, StreamType DEF FinishOK
      <3> QED
        BY <2>0, <2>11, <3>1 DEF FinishOK, Message
    <2>12. CASE FinishRefused
      <3>1. stream' \in Seq(Message)
        BY <2>1, <2>12, StreamType DEF FinishRefused
      <3> QED
        BY <2>0, <2>12, <3>1 DEF FinishRefused, Message
    <2>13. CASE dropSlot
      BY <2>0, <2>13, DropType
    <2>14. CASE doImports
      BY <2>0, <2>14, ImportType
    <2>15. CASE execStartMigration
      BY <2>0, <2>15 DEF execStartMigration
    <2> QED
      BY <1>2, <2>0, <2>3, <2>4, <2>5, <2>6, <2>7, <2>8, <2>9, <2>10, <2>11, <2>12, <2>13, <2>14, <2>15,
         WriteType, CallbackType DEF MigrationNext, Work
  <1> QED
    BY <1>1, <1>2
-----------------------------------------------------------------------------
(* The keys of the slot *)

\* Tracking is about the data of the source, its commands and slotStatus.keys only.
LEMMA TrackingKept ==
    ASSUME Tracking, slot'.keys = slot.keys, data'[Source] = data[Source], wr' = wr, traffic' = traffic
    PROVE  Tracking'
  BY DEF Tracking, SourceRestarts, Source

\* slotStatus.keys starts with the keys the source has.
LEMMA InitTracking == SceneAssumption /\ MigrationInit => Tracking
  BY DEF SceneAssumption, MigrationInit, Tracking, Ends, Source, NoValue, Quiet

\* A command changes the data before its callback changes slotStatus.keys.
LEMMA WriteTracking ==
    ASSUME SceneAssumption, MigrationType, Tracking, NEW k \in Keys, NEW m \in Ends, Write(k, m),
           traffic' = traffic
    PROVE  Tracking'
  <1>1. writes + 1 \in 0..MaxWrites /\ NoValue \in 0..MaxWrites /\ writes + 1 # NoValue /\ Source \in Ends
    BY DEF SceneAssumption, MigrationType, SlotTypeOK, MaxWrites, Write, NoValue, Ends
  <1>2. slot' = slot /\ wr[k].pc = "none"
    BY DEF Write
  <1>3. PICK v \in {writes + 1, NoValue} :
          /\ data' = [data EXCEPT ![m][k] = v]
          /\ \/ /\ v # NoValue /\ data[m][k] = NoValue
                /\ wr' = [wr EXCEPT ![k] = [pc |-> "inserted", node |-> m, new |-> v]]
             \/ v = NoValue /\ wr' = [wr EXCEPT ![k] = [pc |-> "deleted", node |-> m, new |-> v]]
             \/ v # NoValue /\ data[m][k] # NoValue /\ wr' = wr
    BY <1>1 DEF Write
  <1>4. \A j \in Keys : data'[Source][j] = IF Source = m /\ j = k THEN v ELSE data[Source][j]
    <2>1. data \in [Ends -> [Keys -> 0..MaxWrites]]
      BY DEF MigrationType, SlotTypeOK
    <2> QED
      BY <1>1, <1>3, <2>1, StoreValue
  <1>5. \A j \in Keys : j # k => wr'[j] = wr[j]
    BY <1>3 DEF MigrationType
  <1>6. wr'[k] = wr[k] \/ (wr'[k].node = m /\ wr'[k].pc \in {"inserted", "deleted"})
    BY <1>3 DEF MigrationType
  <1>7. /\ wr'[k].pc = "inserted" => v # NoValue
        /\ wr'[k].pc = "deleted" => v = NoValue
        /\ wr'[k].pc = "none" => v # NoValue /\ data[m][k] # NoValue
    BY <1>2, <1>3 DEF MigrationType
  <1> QED
    BY <1>2, <1>4, <1>5, <1>6, <1>7 DEF Tracking, SourceRestarts

\* The callback makes slotStatus.keys agree with the data again.
LEMMA CallbackTracking ==
    ASSUME SceneAssumption, MigrationType, Tracking, NEW k \in Keys, Callback(k), traffic' = traffic
    PROVE  Tracking'
  <1>1. /\ wr[k].pc \in {"inserted", "deleted"} /\ data' = data
        /\ wr' = [wr EXCEPT ![k] = Quiet]
    BY DEF Callback
  <1>2. wr'[k].pc = "none" /\ \A j \in Keys : j # k => wr'[j] = wr[j]
    BY <1>1 DEF MigrationType, Quiet
  <1>3. slot'.keys = IF wr[k].node # Source THEN slot.keys
                     ELSE IF wr[k].pc = "inserted" THEN slot.keys \cup {k} ELSE slot.keys \ {k}
    BY <1>1 DEF Callback, insertCallback, deleteCallback, MigrationType, SlotTypeOK
  <1> QED
    BY <1>1, <1>2, <1>3 DEF Tracking, SourceRestarts, Source

\* dropSlot deletes from the data first, as a command does.
LEMMA DropTracking ==
    ASSUME SceneAssumption, MigrationType, Tracking, dropSlot, traffic' = traffic
    PROVE  Tracking'
  <1>1. CASE data' = data /\ slot' = slot /\ wr' = wr
    BY <1>1, TrackingKept
  <1>2. ASSUME NEW k \in slot.keys, data' = [data EXCEPT ![Source][k] = NoValue],
               wr' = [wr EXCEPT ![k] = [pc |-> "dropping", node |-> Source, new |-> NoValue]],
               slot' = [slot EXCEPT !.mu = "drop"]
        PROVE  Tracking'
    <2>1. k \in Keys /\ Source \in Ends /\ NoValue \in 0..MaxWrites
      BY <1>2 DEF MigrationType, SlotTypeOK, Ends, NoValue, SceneAssumption, MaxWrites
    <2>2. slot'.keys = slot.keys
      BY <1>2 DEF MigrationType, SlotTypeOK
    <2>3. \A j \in Keys : j # k => data'[Source][j] = data[Source][j]
      <3>1. data \in [Ends -> [Keys -> 0..MaxWrites]]
        BY DEF MigrationType, SlotTypeOK
      <3> QED
        BY <1>2, <2>1, <3>1, StoreValue
    <2>4. /\ wr'[k].pc = "dropping" /\ wr'[k].node = Source
          /\ \A j \in Keys : j # k => wr'[j] = wr[j]
      BY <1>2, <2>1 DEF MigrationType
    <2> QED
      BY <2>2, <2>3, <2>4 DEF Tracking, SourceRestarts, Source
  <1> QED
    BY <1>1, <1>2 DEF dropSlot

\* doImports leaves the source alone.
LEMMA ImportTracking ==
    ASSUME MigrationType, Tracking, doImports, traffic' = traffic
    PROVE  Tracking'
  <1>1. slot' = slot /\ wr' = wr
    BY DEF doImports
  <1>2. data'[Source] = data[Source]
    BY DEF doImports, MigrationType, SlotTypeOK, Ends, Source, Target
  <1> QED
    BY <1>1, <1>2, TrackingKept

\* Every step keeps Tracking.
LEMMA NextTracking ==
    ASSUME SceneAssumption, MigrationType, Tracking, [MigrationNext]_MigrationVars
    PROVE  Tracking'
  <1>1. CASE UNCHANGED MigrationVars
    BY <1>1, TrackingKept DEF MigrationVars
  <1>2. ASSUME MigrationNext PROVE Tracking'
    <2>1. traffic' = traffic
      BY <1>2 DEF MigrationNext
    <2>2. CASE Restart
      BY <2>1, <2>2 DEF Restart, Tracking, SourceRestarts
    <2>3. CASE startExporting \/ FinishLock \/ finishExportingWithinLock \/ FinishOK \/ FinishRefused
      <3>1. slot'.keys = slot.keys
        BY <2>3 DEF startExporting, FinishLock, finishExportingWithinLock, FinishOK, FinishRefused,
                    MigrationType, SlotTypeOK
      <3>2. data' = data /\ wr' = wr
        BY <2>3 DEF startExporting, FinishLock, finishExportingWithinLock, FinishOK, FinishRefused
      <3> QED
        BY <2>1, <3>1, <3>2, TrackingKept
    <2>4. CASE \/ \E k \in Keys : Dump("dump", k) \/ Dump("dirty", k)
               \/ ExportEnd \/ execMigrationChangeRoute \/ execStartMigration
               \/ \E m \in Ends : ApplyRoute(m)
      <3>1. slot' = slot /\ data' = data /\ wr' = wr
        BY <2>4 DEF Dump, ExportEnd, execMigrationChangeRoute, execStartMigration, ApplyRoute
      <3> QED
        BY <2>1, <3>1, TrackingKept
    <2> QED
      BY <1>2, <2>1, <2>2, <2>3, <2>4, WriteTracking, CallbackTracking, DropTracking, ImportTracking
         DEF MigrationNext, Work
  <1> QED
    BY <1>1, <1>2

\* For every set of keys and any number of writes, the keys an export starts from are
\* those the source has in the slot, but for a key whose callback is still to come
\* (migration.go: the callbacks, startExporting, dropSlot).
THEOREM KeysAreTracked ==
    ASSUME SceneAssumption
    PROVE  MigrationSpec => []KeysTracked
  <1>1. MigrationInit => MigrationType /\ Tracking
    BY InitType, InitTracking
  <1>2. MigrationType /\ Tracking /\ [MigrationNext]_MigrationVars => MigrationType' /\ Tracking'
    BY NextType, NextTracking
  <1>3. MigrationType /\ Tracking => KeysTracked
    BY DEF MigrationType, Tracking, KeysTracked
  <1> QED
    BY <1>1, <1>2, <1>3, PTL DEF MigrationSpec
-----------------------------------------------------------------------------
(* Insertions *)

\* An undisturbed migration before a step, and after it.
Calm == Undisturbed /\ Phases /\ Pending /\ Values /\ Delivery
Arrived == Phases /\ Pending /\ Values /\ Delivery

\* An undisturbed migration inserts only, and nothing goes wrong in it.
LEMMA NothingMay ==
    ASSUME Undisturbed
    PROVE  Ops = {"insert"} /\ ~WritesInFinish /\ ~EarlyServe /\ ~RouteFails /\ ~SourceRestarts
  BY DEF Undisturbed, WritesInFinish, EarlyServe, RouteFails, SourceRestarts

\* A message of the stream is the value of a key, or OK.
LEMMA MessageAt ==
    ASSUME MigrationType, NEW i \in 1 .. Len(stream)
    PROVE  stream[i].k \in Keys \cup {"ok"} /\ stream[i].v \in 0..MaxWrites
  <1>1. stream \in Seq(Message)
    BY DEF MigrationType, Message
  <1>2. stream[i] \in Message
    BY <1>1
  <1> QED
    BY <1>2 DEF Message

\* A message is written to the end of the stream.
LEMMA Appended ==
    ASSUME MigrationType, NEW x \in Message, stream' = Append(stream, x)
    PROVE  /\ Len(stream) \in Nat /\ Len(stream') = Len(stream) + 1
           /\ stream'[Len(stream) + 1] = x /\ stream' # <<>>
           /\ \A i \in 1 .. Len(stream) : stream'[i] = stream[i]
           /\ \A j : OnTheWay(j)' <=> OnTheWay(j) \/ x.k = j
  <1>1. stream \in Seq(Message)
    BY DEF MigrationType, Message
  <1>2. /\ Len(stream) \in Nat /\ Len(stream') = Len(stream) + 1
        /\ stream'[Len(stream) + 1] = x /\ stream' # <<>>
        /\ \A i \in 1 .. Len(stream) : stream'[i] = stream[i]
    BY <1>1
  <1> QED
    BY <1>2 DEF OnTheWay

\* A write is served by the source before the slot is locked, or by the target at the end.
LEMMA ServedWhere ==
    ASSUME SceneAssumption, MigrationType, Calm, NEW m \in Ends, Served(m)
    PROVE  \/ m = Source /\ exp.pc \in {"idle", "dump", "exported"} /\ imp # "done"
           \/ m = Target /\ exp.pc = "end" /\ imp = "done" /\ stream = <<>>
  <1>1. CASE m = Source
    <2>1. ~Finishing /\ route[Source] = Source
      BY <1>1, NothingMay DEF Served, Calm
    <2> QED
      BY <1>1, <2>1 DEF Finishing, Calm, Phases
  <1>2. CASE m = Target
    <2>1. imp = "done"
      BY <1>2, NothingMay DEF Served, Calm, Source, Target
    <2> QED
      BY <1>2, <2>1 DEF Calm, Phases
  <1> QED
    BY <1>1, <1>2 DEF Ends

\* A write at the source is one of a new key, to be sent or recorded; one at the target is there.
LEMMA WriteArrives ==
    ASSUME SceneAssumption, MigrationType, Calm, NEW k \in Keys, NEW m \in Ends, Write(k, m),
           traffic' = traffic
    PROVE  Arrived'
  <1>1. /\ slot' = slot /\ route' = route /\ exp' = exp /\ imp' = imp /\ stream' = stream
        /\ wr[k].pc = "none" /\ Served(m)
    BY DEF Write
  <1>2. /\ data[m][k] = NoValue /\ data' = [data EXCEPT ![m][k] = writes + 1] /\ acked' = acked
        /\ wr' = [wr EXCEPT ![k] = [pc |-> "inserted", node |-> m, new |-> writes + 1]]
    BY NothingMay DEF Write, Calm
  <1>3. writes + 1 \in 0..MaxWrites /\ writes + 1 # NoValue /\ Source \in Ends /\ Target \in Ends /\ Source # Target
    BY DEF SceneAssumption, MigrationType, SlotTypeOK, MaxWrites, Write, NoValue, Ends, Source, Target
  <1>4. \A i \in Ends : \A j \in Keys : data'[i][j] = IF i = m /\ j = k THEN writes + 1 ELSE data[i][j]
    <2>1. data \in [Ends -> [Keys -> 0..MaxWrites]]
      BY DEF MigrationType, SlotTypeOK
    <2> QED
      BY <1>2, <1>3, <2>1, StoreValue
  <1>5. /\ wr'[k].pc = "inserted" /\ wr'[k].node = m /\ wr'[k].new = writes + 1
        /\ \A j \in Keys : j # k => wr'[j] = wr[j]
    BY <1>2 DEF MigrationType
  <1>6. Phases'
    BY <1>1 DEF Calm, Phases, NoOK, OneOK, OnTheWay
  <1>7. \/ m = Source /\ exp.pc \in {"idle", "dump", "exported"} /\ imp # "done"
        \/ m = Target /\ exp.pc = "end" /\ imp = "done" /\ stream = <<>>
    BY <1>1, ServedWhere
  <1>8. Pending'
    BY <1>1, <1>3, <1>5, <1>7 DEF Calm, Pending, Committed, Ends, Source
  <1>9. \A i \in 1 .. Len(stream) : stream[i].k # "ok" =>
          stream[i].v = data'[Source][stream[i].k] /\ stream[i].v # NoValue
    <2> SUFFICES ASSUME NEW i \in 1 .. Len(stream), stream[i].k # "ok"
                 PROVE  stream[i].v = data'[Source][stream[i].k] /\ stream[i].v # NoValue
      OBVIOUS
    <2>1. stream[i].k \in Keys
      BY MessageAt
    <2>2. stream[i].v = data[Source][stream[i].k] /\ stream[i].v # NoValue
      BY DEF Calm, Values
    <2> QED
      BY <1>2, <1>3, <1>4, <2>1, <2>2
  <1>10. Values'
    <2>1. ASSUME NEW j \in Keys, imp # "done" PROVE data'[Target][j] \in {NoValue, data'[Source][j]}
      <3>1. data[Target][j] \in {NoValue, data[Source][j]}
        BY <2>1 DEF Calm, Values
      <3> QED
        BY <1>2, <1>3, <1>4, <1>7, <2>1, <3>1
    <2>2. ASSUME NEW j \in Keys
          PROVE  LET v == IF imp = "done" THEN data'[Target][j] ELSE data'[Source][j]
                 IN  IF wr'[j].pc = "none" THEN acked[j] = v ELSE wr'[j].new = v /\ v # NoValue
      BY <1>3, <1>4, <1>5, <1>7 DEF Calm, Values
    <2> QED
      BY <1>1, <1>2, <1>9, <2>1, <2>2 DEF Values, Source, Target, NoValue
  <1>11. Delivery'
    <2> SUFFICES ASSUME NEW j \in Keys, exp.pc # "idle", data'[Source][j] # NoValue
                 PROVE  \/ data'[Target][j] = data'[Source][j]
                        \/ OnTheWay(j)
                        \/ exp.pc \in {"dump", "dirty"} /\ j \in exp.left
                        \/ exp.pc \in {"dump", "exported"} /\ (j \in slot.dirty \/ wr'[j].pc = "inserted")
      BY <1>1 DEF Delivery, OnTheWay, Source, Target, NoValue
    <2>1. CASE j # k
      BY <1>3, <1>4, <1>5, <2>1 DEF Calm, Delivery
    <2>2. CASE j = k /\ m = Source
      BY <1>5, <1>7, <2>2
    <2>3. CASE j = k /\ m = Target
      BY <1>2, <1>3, <1>4, <1>7, <2>3 DEF Calm, Delivery, OnTheWay
    <2> QED
      BY <2>1, <2>2, <2>3 DEF Ends
  <1> QED
    BY <1>6, <1>8, <1>10, <1>11 DEF Arrived

\* The callback at an exporting source records the key as dirty.
LEMMA CallbackArrives ==
    ASSUME SceneAssumption, MigrationType, Calm, NEW k \in Keys, Callback(k), traffic' = traffic
    PROVE  Arrived'
  <1>1. /\ data' = data /\ route' = route /\ exp' = exp /\ imp' = imp /\ stream' = stream
        /\ acked' = [acked EXCEPT ![k] = wr[k].new] /\ wr' = [wr EXCEPT ![k] = Quiet]
        /\ wr[k].pc = "inserted"
    BY DEF Callback, Calm, Pending
  <1>2. slot' = IF wr[k].node = Source THEN insertCallback(k) ELSE slot
    BY <1>1 DEF Callback
  <1>3. /\ slot'.state = slot.state
        /\ slot'.dirty = IF wr[k].node = Source THEN Dirty(k) ELSE slot.dirty
    BY <1>2 DEF insertCallback, MigrationType, SlotTypeOK
  <1>4. /\ wr'[k].pc = "none" /\ acked'[k] = wr[k].new
        /\ \A j \in Keys : j # k => wr'[j] = wr[j] /\ acked'[j] = acked[j]
    BY <1>1 DEF MigrationType, SlotTypeOK, Quiet
  <1>5. Phases'
    BY <1>1, <1>3 DEF Calm, Phases, NoOK, OneOK, OnTheWay
  <1>6. Pending'
    BY <1>1, <1>4 DEF Calm, Pending, Committed, Ends, Source
  <1>7. Values'
    BY <1>1, <1>4 DEF Calm, Values, Source, Target, NoValue
  <1>8. Delivery'
    <2> SUFFICES ASSUME NEW j \in Keys, exp.pc # "idle", data[Source][j] # NoValue
                 PROVE  \/ data[Target][j] = data[Source][j]
                        \/ OnTheWay(j)
                        \/ exp.pc \in {"dump", "dirty"} /\ j \in exp.left
                        \/ exp.pc \in {"dump", "exported"} /\ (j \in slot'.dirty \/ wr'[j].pc = "inserted")
      BY <1>1 DEF Delivery, OnTheWay, Source, Target, NoValue
    <2>1. slot.dirty \subseteq slot'.dirty
      BY <1>3 DEF Dirty
    <2>2. CASE j # k
      BY <1>4, <2>1, <2>2 DEF Calm, Delivery
    <2>3. CASE j = k /\ exp.pc \in {"dump", "exported"}
      <3>1. wr[k].node = Source /\ slot.state = "exporting"
        BY <1>1, <2>3 DEF Calm, Pending, Phases
      <3> QED
        BY <1>3, <2>3, <3>1 DEF Dirty
    <2>4. CASE j = k /\ exp.pc \notin {"dump", "exported"}
      BY <2>4 DEF Calm, Delivery
    <2> QED
      BY <2>2, <2>3, <2>4
  <1> QED
    BY <1>5, <1>6, <1>7, <1>8 DEF Arrived

\* The export starts from slotStatus.keys: by Tracking, all keys but those whose callback is to come.
LEMMA ExportStarts ==
    ASSUME SceneAssumption, MigrationType, Tracking, Calm, startExporting, traffic' = traffic
    PROVE  Arrived'
  <1>1. /\ data' = data /\ route' = route /\ imp' = imp /\ stream' = stream /\ wr' = wr /\ acked' = acked
        /\ imp = "export" /\ exp.pc = "idle" /\ stream = <<>>
        /\ exp'.pc = "dump" /\ exp'.left = slot.keys
    BY DEF startExporting, Calm, Phases
  <1>2. slot'.state = "exporting" /\ slot'.dirty = {}
    BY DEF startExporting, MigrationType, SlotTypeOK
  <1>3. Phases'
    BY <1>1, <1>2 DEF Phases, NoOK, OnTheWay
  <1>4. Pending'
    BY <1>1 DEF Calm, Pending, Committed, Ends, Source
  <1>5. Values'
    BY <1>1 DEF Calm, Values, Source, Target, NoValue
  <1>6. ASSUME NEW k \in Keys, data[Source][k] # NoValue PROVE k \in slot.keys \/ wr[k].pc = "inserted"
    BY <1>1, <1>6, NothingMay DEF Tracking, Calm, Pending
  <1>7. Delivery'
    BY <1>1, <1>6 DEF Delivery, Source, Target, NoValue
  <1> QED
    BY <1>3, <1>4, <1>5, <1>7 DEF Arrived

\* A key leaves the keys to be sent when it goes to the stream.
LEMMA KeyDumped ==
    ASSUME SceneAssumption, MigrationType, Calm, NEW phase \in {"dump", "dirty"}, NEW k \in Keys,
           Dump(phase, k), traffic' = traffic
    PROVE  Arrived'
  <1>1. /\ data' = data /\ slot' = slot /\ route' = route /\ imp' = imp /\ wr' = wr /\ acked' = acked
        /\ exp.pc = phase /\ k \in exp.left
        /\ stream' = IF data[Source][k] = NoValue THEN stream ELSE Append(stream, Copied(k))
    BY DEF Dump
  <1>2. exp'.pc = exp.pc /\ exp'.left = exp.left \ {k}
    BY DEF Dump, MigrationType
  <1>3. Pending'
    BY <1>1, <1>2 DEF Calm, Pending, Committed, Ends, Source
  <1>4. NoOK
    BY <1>1 DEF Calm, Phases
  <1>5. CASE data[Source][k] = NoValue
    <2>1. Phases' /\ Values'
      BY <1>1, <1>2, <1>5 DEF Calm, Phases, Values, NoOK, OneOK, OnTheWay, Source, Target, NoValue
    <2>2. Delivery'
      BY <1>1, <1>2, <1>5 DEF Calm, Delivery, OnTheWay, Source, Target, NoValue
    <2> QED
      BY <1>3, <2>1, <2>2 DEF Arrived
  <1>6. CASE data[Source][k] # NoValue
    <2>1. Copied(k) \in Message /\ Copied(k).k = k /\ Copied(k).v = data[Source][k]
      BY DEF Copied, Message, MigrationType, SlotTypeOK, Ends, Source
    <2>2. stream' = Append(stream, Copied(k))
      BY <1>1, <1>6
    <2>3. /\ Len(stream) \in Nat /\ Len(stream') = Len(stream) + 1
          /\ stream'[Len(stream) + 1] = Copied(k)
          /\ \A i \in 1 .. Len(stream) : stream'[i] = stream[i]
          /\ \A j : OnTheWay(j)' <=> OnTheWay(j) \/ k = j
      BY <2>1, <2>2, Appended
    <2>4. NoOK'
      BY <1>4, <2>3 DEF NoOK, SceneAssumption
    <2>5. Phases'
      BY <1>1, <1>2, <2>4 DEF Calm, Phases
    <2>6. Values'
      <3>1. ASSUME NEW i \in 1 .. Len(stream'), stream'[i].k # "ok"
            PROVE  stream'[i].v = data[Source][stream'[i].k] /\ stream'[i].v # NoValue
        <4>1. CASE i \in 1 .. Len(stream)
          BY <2>3, <3>1, <4>1 DEF Calm, Values
        <4>2. CASE i = Len(stream) + 1
          BY <1>6, <2>1, <2>3, <4>2
        <4> QED
          BY <2>3, <4>1, <4>2
      <3> QED
        BY <1>1, <3>1 DEF Calm, Values, Source, Target, NoValue
    <2>7. Delivery'
      BY <1>1, <1>2, <2>3 DEF Calm, Delivery, Source, Target, NoValue
    <2> QED
      BY <1>3, <2>5, <2>6, <2>7 DEF Arrived
  <1> QED
    BY <1>5, <1>6

\* An OK is written after the last key of a phase.
LEMMA OKWritten ==
    ASSUME SceneAssumption, MigrationType, Calm, NoOK, stream' = Append(stream, OK),
           data' = data, wr' = wr, acked' = acked, imp' = imp
    PROVE  OneOK' /\ Values' /\ \A k \in Keys : OnTheWay(k)' <=> OnTheWay(k)
  <1>1. OK \in Message /\ OK.k = "ok"
    BY DEF OK, Message, NoValue, SceneAssumption, MigrationType, MaxWrites
  <1>2. /\ Len(stream) \in Nat /\ Len(stream') = Len(stream) + 1
        /\ stream'[Len(stream) + 1] = OK /\ stream' # <<>>
        /\ \A i \in 1 .. Len(stream) : stream'[i] = stream[i]
        /\ \A j : OnTheWay(j)' <=> OnTheWay(j) \/ OK.k = j
    BY <1>1, Appended
  <1>3. \A i \in 1 .. Len(stream) : stream[i].k # "ok"
    BY DEF NoOK, OnTheWay
  <1>4. \A i \in 1 .. Len(stream') : i # Len(stream') => i \in 1 .. Len(stream)
    BY <1>2
  <1>5. OneOK'
    BY <1>1, <1>2, <1>3, <1>4 DEF OneOK
  <1>6. Values'
    BY <1>1, <1>2, <1>4 DEF Calm, Values, Source, Target, NoValue
  <1> QED
    BY <1>1, <1>2, <1>5, <1>6 DEF SceneAssumption

\* The OK of the export follows its last key.
LEMMA ExportEnds ==
    ASSUME SceneAssumption, MigrationType, Calm, ExportEnd, traffic' = traffic
    PROVE  Arrived'
  <1>1. /\ data' = data /\ slot' = slot /\ route' = route /\ imp' = imp /\ wr' = wr /\ acked' = acked
        /\ exp.pc = "dump" /\ exp.left = {} /\ stream' = Append(stream, OK)
    BY DEF ExportEnd
  <1>2. exp'.pc = "exported"
    BY DEF ExportEnd, MigrationType
  <1>3. NoOK /\ imp = "export" /\ slot.state = "exporting"
    BY <1>1 DEF Calm, Phases
  <1>4. OneOK' /\ Values' /\ \A k \in Keys : OnTheWay(k)' <=> OnTheWay(k)
    BY <1>1, <1>3, OKWritten
  <1>5. Phases' /\ Pending'
    BY <1>1, <1>2, <1>3, <1>4 DEF Calm, Phases, Pending, Committed, Ends, Source
  <1>6. Delivery'
    BY <1>1, <1>2, <1>4 DEF Calm, Delivery, Source, Target, NoValue
  <1> QED
    BY <1>4, <1>5, <1>6 DEF Arrived

\* No command is under way when the slot is locked, so what is left to send is dirty.
LEMMA FinishLocks ==
    ASSUME SceneAssumption, MigrationType, Calm, FinishLock, traffic' = traffic
    PROVE  Arrived'
  <1>1. /\ data' = data /\ route' = route /\ imp' = imp /\ wr' = wr /\ acked' = acked /\ stream' = stream
        /\ imp = "finish" /\ exp.pc = "exported" /\ stream = <<>>
        /\ exp'.pc = "dirty" /\ exp'.left = slot.dirty
    BY DEF FinishLock, Calm, Phases
  <1>2. \A k \in Keys : wr[k].pc = "none"
    BY NothingMay DEF FinishLock, Calm
  <1>3. Phases' /\ Pending' /\ Values'
    BY <1>1, <1>2, SMTT(30) DEF Calm, Phases, Pending, Values, NoOK, OnTheWay, Committed, Ends, Source, Target, NoValue
  <1>4. Delivery'
    BY <1>1, <1>2 DEF Calm, Delivery, OnTheWay, Source, Target, NoValue
  <1> QED
    BY <1>3, <1>4 DEF Arrived

\* The steps from the dump of the dirty keys to the change of the route.
LEMMA FinishSteps ==
    ASSUME SceneAssumption, MigrationType, Calm, traffic' = traffic,
           finishExportingWithinLock \/ execMigrationChangeRoute \/ (\E m \in Ends : ApplyRoute(m))
    PROVE  Arrived'
  <1>1. data' = data /\ imp' = imp /\ wr' = wr /\ acked' = acked /\ stream' = stream
    BY DEF finishExportingWithinLock, execMigrationChangeRoute, ApplyRoute
  <1>2. Values'
    BY <1>1 DEF Calm, Values, Source, Target, NoValue
  <1>3. CASE finishExportingWithinLock
    <2>1. exp.pc = "dirty" /\ exp.left = {} /\ exp'.pc = "route" /\ route' = route
      BY <1>3 DEF finishExportingWithinLock, MigrationType
    <2>2. Phases' /\ Pending'
      BY <1>1, <2>1 DEF Calm, Phases, Pending, NoOK, OnTheWay, Committed, Ends, Source
    <2>3. Delivery'
      BY <1>1, <2>1 DEF Calm, Delivery, OnTheWay, Source, Target, NoValue
    <2> QED
      BY <1>2, <2>2, <2>3 DEF Arrived
  <1>4. CASE execMigrationChangeRoute
    <2>1. exp.pc = "route" /\ exp'.pc = "changed" /\ route' = route
      BY <1>4, NothingMay DEF execMigrationChangeRoute, MigrationType, Calm
    <2>2. Phases' /\ Pending'
      BY <1>1, <2>1 DEF Calm, Phases, Pending, NoOK, OnTheWay, Committed, Ends, Source
    <2>3. Delivery'
      BY <1>1, <2>1 DEF Calm, Delivery, OnTheWay, Source, Target, NoValue
    <2> QED
      BY <1>2, <2>2, <2>3 DEF Arrived
  <1>5. CASE \E m \in Ends : ApplyRoute(m)
    <2>1. exp' = exp /\ slot' = slot /\ exp.pc \in {"changed", "end"}
      BY <1>5 DEF ApplyRoute, Committed
    <2>2. Phases' /\ Pending'
      BY <1>1, <2>1 DEF Calm, Phases, Pending, NoOK, OneOK, OnTheWay, Committed, Ends, Source
    <2>3. Delivery'
      BY <1>1, <2>1 DEF Calm, Delivery, OnTheWay, Source, Target, NoValue
    <2> QED
      BY <1>2, <2>2, <2>3 DEF Arrived
  <1> QED
    BY <1>3, <1>4, <1>5

\* The OK of the finish follows its last key.
LEMMA FinishAnswers ==
    ASSUME SceneAssumption, MigrationType, Calm, FinishOK, traffic' = traffic
    PROVE  Arrived'
  <1>1. /\ data' = data /\ route' = route /\ imp' = imp /\ wr' = wr /\ acked' = acked
        /\ exp.pc = "changed" /\ stream' = Append(stream, OK)
    BY DEF FinishOK
  <1>2. exp'.pc = "end"
    BY DEF FinishOK, MigrationType
  <1>3. NoOK /\ imp = "finish"
    BY <1>1 DEF Calm, Phases
  <1>4. OneOK' /\ Values' /\ \A k \in Keys : OnTheWay(k)' <=> OnTheWay(k)
    BY <1>1, <1>3, OKWritten
  <1>5. Phases' /\ Pending'
    BY <1>1, <1>2, <1>3, <1>4 DEF Calm, Phases, Pending, Committed, Ends, Source
  <1>6. Delivery'
    BY <1>1, <1>2, <1>4 DEF Calm, Delivery, Source, Target, NoValue
  <1> QED
    BY <1>4, <1>5, <1>6 DEF Arrived

\* doImports takes the first message of the stream.
LEMMA Taken ==
    ASSUME MigrationType, stream # <<>>, stream' = Tail(stream)
    PROVE  /\ Len(stream) \in Nat /\ Len(stream) > 0 /\ Len(stream') = Len(stream) - 1
           /\ Head(stream) = stream[1]
           /\ \A i \in 1 .. Len(stream') : stream'[i] = stream[i + 1]
           /\ \A j : OnTheWay(j)' => OnTheWay(j)
           /\ \A j : OnTheWay(j) => OnTheWay(j)' \/ stream[1].k = j
  <1>1. stream \in Seq(Message)
    BY DEF MigrationType, Message
  <1>2. /\ Len(stream) \in Nat /\ Len(stream) > 0 /\ Len(stream') = Len(stream) - 1
        /\ Head(stream) = stream[1]
        /\ \A i \in 1 .. Len(stream') : stream'[i] = stream[i + 1]
    BY <1>1
  <1>3. ASSUME NEW j, OnTheWay(j)' PROVE OnTheWay(j)
    <2>1. PICK i \in 1 .. Len(stream') : stream'[i].k = j
      BY <1>3 DEF OnTheWay
    <2>2. i + 1 \in 1 .. Len(stream) /\ stream[i + 1].k = j
      BY <1>2, <2>1
    <2> QED
      BY <2>2 DEF OnTheWay
  <1>4. ASSUME NEW j, OnTheWay(j), stream[1].k # j PROVE OnTheWay(j)'
    <2>1. PICK i \in 1 .. Len(stream) : stream[i].k = j
      BY <1>4 DEF OnTheWay
    <2>2. i # 1
      BY <1>4, <2>1
    <2>3. i - 1 \in 1 .. Len(stream') /\ stream'[i - 1] = stream[(i - 1) + 1] /\ (i - 1) + 1 = i
      BY <1>2, <2>2
    <2> QED
      BY <2>1, <2>3 DEF OnTheWay
  <1> QED
    BY <1>2, <1>3, <1>4

\* A key leaves the stream when the target has its value.
LEMMA KeyImported ==
    ASSUME SceneAssumption, MigrationType, Calm, doImports, Head(stream).k \in Keys, traffic' = traffic
    PROVE  Arrived'
  <1> DEFINE k == Head(stream).k
             v == Head(stream).v
  <1>1. /\ slot' = slot /\ route' = route /\ exp' = exp /\ wr' = wr /\ acked' = acked /\ imp' = imp
        /\ stream # <<>> /\ stream' = Tail(stream) /\ data' = [data EXCEPT ![Target][k] = v]
    BY DEF doImports, SceneAssumption
  <1>2. /\ Len(stream) \in Nat /\ Len(stream) > 0 /\ Len(stream') = Len(stream) - 1
        /\ Head(stream) = stream[1]
        /\ \A i \in 1 .. Len(stream') : stream'[i] = stream[i + 1]
        /\ \A j : OnTheWay(j)' => OnTheWay(j)
        /\ \A j : OnTheWay(j) => OnTheWay(j)' \/ stream[1].k = j
    BY <1>1, Taken
  <1>3. 1 \in 1 .. Len(stream) /\ k # "ok" /\ k \in Keys
    BY <1>2 DEF SceneAssumption
  <1>4. v = data[Source][k] /\ v # NoValue /\ v \in 0 .. MaxWrites
    BY <1>2, <1>3, MessageAt, SMTT(30) DEF Calm, Values
  <1>5. \A i \in Ends : \A j \in Keys : data'[i][j] = IF i = Target /\ j = k THEN v ELSE data[i][j]
    <2>1. data \in [Ends -> [Keys -> 0..MaxWrites]] /\ Target \in Ends
      BY DEF MigrationType, SlotTypeOK, Ends
    <2> HIDE DEF k, v
    <2> QED
      BY <1>1, <1>3, <1>4, <2>1, StoreValue
  <1> HIDE DEF k, v
  <1>6. imp # "done"
    BY <1>1 DEF Calm, Phases
  <1>7. \A j \in Keys : data'[Source][j] = data[Source][j]
    BY <1>5 DEF Ends, Source, Target
  <1>8. \A j \in Keys : data'[Target][j] = IF j = k THEN data[Source][k] ELSE data[Target][j]
    BY <1>4, <1>5 DEF Ends
  <1>9. Pending'
    BY <1>1 DEF Calm, Pending, Committed
  <1>10. \A i \in 1 .. Len(stream') : i + 1 \in 1 .. Len(stream)
    BY <1>2
  <1>11. NoOK => NoOK'
    BY <1>2 DEF NoOK
  <1>12. ASSUME OneOK PROVE OneOK'
    <2>1. stream[Len(stream)].k = "ok" /\ \A i \in 1 .. Len(stream) : stream[i].k = "ok" => i = Len(stream)
      BY <1>12 DEF OneOK
    <2>2. Len(stream) # 1
      BY <1>2, <1>3, <2>1 DEF k
    <2>3. Len(stream') \in 1 .. Len(stream') /\ Len(stream') + 1 = Len(stream)
      BY <1>2, <2>2
    <2>4. stream'[Len(stream')].k = "ok" /\ stream' # <<>>
      BY <1>2, <2>1, <2>3
    <2>5. \A i \in 1 .. Len(stream') : stream'[i].k = "ok" => i = Len(stream')
      <3> SUFFICES ASSUME NEW i \in 1 .. Len(stream'), stream'[i].k = "ok" PROVE i = Len(stream')
        OBVIOUS
      <3>1. i + 1 = Len(stream)
        BY <1>2, <1>10, <2>1
      <3> QED
        BY <1>2, <3>1
    <2> QED
      BY <2>4, <2>5 DEF OneOK
  <1>13. Phases'
    BY <1>1, <1>11, <1>12 DEF Calm, Phases
  <1>14. \A i \in 1 .. Len(stream') : stream'[i].k # "ok" =>
            stream'[i].v = data'[Source][stream'[i].k] /\ stream'[i].v # NoValue
    <2> SUFFICES ASSUME NEW i \in 1 .. Len(stream'), stream'[i].k # "ok"
                 PROVE  stream'[i].v = data'[Source][stream'[i].k] /\ stream'[i].v # NoValue
      OBVIOUS
    <2>1. i + 1 \in 1 .. Len(stream) /\ stream'[i] = stream[i + 1]
      BY <1>2, <1>10
    <2>2. stream'[i].k \in Keys
      BY <2>1, MessageAt
    <2> QED
      BY <1>7, <2>1, <2>2, SMTT(30) DEF Calm, Values
  <1>15. Values'
    <2>1. \A j \in Keys : data[Target][j] \in {NoValue, data[Source][j]}
      BY <1>6 DEF Calm, Values
    <2>2. \A j \in Keys : data'[Target][j] \in {NoValue, data'[Source][j]}
      BY <1>7, <1>8, <2>1
    <2> QED
      BY <1>1, <1>6, <1>7, <1>14, <2>2 DEF Calm, Values, Source, Target, NoValue
  <1>16. Delivery'
    <2>1. \A j \in Keys : OnTheWay(j) => OnTheWay(j)' \/ j = k
      BY <1>2 DEF k
    <2> QED
      BY <1>1, <1>7, <1>8, <2>1 DEF Calm, Delivery, Source, Target, NoValue
  <1> QED
    BY <1>9, <1>13, <1>15, <1>16 DEF Arrived

\* The only OK is the last message: when it is taken, the keys sent before it have arrived.
LEMMA OKImported ==
    ASSUME SceneAssumption, MigrationType, Calm, doImports, Head(stream).k = "ok", traffic' = traffic
    PROVE  Arrived'
  <1>1. /\ slot' = slot /\ route' = route /\ exp' = exp /\ wr' = wr /\ acked' = acked /\ data' = data
        /\ stream # <<>> /\ stream' = Tail(stream)
        /\ imp' = IF imp = "export" THEN "finish" ELSE "done"
    BY DEF doImports, SceneAssumption
  <1>2. /\ Len(stream) \in Nat /\ Len(stream) > 0 /\ Len(stream') = Len(stream) - 1
        /\ Head(stream) = stream[1]
    BY <1>1, Taken
  <1>3. 1 \in 1 .. Len(stream) /\ stream[1].k = "ok"
    BY <1>2
  <1>4. ~NoOK
    BY <1>3 DEF NoOK, OnTheWay
  <1>5. /\ OneOK
        /\ (exp.pc = "exported" /\ imp = "export" /\ slot.state = "exporting") \/ (exp.pc = "end" /\ imp = "finish")
    BY <1>1, <1>4 DEF Calm, Phases
  <1>6. Len(stream) = 1
    BY <1>3, <1>5 DEF OneOK
  <1>7. stream' = <<>> /\ Len(stream') = 0
    <2>1. stream \in Seq(Message)
      BY DEF MigrationType, Message
    <2> QED
      BY <1>1, <1>2, <1>6, <2>1
  <1>8. \A k \in Keys : ~OnTheWay(k)
    BY <1>3, <1>6 DEF OnTheWay, SceneAssumption
  <1>9. Phases' /\ Pending'
    BY <1>1, <1>5, <1>7 DEF Calm, Phases, Pending, Committed
  <1>10. exp.pc = "end" => \A k \in Keys : wr[k].pc = "none" /\ data[Target][k] = data[Source][k]
    BY <1>5, <1>8 DEF Calm, Pending, Delivery, Values
  <1>11. Values'
    BY <1>1, <1>5, <1>7, <1>10, SMTT(30) DEF Calm, Values, Source, Target, NoValue
  <1>12. Delivery'
    BY <1>1, <1>8 DEF Calm, Delivery, Source, Target, NoValue
  <1> QED
    BY <1>9, <1>11, <1>12 DEF Arrived

\* Steps that move no data.
LEMMA ImportStarts ==
    ASSUME SceneAssumption, MigrationType, Calm, traffic' = traffic, execStartMigration \/ UNCHANGED MigrationVars
    PROVE  Arrived'
  <1>1. /\ slot' = slot /\ route' = route /\ exp' = exp /\ wr' = wr /\ acked' = acked /\ data' = data
        /\ stream' = stream
        /\ imp' = imp \/ (imp = "idle" /\ imp' = "export")
    BY DEF execStartMigration, MigrationVars
  <1>2. Phases' /\ Pending'
    <2>1. (NoOK' <=> NoOK) /\ (OneOK' <=> OneOK)
      BY <1>1 DEF NoOK, OneOK, OnTheWay
    <2>2. Phases'
      BY <1>1, <2>1 DEF Calm, Phases
    <2>3. Pending'
      BY <1>1 DEF Calm, Pending, Committed, Source
    <2> QED
      BY <2>2, <2>3
  <1>3. Values'
    BY <1>1 DEF Calm, Phases, Values, Source, Target, NoValue
  <1>4. Delivery'
    BY <1>1 DEF Calm, Delivery, OnTheWay, Source, Target, NoValue
  <1> QED
    BY <1>2, <1>3, <1>4 DEF Arrived

\* Every step keeps Arriving.
LEMMA NextArrives ==
    ASSUME SceneAssumption, MigrationType, Tracking, Arriving, [MigrationNext]_MigrationVars
    PROVE  Arriving'
  <1>1. traffic' = traffic
    BY DEF MigrationNext, MigrationVars
  <1>2. Undisturbed' <=> Undisturbed
    BY <1>1 DEF Undisturbed, Ops
  <1> SUFFICES ASSUME Undisturbed PROVE Arrived'
    BY <1>2 DEF Arriving, Arrived
  <1>3. Calm
    BY DEF Arriving, Calm
  <1>4. exp.pc \notin {"refused", "drop"} /\ ~SourceRestarts
    BY <1>3, NothingMay DEF Calm, Phases
  <1>5. ~FinishRefused /\ ~dropSlot /\ ~Restart
    BY <1>4 DEF FinishRefused, dropSlot, Restart
  <1>6. CASE doImports
    <2>1. Head(stream).k \in Keys \/ Head(stream).k = "ok"
      BY <1>6 DEF doImports
    <2> QED
      BY <1>1, <1>3, <1>6, <2>1, KeyImported, OKImported
  <1>7. CASE \E k \in Keys, m \in Ends : Write(k, m)
    BY <1>1, <1>3, <1>7, WriteArrives
  <1>8. CASE \E k \in Keys : Callback(k)
    BY <1>1, <1>3, <1>8, CallbackArrives
  <1>9. CASE \E k \in Keys : Dump("dump", k) \/ Dump("dirty", k)
    BY <1>1, <1>3, <1>9, KeyDumped
  <1>10. CASE startExporting \/ ExportEnd \/ FinishLock
    BY <1>1, <1>3, <1>10, ExportStarts, ExportEnds, FinishLocks
  <1>11. CASE finishExportingWithinLock \/ execMigrationChangeRoute \/ \E m \in Ends : ApplyRoute(m)
    BY <1>1, <1>3, <1>11, FinishSteps
  <1>12. CASE FinishOK
    BY <1>1, <1>3, <1>12, FinishAnswers
  <1>13. CASE execStartMigration \/ UNCHANGED MigrationVars
    BY <1>1, <1>3, <1>13, ImportStarts
  <1> QED
    BY <1>5, <1>6, <1>7, <1>8, <1>9, <1>10, <1>11, <1>12, <1>13 DEF MigrationNext, Work

\* All keys are at the source before the migration.
LEMMA InitArrives ==
    ASSUME SceneAssumption, MigrationInit
    PROVE  Arriving
  <1>1. /\ \A k \in Keys : data[Source][k] = acked[k] /\ data[Target][k] = NoValue /\ wr[k].pc = "none"
        /\ slot.state = "hosting" /\ exp.pc = "idle" /\ imp = "idle" /\ stream = <<>> /\ Len(stream) = 0
        /\ route = [m \in Ends |-> Source]
    BY DEF MigrationInit, Ends, Source, Target, Quiet
  <1>2. Phases /\ Pending
    BY <1>1 DEF Phases, Pending
  <1>3. Values /\ Delivery
    BY <1>1, SMTT(30) DEF Values, Delivery
  <1> QED
    BY <1>2, <1>3 DEF Arriving

(* A migration that nothing disturbs (startExporting to FinishOK at the source,
   doImports at the target) loses no insertion, for any keys, any number of
   writes and every order in which clients, export and import go on. *)
THEOREM InsertsAllArrive ==
    ASSUME SceneAssumption
    PROVE  MigrationSpec => []InsertsArrive
  <1> DEFINE Inv == MigrationType /\ Tracking /\ Arriving
  <1>1. MigrationInit => Inv
    BY InitType, InitArrives, InitTracking
  <1>2. Inv /\ [MigrationNext]_MigrationVars => Inv'
    BY NextType, NextTracking, NextArrives
  <1>3. Inv => InsertsArrive
    <2> SUFFICES ASSUME Inv, Undisturbed PROVE HostHasData
      BY DEF InsertsArrive, Undisturbed
    <2>1. Phases /\ Pending /\ Values
      BY DEF Arriving
    <2>2. Committed \/ imp # "done"
      BY <2>1 DEF Phases, Committed
    <2>3. \A k \in Keys : wr[k].pc \notin {"inserted", "deleted"} => wr[k].pc = "none"
      BY <2>1 DEF Pending
    <2> QED
      BY <2>1, <2>2, <2>3 DEF HostHasData, Values
  <1> HIDE DEF Inv
  <1> QED
    BY <1>1, <1>2, <1>3, PTL DEF MigrationSpec
=============================================================================
