--------------------------- MODULE ConcurrentDict ---------------------------
(***************************************************************************)
(* The sharded dictionary behind the tables of a database                  *)
(* (datastruct/dict/concurrent.go) under concurrent use: goroutines put    *)
(* and remove keys, each under the mutex of one shard, while others walk   *)
(* the shards one after the other: ForEach (KEYS, snapshots), Keys, and a  *)
(* client that follows the cursor of DictScan (SCAN).  The values play no  *)
(* part in a walk, so a shard is the set of its keys.                      *)
(***************************************************************************)
EXTENDS Integers, Sequences, FiniteSets

CONSTANTS Writer, Walker,   \* goroutines
          Key,
          shardCount,
          spread,           \* [Key -> 0 .. shardCount - 1]
          Count,            \* the COUNT arguments of SCAN
          MaxCount          \* bound: the largest value of the counter explored

VARIABLES table,            \* [0 .. shardCount - 1 -> SUBSET Key]
          count,            \* dict.count, an atomic of its own
          w,                \* [Writer -> the operation under way]
          walk,             \* [Walker -> the walk under way]
          present           \* [Walker -> the keys in the dictionary since its walk began]

vars == <<table, count, w, walk, present>>

Shards == 0 .. shardCount - 1
Free == [op |-> "free", key |-> CHOOSE k \in Key : TRUE]
NoWalk == [kind |-> "none", shard |-> 0, got |-> {}, n |-> 0, from |-> 0, room |-> 0]

Stored == UNION {table[s] : s \in Shards}

(* The mutex of a shard: a writer inside it keeps the others out.          *)
Unlocked(s) == \A x \in Writer : w[x].op = "free" \/ spread[w[x].key] # s

Lost(k) == [x \in Walker |-> present[x] \ {k}]

-----------------------------------------------------------------------------
(* Put, and PutIfAbsent of an absent key: the counter and the map change   *)
(* one after the other, inside the mutex; of a present key only the value  *)
(* changes.                                                                *)
PutBegin(x, k) ==
  /\ w[x].op = "free" /\ Unlocked(spread[k]) /\ k \notin Stored
  /\ count < MaxCount
  /\ \/ /\ count' = count + 1               \* Put: addCount, then store
        /\ UNCHANGED table
     \/ /\ table' = [table EXCEPT ![spread[k]] = @ \cup {k}]
        /\ UNCHANGED count                  \* PutIfAbsent: store, then addCount
  /\ w' = [w EXCEPT ![x] = [op |-> "put", key |-> k]]
  /\ UNCHANGED <<walk, present>>

PutEnd(x) ==
  /\ w[x].op = "put"
  /\ LET k == w[x].key IN
       IF k \in Stored
       THEN count' = count + 1 /\ UNCHANGED table
       ELSE table' = [table EXCEPT ![spread[k]] = @ \cup {k}] /\ UNCHANGED count
  /\ w' = [w EXCEPT ![x] = Free]
  /\ UNCHANGED <<walk, present>>

RemoveBegin(x, k) ==
  /\ w[x].op = "free" /\ Unlocked(spread[k]) /\ k \in Stored
  /\ table' = [table EXCEPT ![spread[k]] = @ \ {k}]
  /\ present' = Lost(k)
  /\ w' = [w EXCEPT ![x] = [op |-> "remove", key |-> k]]
  /\ UNCHANGED <<count, walk>>

RemoveEnd(x) ==
  /\ w[x].op = "remove"
  /\ count' = count - 1
  /\ w' = [w EXCEPT ![x] = Free]
  /\ UNCHANGED <<table, walk, present>>

-----------------------------------------------------------------------------
Begin(x, r) ==
  /\ walk[x].kind = "none"
  /\ walk' = [walk EXCEPT ![x] = r]
  /\ present' = [present EXCEPT ![x] = Stored]
  /\ UNCHANGED <<table, count, w>>

(* ForEach, and Keys, whose consumer fills a slice of Len() slots and then *)
(* appends to it.                                                          *)
ForEach(x) == Begin(x, [NoWalk EXCEPT !.kind = "keys"])

(* A shard is visited under its read lock.                                 *)
VisitShard(x) ==
  /\ walk[x].kind = "keys" /\ walk[x].shard < shardCount /\ Unlocked(walk[x].shard)
  /\ walk' = [walk EXCEPT ![x].got = @ \cup table[walk[x].shard],
                          ![x].shard = @ + 1]
  /\ UNCHANGED <<table, count, w, present>>

(* A client starts SCAN 0 COUNT c and calls again with the cursor it got.  *)
(* Without a pattern, a count that reaches the size returns Keys().        *)
Scan(x, c) ==
  Begin(x, IF c >= count THEN [NoWalk EXCEPT !.kind = "keys"]
           ELSE [NoWalk EXCEPT !.kind = "scan", !.room = c])

ScanAgain(x, c) ==
  /\ walk[x].kind = "cursor"
  /\ LET r == walk[x] IN
       walk' = [walk EXCEPT ![x] =
         IF c >= count THEN [r EXCEPT !.kind = "keys", !.shard = 0, !.n = 0]
         ELSE [r EXCEPT !.kind = "scan", !.from = r.shard, !.n = 0, !.room = c]]
  /\ UNCHANGED <<table, count, w, present>>

(* DictScan at one shard: it takes the shard, or stops in front of it and  *)
(* returns its index as the cursor.                                        *)
DictScan_SkipsShard(x) ==
  /\ walk[x].kind = "scan" /\ walk[x].shard < shardCount /\ Unlocked(walk[x].shard)
  /\ LET r    == walk[x]
         keys == table[r.shard]
     IN  walk' = [walk EXCEPT ![x] =
           IF r.n + Cardinality(keys) > r.room /\ r.shard > r.from
           THEN [r EXCEPT !.kind = "cursor", !.shard = @ + 1]
           ELSE [r EXCEPT !.got = @ \cup keys, !.n = @ + Cardinality(keys), !.shard = @ + 1]]
  /\ UNCHANGED <<table, count, w, present>>

DictScan(x) ==
  /\ walk[x].kind = "scan" /\ walk[x].shard < shardCount /\ Unlocked(walk[x].shard)
  /\ LET r    == walk[x]
         keys == table[r.shard]
     IN  walk' = [walk EXCEPT ![x] =
           IF r.n + Cardinality(keys) > r.room /\ r.shard > r.from
           THEN [r EXCEPT !.kind = "cursor"]
           ELSE [r EXCEPT !.got = @ \cup keys, !.n = @ + Cardinality(keys), !.shard = @ + 1]]
  /\ UNCHANGED <<table, count, w, present>>

Over(x) == walk[x].kind \in {"keys", "scan", "cursor"} /\ walk[x].shard >= shardCount

Finish(x) ==
  /\ Over(x)
  /\ walk' = [walk EXCEPT ![x] = NoWalk]
  /\ present' = [present EXCEPT ![x] = {}]
  /\ UNCHANGED <<table, count, w>>

Init ==
  /\ table = [s \in Shards |-> {}]
  /\ count = 0
  /\ w = [x \in Writer |-> Free]
  /\ walk = [x \in Walker |-> NoWalk]
  /\ present = [x \in Walker |-> {}]

Next ==
  \/ \E x \in Writer : PutEnd(x) \/ RemoveEnd(x)
  \/ \E x \in Writer, k \in Key : PutBegin(x, k) \/ RemoveBegin(x, k)
  \/ \E x \in Walker : ForEach(x) \/ VisitShard(x) \/ DictScan(x) \/ Finish(x)
  \/ \E x \in Walker, c \in Count : Scan(x, c) \/ ScanAgain(x, c)

Spec == Init /\ [][Next]_vars

-----------------------------------------------------------------------------
(* The operations whose counter step is still missing.                     *)
PutsStored == {x \in Writer : w[x].op = "put" /\ w[x].key \in Stored}
PutsCounted == {x \in Writer : w[x].op = "put" /\ w[x].key \notin Stored}
Removes == {x \in Writer : w[x].op = "remove"}

CountExact == count + Cardinality(PutsStored)
                = Cardinality(Stored) + Cardinality(PutsCounted) + Cardinality(Removes)

(* A walk that is over has returned every key that was in the dictionary   *)
(* from its first step to its last, whatever came and went meanwhile: for  *)
(* ForEach and Keys, and for a client that followed the cursors of SCAN    *)
(* with any counts.  Len() differs from the number of keys by exactly the  *)
(* operations that are between their two updates, and is never negative.   *)
WalksComplete ==
  /\ CountExact
  /\ count >= 0
  /\ \A x \in Walker : Over(x) => present[x] \subseteq walk[x].got

-----------------------------------------------------------------------------
(* What the shards are: a positive number of them, a place for each key,   *)
(* finitely many goroutines.                                               *)
Sharding ==
  /\ shardCount \in Nat \ {0}
  /\ spread \in [Key -> Shards]
  /\ IsFiniteSet(Writer)
  /\ Count \subseteq Nat

WalkRec == [kind : {"none", "keys", "scan", "cursor"}, shard : Nat, got : SUBSET Key,
            n : Nat, from : Nat, room : Nat]

DictType ==
  /\ table \in [Shards -> SUBSET Key]
  /\ count \in Int
  /\ w \in [Writer -> [op : {"free", "put", "remove"}, key : Key \cup {Free.key}]]
  /\ walk \in [Walker -> WalkRec]
  /\ present \in [Walker -> SUBSET Key]

(* The strengthening of WalksComplete that the steps preserve: keys are in *)
(* their shard, a shard has one writer inside its mutex, and a walk has    *)
(* got what stayed in the shards it has passed.                            *)
Placed == \A s \in Shards : \A k \in table[s] : spread[k] = s

OneInside ==
  \A x \in Writer : w[x].op # "free" =>
    /\ w[x].key \in Key
    /\ \A y \in Writer : w[y].op # "free" /\ spread[w[y].key] = spread[w[x].key] => y = x

PassedGot ==
  \A x \in Walker : \A k \in present[x] :
    k \in Stored /\ (spread[k] < walk[x].shard => k \in walk[x].got)

DictInv ==
  /\ DictType
  /\ Placed
  /\ OneInside
  /\ PassedGot
  /\ IsFiniteSet(Stored)
  /\ CountExact
=============================================================================
