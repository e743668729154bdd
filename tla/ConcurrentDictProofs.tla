------------------------ MODULE ConcurrentDictProofs ------------------------
(***************************************************************************)
(* For every number of shards, every placement of the keys and all         *)
(* goroutines: walks of the dictionary are complete, and its counter is    *)
(* off by exactly the operations under way.                                *)
(***************************************************************************)
EXTENDS ConcurrentDict, FiniteSetTheorems, TLAPS

\* A key is in the dictionary if it is in its own shard.
LEMMA StoredInShard ==
    ASSUME Sharding, DictType, Placed, NEW k \in Key
    PROVE  k \in Stored <=> k \in table[spread[k]]
  BY DEF Sharding, DictType, Placed, Stored

\* What is stored are keys.
LEMMA StoredType ==
    ASSUME Sharding, DictType
    PROVE  Stored \subseteq Key
  BY DEF Sharding, DictType, Stored

\* A store into the shard of a key adds this key, a delete removes it.
LEMMA StoreKey ==
    ASSUME Sharding, DictType, NEW k \in Key,
           table' = [table EXCEPT ![spread[k]] = @ \cup {k}]
    PROVE  Stored' = Stored \cup {k}
  <1>1. spread[k] \in Shards
    BY DEF Sharding
  <1>2. \A s \in Shards : table'[s] = IF s = spread[k] THEN table[s] \cup {k} ELSE table[s]
    BY <1>1 DEF DictType
  <1>3. Stored' = UNION {table'[s] : s \in Shards}
    BY DEF Stored, Shards
  <1> QED
    BY <1>1, <1>2, <1>3 DEF Stored

\* A delete from the shard of a key removes this key only.
LEMMA DeleteKey ==
    ASSUME Sharding, DictType, Placed, NEW k \in Key,
           table' = [table EXCEPT ![spread[k]] = @ \ {k}]
    PROVE  Stored' = Stored \ {k}
  <1>1. spread[k] \in Shards
    BY DEF Sharding
  <1>2. \A s \in Shards : table'[s] = IF s = spread[k] THEN table[s] \ {k} ELSE table[s]
    BY <1>1 DEF DictType
  <1>3. Stored' = UNION {table'[s] : s \in Shards}
    BY DEF Stored, Shards
  <1>4. \A s \in Shards : k \in table[s] => s = spread[k]
    BY DEF Placed
  <1> QED
    BY <1>1, <1>2, <1>3, <1>4 DEF Stored

\* The sets that the counter is compared with are finite.
LEMMA FiniteWriters ==
    ASSUME Sharding
    PROVE  /\ IsFiniteSet(PutsStored) /\ Cardinality(PutsStored) \in Nat
           /\ IsFiniteSet(PutsCounted) /\ Cardinality(PutsCounted) \in Nat
           /\ IsFiniteSet(Removes) /\ Cardinality(Removes) \in Nat
  <1>1. PutsStored \in SUBSET Writer /\ PutsCounted \in SUBSET Writer /\ Removes \in SUBSET Writer
    BY DEF PutsStored, PutsCounted, Removes
  <1> QED
    BY <1>1, FS_Subset, FS_CardinalityType DEF Sharding

\* The arithmetic of the counter.
LEMMA Numbers ==
    ASSUME Sharding, DictInv
    PROVE  /\ count \in Int /\ Cardinality(Stored) \in Nat
           /\ Cardinality(PutsStored) \in Nat
           /\ Cardinality(PutsCounted) \in Nat
           /\ Cardinality(Removes) \in Nat
  BY FiniteWriters, FS_CardinalityType DEF DictInv, DictType

-----------------------------------------------------------------------------
\* The dictionary starts empty, with no walk under way.
LEMMA InitInv == Sharding /\ Init => DictInv
  <1> SUFFICES ASSUME Sharding, Init PROVE DictInv
    OBVIOUS
  <1>1. DictType
    BY DEF DictType, Init, Free, NoWalk, WalkRec
  <1>2. Stored = {}
    BY DEF Init, Stored
  <1>3. PutsStored = {} /\ PutsCounted = {} /\ Removes = {}
    BY DEF PutsStored, PutsCounted, Removes, Init, Free
  <1>4. CountExact
    BY <1>2, <1>3, FS_EmptySet DEF CountExact, Init
  <1>5. Placed /\ OneInside /\ PassedGot
    BY DEF Placed, OneInside, PassedGot, Init, Free
  <1> QED
    BY <1>1, <1>2, <1>4, <1>5, FS_EmptySet DEF DictInv

\* The goroutine that enters a mutex is alone in it: no other one has the key.
LEMMA Alone ==
    ASSUME DictInv, NEW x \in Writer, NEW k \in Key, Unlocked(spread[k])
    PROVE  \A y \in Writer : w[y].op # "free" => w[y].key # k
  BY DEF Unlocked

\* A goroutine inside a mutex is the only one of this shard.
LEMMA AloneInside ==
    ASSUME DictInv, NEW x \in Writer, w[x].op # "free"
    PROVE  \A y \in Writer : w[y].op # "free" /\ y # x => w[y].key # w[x].key
  BY DEF DictInv, OneInside

\* Put counts first and PutIfAbsent stores first.
LEMMA PutBeginInv ==
    ASSUME Sharding, DictInv, NEW x \in Writer, NEW k \in Key, PutBegin(x, k)
    PROVE  DictInv'
  <1> USE DEF DictInv
  <1>1. /\ w[x].op = "free" /\ Unlocked(spread[k]) /\ k \notin Stored
        /\ w' = [w EXCEPT ![x] = [op |-> "put", key |-> k]]
        /\ walk' = walk /\ present' = present
    BY DEF PutBegin
  <1>2. spread[k] \in Shards /\ Shards' = Shards
    BY DEF Sharding, Shards
  <1>3. /\ w'[x] = [op |-> "put", key |-> k]
        /\ \A y \in Writer \ {x} : w'[y] = w[y]
    BY <1>1 DEF DictType
  <1>4. OneInside'
    BY <1>1, <1>3 DEF OneInside, Unlocked
  <1>5. Removes' = Removes
    BY <1>1, <1>3 DEF Removes
  <1>6. x \notin PutsStored /\ x \notin PutsCounted
    BY <1>1 DEF PutsStored, PutsCounted
  <1>7. \A y \in Writer : w[y].op # "free" => w[y].key # k
    BY <1>1, Alone
  <1>8. CASE count' = count + 1 /\ table' = table
    <2>1. DictType'
      BY <1>1, <1>8 DEF DictType
    <2>2. Stored' = Stored
      BY <1>2, <1>8 DEF Stored
    <2>3. PutsStored' = PutsStored /\ PutsCounted' = PutsCounted \cup {x}
      BY <1>1, <1>3, <2>2 DEF PutsStored, PutsCounted
    <2>4. Cardinality(PutsCounted') = Cardinality(PutsCounted) + 1
      BY <1>6, <2>3, FiniteWriters, FS_AddElement
    <2>5. CountExact'
      BY <1>5, <1>8, <2>2, <2>3, <2>4, Numbers DEF CountExact
    <2>6. Placed' /\ PassedGot'
      BY <1>1, <1>2, <1>8, <2>2 DEF Placed, PassedGot
    <2> QED
      BY <1>4, <2>1, <2>2, <2>5, <2>6
  <1>9. CASE table' = [table EXCEPT ![spread[k]] = @ \cup {k}] /\ count' = count
    <2>1. DictType'
      BY <1>1, <1>2, <1>9 DEF DictType
    <2>2. Stored' = Stored \cup {k}
      BY <1>9, StoreKey
    <2>3. PutsStored' = PutsStored \cup {x} /\ PutsCounted' = PutsCounted
      BY <1>1, <1>3, <1>7, <2>2 DEF PutsStored, PutsCounted
    <2>4. Cardinality(PutsStored') = Cardinality(PutsStored) + 1
      BY <1>6, <2>3, FiniteWriters, FS_AddElement
    <2>5. IsFiniteSet(Stored') /\ Cardinality(Stored') = Cardinality(Stored) + 1
      BY <1>1, <2>2, FS_AddElement
    <2>6. CountExact'
      BY <1>5, <1>9, <2>3, <2>4, <2>5, Numbers DEF CountExact
    <2>7. Placed'
      BY <1>2, <1>9 DEF Placed, DictType
    <2>8. PassedGot'
      BY <1>1, <2>2 DEF PassedGot
    <2> QED
      BY <1>4, <2>1, <2>5, <2>6, <2>7, <2>8
  <1> QED
    BY <1>8, <1>9 DEF PutBegin

\* The other half of the put, before it leaves the mutex.
LEMMA PutEndInv ==
    ASSUME Sharding, DictInv, NEW x \in Writer, PutEnd(x)
    PROVE  DictInv'
  <1> USE DEF DictInv
  <1> DEFINE k == w[x].key
  <1>1. /\ w[x].op = "put" /\ k \in Key
        /\ w' = [w EXCEPT ![x] = Free]
        /\ walk' = walk /\ present' = present
    BY DEF PutEnd, OneInside
  <1>2. spread[k] \in Shards /\ Shards' = Shards
    BY <1>1 DEF Sharding, Shards
  <1>3. /\ w'[x] = Free /\ w'[x].op = "free" /\ Free' = Free
        /\ \A y \in Writer \ {x} : w'[y] = w[y]
    BY <1>1 DEF DictType, Free
  <1>4. OneInside'
    BY <1>1, <1>3 DEF OneInside
  <1>5. Removes' = Removes
    BY <1>1, <1>3 DEF Removes
  <1>6. \A y \in Writer : w[y].op # "free" /\ y # x => w[y].key # k
    BY <1>1, AloneInside
  <1>7. w' \in [Writer -> [op : {"free", "put", "remove"}, key : Key \cup {Free.key}]]
    BY <1>1 DEF DictType, Free
  <1>8. CASE k \in Stored
    <2>1. count' = count + 1 /\ table' = table
      BY <1>8 DEF PutEnd
    <2>2. Stored' = Stored
      BY <1>2, <2>1 DEF Stored
    <2>3. PutsStored' = PutsStored \ {x} /\ PutsCounted' = PutsCounted /\ x \in PutsStored
      BY <1>1, <1>3, <1>8, <2>2 DEF PutsStored, PutsCounted
    <2>4. Cardinality(PutsStored') = Cardinality(PutsStored) - 1
      BY <2>3, FiniteWriters, FS_RemoveElement
    <2>5. CountExact'
      BY <1>5, <2>1, <2>2, <2>3, <2>4, Numbers DEF CountExact
    <2>6. DictType' /\ Placed' /\ PassedGot'
      BY <1>1, <1>2, <1>3, <1>7, <2>1, <2>2 DEF DictType, Placed, PassedGot
    <2> QED
      BY <1>4, <2>2, <2>5, <2>6
  <1>9. CASE k \notin Stored
    <2>1. table' = [table EXCEPT ![spread[k]] = @ \cup {k}] /\ count' = count
      BY <1>9 DEF PutEnd
    <2>2. Stored' = Stored \cup {k}
      BY <1>1, <2>1, StoreKey
    <2>3. PutsCounted' = PutsCounted \ {x} /\ PutsStored' = PutsStored /\ x \in PutsCounted
      BY <1>1, <1>3, <1>6, <1>9, <2>2 DEF PutsStored, PutsCounted
    <2>4. Cardinality(PutsCounted') = Cardinality(PutsCounted) - 1
      BY <2>3, FiniteWriters, FS_RemoveElement
    <2>5. IsFiniteSet(Stored') /\ Cardinality(Stored') = Cardinality(Stored) + 1
      BY <1>9, <2>2, FS_AddElement
    <2>6. CountExact'
      BY <1>5, <2>1, <2>3, <2>4, <2>5, Numbers DEF CountExact
    <2>7. DictType'
      BY <1>1, <1>2, <1>3, <1>7, <2>1 DEF DictType
    <2>8. Placed'
      BY <1>2, <2>1 DEF Placed, DictType
    <2>9. PassedGot'
      BY <1>1, <2>2 DEF PassedGot
    <2> QED
      BY <1>4, <2>5, <2>6, <2>7, <2>8, <2>9
  <1> QED
    BY <1>8, <1>9

\* Remove deletes the key, which the walks under way may then miss.
LEMMA RemoveBeginInv ==
    ASSUME Sharding, DictInv, NEW x \in Writer, NEW k \in Key, RemoveBegin(x, k)
    PROVE  DictInv'
  <1> USE DEF DictInv
  <1>1. /\ w[x].op = "free" /\ Unlocked(spread[k]) /\ k \in Stored
        /\ table' = [table EXCEPT ![spread[k]] = @ \ {k}]
        /\ present' = [y \in Walker |-> present[y] \ {k}]
        /\ w' = [w EXCEPT ![x] = [op |-> "remove", key |-> k]]
        /\ walk' = walk /\ count' = count
    BY DEF RemoveBegin, Lost
  <1>2. spread[k] \in Shards /\ Shards' = Shards
    BY DEF Sharding, Shards
  <1>3. /\ w'[x] = [op |-> "remove", key |-> k]
        /\ \A y \in Writer \ {x} : w'[y] = w[y]
    BY <1>1 DEF DictType
  <1>4. OneInside'
    BY <1>1, <1>3 DEF OneInside, Unlocked
  <1>5. \A y \in Writer : w[y].op # "free" => w[y].key # k
    BY <1>1, Alone
  <1>6. Stored' = Stored \ {k}
    BY <1>1, DeleteKey
  <1>7. /\ PutsStored' = PutsStored /\ PutsCounted' = PutsCounted
        /\ Removes' = Removes \cup {x} /\ x \notin Removes
    BY <1>1, <1>3, <1>5, <1>6 DEF PutsStored, PutsCounted, Removes
  <1>8. Cardinality(Removes') = Cardinality(Removes) + 1
    BY <1>7, FiniteWriters, FS_AddElement
  <1>9. IsFiniteSet(Stored') /\ Cardinality(Stored') = Cardinality(Stored) - 1
    BY <1>1, <1>6, FS_RemoveElement
  <1>10. CountExact'
    BY <1>1, <1>7, <1>8, <1>9, Numbers DEF CountExact
  <1>11. DictType'
    BY <1>1, <1>2 DEF DictType
  <1>12. Placed'
    BY <1>1, <1>2 DEF Placed, DictType
  <1>13. PassedGot'
    BY <1>1, <1>6 DEF PassedGot, DictType
  <1> QED
    BY <1>4, <1>9, <1>10, <1>11, <1>12, <1>13

\* Remove decrements the counter and leaves the mutex.
LEMMA RemoveEndInv ==
    ASSUME Sharding, DictInv, NEW x \in Writer, RemoveEnd(x)
    PROVE  DictInv'
  <1> USE DEF DictInv
  <1>1. /\ w[x].op = "remove" /\ count' = count - 1
        /\ w' = [w EXCEPT ![x] = Free]
        /\ table' = table /\ walk' = walk /\ present' = present
    BY DEF RemoveEnd
  <1>2. /\ w'[x].op = "free"
        /\ \A y \in Writer \ {x} : w'[y] = w[y]
        /\ w' \in [Writer -> [op : {"free", "put", "remove"}, key : Key \cup {Free.key}]]
    BY <1>1 DEF DictType, Free
  <1>3. OneInside'
    BY <1>2 DEF OneInside
  <1>4. Stored' = Stored
    BY <1>1 DEF Stored, Shards
  <1>5. /\ PutsStored' = PutsStored /\ PutsCounted' = PutsCounted
        /\ Removes' = Removes \ {x} /\ x \in Removes
    BY <1>1, <1>2, <1>4 DEF PutsStored, PutsCounted, Removes
  <1>6. Cardinality(Removes') = Cardinality(Removes) - 1
    BY <1>5, FiniteWriters, FS_RemoveElement
  <1>7. CountExact'
    BY <1>1, <1>4, <1>5, <1>6, Numbers DEF CountExact
  <1>8. DictType' /\ Placed' /\ PassedGot'
    BY <1>1, <1>2, <1>4 DEF DictType, Placed, PassedGot, Shards
  <1> QED
    BY <1>3, <1>4, <1>7, <1>8

-----------------------------------------------------------------------------
\* A step of a walk leaves the dictionary alone.
LEMMA WalkStep ==
    ASSUME Sharding, DictInv, UNCHANGED <<table, count, w>>, DictType', PassedGot'
    PROVE  DictInv'
  <1>1. Stored' = Stored
    BY DEF Stored, Shards
  <1>2. PutsStored' = PutsStored /\ PutsCounted' = PutsCounted /\ Removes' = Removes
    BY <1>1 DEF PutsStored, PutsCounted, Removes
  <1>3. CountExact'
    BY <1>1, <1>2 DEF CountExact, DictInv
  <1> QED
    BY <1>1, <1>3 DEF DictInv, Placed, OneInside, Shards

\* A walk begins at the first shard with nothing.
LEMMA BeginInv ==
    ASSUME Sharding, DictInv, NEW x \in Walker, NEW r \in WalkRec, r.shard = 0, Begin(x, r)
    PROVE  DictInv'
  <1>1. /\ walk' = [walk EXCEPT ![x] = r]
        /\ present' = [present EXCEPT ![x] = Stored]
        /\ UNCHANGED <<table, count, w>>
    BY DEF Begin
  <1>2. DictType'
    BY <1>1, StoredType DEF DictInv, DictType
  <1>3. Stored' = Stored
    BY <1>1 DEF Stored, Shards
  <1>4. \A k \in Key : ~(spread[k] < 0)
    BY DEF Sharding, Shards
  <1>5. PassedGot'
    BY <1>1, <1>3, <1>4, StoredType DEF DictInv, DictType, PassedGot
  <1> QED
    BY <1>1, <1>2, <1>5, WalkStep

\* What a walk that takes a shard adds to what it has got is all of the shard.
LEMMA TakeShard ==
    ASSUME Sharding, DictInv, NEW x \in Walker, walk[x].shard < shardCount,
           UNCHANGED <<table, count, w, present>>, DictType',
           walk'[x].got = walk[x].got \cup table[walk[x].shard],
           walk'[x].shard = walk[x].shard + 1,
           \A y \in Walker \ {x} : walk'[y] = walk[y]
    PROVE  DictInv'
  <1>1. Stored' = Stored
    BY DEF Stored, Shards
  <1>2. ASSUME NEW k \in present[x], spread[k] < walk[x].shard + 1
        PROVE  k \in walk[x].got \cup table[walk[x].shard]
    <2>1. k \in Key /\ k \in Stored /\ spread[k] \in Nat /\ walk[x].shard \in Nat
      BY <1>2, StoredType DEF DictInv, DictType, WalkRec, PassedGot, Sharding, Shards
    <2>2. CASE spread[k] < walk[x].shard
      BY <1>2, <2>2 DEF DictInv, PassedGot
    <2>3. CASE spread[k] = walk[x].shard
      BY <2>1, <2>3, StoredInShard DEF DictInv
    <2> QED
      BY <1>2, <2>1, <2>2, <2>3
  <1>3. PassedGot'
    BY <1>1, <1>2 DEF DictInv, PassedGot
  <1> QED
    BY <1>3, WalkStep

\* A walk under way is at a shard and has a finite set of keys.
LEMMA WalkShard ==
    ASSUME Sharding, DictInv, NEW x \in Walker, walk[x].shard < shardCount
    PROVE  /\ walk[x] \in WalkRec
           /\ table[walk[x].shard] \subseteq Key
           /\ Cardinality(table[walk[x].shard]) \in Nat
  <1>1. walk[x] \in WalkRec
    BY DEF DictInv, DictType
  <1>2. walk[x].shard \in Shards
    BY <1>1 DEF WalkRec, Sharding, Shards
  <1>3. table[walk[x].shard] \subseteq Key /\ table[walk[x].shard] \in SUBSET Stored
    BY <1>2 DEF DictInv, DictType, Stored
  <1> QED
    BY <1>1, <1>3, FS_Subset, FS_CardinalityType DEF DictInv

\* ForEach and Keys take a whole shard under its lock.
LEMMA VisitShardInv ==
    ASSUME Sharding, DictInv, NEW x \in Walker, VisitShard(x)
    PROVE  DictInv'
  <1> DEFINE r == walk[x]
             q == [r EXCEPT !.got = @ \cup table[r.shard], !.shard = @ + 1]
  <1>1. /\ UNCHANGED <<table, count, w, present>>
        /\ r.shard < shardCount
    BY DEF VisitShard
  <1>2. r \in WalkRec /\ table[r.shard] \subseteq Key
    BY <1>1, WalkShard
  <1>3. r.got \cup table[r.shard] \in SUBSET Key /\ r.shard + 1 \in Nat
    BY <1>2 DEF WalkRec
  <1>4. q \in WalkRec
    BY <1>2, <1>3, Zenon DEF WalkRec
  <1>5. q.got = r.got \cup table[r.shard] /\ q.shard = r.shard + 1
    BY <1>2, SMT DEF WalkRec
  <1>6. walk' = [walk EXCEPT ![x] = q]
    BY DEF VisitShard, DictInv, DictType
  <1> HIDE DEF q
  <1>7. DictType'
    BY <1>1, <1>4, <1>6 DEF DictInv, DictType
  <1>8. walk'[x] = q /\ \A y \in Walker \ {x} : walk'[y] = walk[y]
    BY <1>6 DEF DictInv, DictType
  <1> QED
    BY <1>1, <1>5, <1>7, <1>8, TakeShard

\* DictScan takes whole shards until it has enough.
LEMMA DictScanInv ==
    ASSUME Sharding, DictInv, NEW x \in Walker, DictScan(x)
    PROVE  DictInv'
  <1> DEFINE r == walk[x]
             keys == table[r.shard]
             q == [r EXCEPT !.got = @ \cup keys, !.n = @ + Cardinality(keys), !.shard = @ + 1]
             full == r.n + Cardinality(keys) > r.room /\ r.shard > r.from
  <1>1. /\ UNCHANGED <<table, count, w, present>>
        /\ r.shard < shardCount
    BY DEF DictScan
  <1>2. r \in WalkRec /\ keys \subseteq Key /\ Cardinality(keys) \in Nat
    BY <1>1, WalkShard
  <1>3. walk' = [walk EXCEPT ![x] = IF full THEN [r EXCEPT !.kind = "cursor"] ELSE q]
    BY Zenon DEF DictScan
  <1>4. CASE full
    <2>1. walk' = [walk EXCEPT ![x] = [r EXCEPT !.kind = "cursor"]]
      BY <1>3, <1>4, Zenon
    <2>2. [r EXCEPT !.kind = "cursor"] \in WalkRec
      BY <1>2 DEF WalkRec
    <2>3. DictType'
      BY <1>1, <2>1, <2>2 DEF DictInv, DictType
    <2>4. \A y \in Walker : walk'[y].got = walk[y].got /\ walk'[y].shard = walk[y].shard
      BY <1>2, <2>1 DEF DictInv, DictType, WalkRec
    <2>5. Stored' = Stored
      BY <1>1 DEF Stored, Shards
    <2>6. PassedGot'
      BY <1>1, <2>4, <2>5 DEF DictInv, PassedGot
    <2> QED
      BY <1>1, <2>3, <2>6, WalkStep
  <1>5. CASE ~full
    <2>1. walk' = [walk EXCEPT ![x] = q]
      BY <1>3, <1>5, Zenon
    <2>2. r.got \cup keys \in SUBSET Key /\ r.n + Cardinality(keys) \in Nat /\ r.shard + 1 \in Nat
      BY <1>2 DEF WalkRec
    <2>3. q \in WalkRec
      BY <1>2, <2>2, Zenon DEF WalkRec
    <2>4. q.got = r.got \cup keys /\ q.shard = r.shard + 1
      BY <1>2, SMT DEF WalkRec
    <2> HIDE DEF q
    <2>5. DictType'
      BY <1>1, <2>1, <2>3 DEF DictInv, DictType
    <2>6. walk'[x] = q /\ \A y \in Walker \ {x} : walk'[y] = walk[y]
      BY <2>1 DEF DictInv, DictType
    <2> QED
      BY <1>1, <2>4, <2>5, <2>6, TakeShard
  <1> QED
    BY <1>4, <1>5

\* The next call of DictScan goes on at the cursor the last one returned.
LEMMA ScanAgainInv ==
    ASSUME Sharding, DictInv, NEW x \in Walker, NEW c \in Count, ScanAgain(x, c)
    PROVE  DictInv'
  <1> DEFINE r == walk[x]
             all == [r EXCEPT !.kind = "keys", !.shard = 0, !.n = 0]
             more == [r EXCEPT !.kind = "scan", !.from = r.shard, !.n = 0, !.room = c]
  <1>1. UNCHANGED <<table, count, w, present>>
    BY DEF ScanAgain
  <1>2. walk' = [walk EXCEPT ![x] = all] \/ walk' = [walk EXCEPT ![x] = more]
    <2>1. CASE c >= count
      BY <2>1, Zenon DEF ScanAgain
    <2>2. CASE ~(c >= count)
      BY <2>2, Zenon DEF ScanAgain
    <2> QED
      BY <2>1, <2>2
  <1>3. c \in Nat /\ r \in WalkRec /\ 0 \in Nat /\ r.shard \in Nat
    BY DEF Sharding, DictInv, DictType, WalkRec
  <1>4. all \in WalkRec /\ more \in WalkRec
    BY <1>3, Zenon DEF WalkRec
  <1>5. all.got = r.got /\ all.shard = 0 /\ more.got = r.got /\ more.shard = r.shard
    BY <1>3, SMT DEF WalkRec
  <1> HIDE DEF all, more
  <1>6. DictType'
    BY <1>1, <1>2, <1>4 DEF DictInv, DictType
  <1>7. \A y \in Walker : walk'[y].got = walk[y].got /\ walk'[y].shard \in {0, walk[y].shard}
    BY <1>2, <1>5 DEF DictInv, DictType
  <1>8. Stored' = Stored
    BY <1>1 DEF Stored, Shards
  <1>9. \A k \in Key : ~(spread[k] < 0)
    BY DEF Sharding, Shards
  <1>10. PassedGot'
    BY <1>1, <1>7, <1>8, <1>9, StoredType DEF DictInv, PassedGot
  <1> QED
    BY <1>1, <1>6, <1>10, WalkStep

\* A walk that has returned is forgotten.
LEMMA FinishInv ==
    ASSUME Sharding, DictInv, NEW x \in Walker, Finish(x)
    PROVE  DictInv'
  <1>1. /\ UNCHANGED <<table, count, w>>
        /\ walk' = [walk EXCEPT ![x] = NoWalk] /\ present' = [present EXCEPT ![x] = {}]
    BY DEF Finish
  <1>2. DictType'
    BY <1>1 DEF DictInv, DictType, NoWalk, WalkRec
  <1>3. Stored' = Stored
    BY <1>1 DEF Stored, Shards
  <1>4. PassedGot'
    BY <1>1, <1>3 DEF DictInv, DictType, PassedGot
  <1> QED
    BY <1>1, <1>2, <1>4, WalkStep

-----------------------------------------------------------------------------
\* Every step keeps the invariant.
LEMMA NextInv ==
    ASSUME Sharding, DictInv, [Next]_vars
    PROVE  DictInv'
  <1> DEFINE all == [NoWalk EXCEPT !.kind = "keys"]
  <1>0. all \in WalkRec /\ all.shard = 0
    BY DEF NoWalk, WalkRec
  <1>1. ASSUME NEW x \in Walker, NEW c \in Count, Scan(x, c) PROVE DictInv'
    <2> DEFINE some == [NoWalk EXCEPT !.kind = "scan", !.room = c]
    <2>1. c \in Nat
      BY DEF Sharding
    <2>2. some \in WalkRec /\ some.shard = 0
      BY <2>1 DEF NoWalk, WalkRec
    <2>3. CASE c >= count
      BY <1>0, <1>1, <2>3, BeginInv DEF Scan
    <2>4. CASE ~(c >= count)
      BY <1>1, <2>2, <2>4, BeginInv DEF Scan
    <2> QED
      BY <2>3, <2>4
  <1>2. ASSUME NEW x \in Walker, ForEach(x) PROVE DictInv'
    BY <1>0, <1>2, BeginInv DEF ForEach
  <1>3. CASE UNCHANGED vars
    <2>1. DictType' /\ PassedGot'
      BY <1>3 DEF vars, DictInv, DictType, PassedGot, Stored, Shards
    <2> QED
      BY <1>3, <2>1, WalkStep DEF vars
  <1> QED
    BY <1>1, <1>2, <1>3, PutBeginInv, PutEndInv, RemoveBeginInv, RemoveEndInv, VisitShardInv,
       DictScanInv, ScanAgainInv, FinishInv DEF Next

\* A put that has stored its key and not counted it yet is the only one of its
\* shard, so there are no more of them than keys.
LEMMA StoredOutnumbersPuts ==
    ASSUME Sharding, DictInv
    PROVE  Cardinality(PutsStored) <= Cardinality(Stored)
  <1> DEFINE f == [x \in PutsStored |-> w[x].key]
  <1>1. f \in [PutsStored -> Stored]
    BY DEF PutsStored
  <1>2. \A x, y \in PutsStored : f[x] = f[y] => x = y
    BY DEF PutsStored, DictInv, OneInside
  <1>3. f \in Injection(PutsStored, Stored)
    BY <1>1, <1>2 DEF Injection, IsInjective
  <1> QED
    BY <1>3, FS_Injection DEF DictInv

\* The invariant gives completeness of walks and exactness of the counter.
LEMMA InvImplies ==
    ASSUME Sharding, DictInv
    PROVE  WalksComplete
  <1>1. count >= 0
    BY StoredOutnumbersPuts, Numbers DEF DictInv, CountExact
  <1>2. ASSUME NEW x \in Walker, Over(x), NEW k \in present[x] PROVE k \in walk[x].got
    <2>1. k \in Key /\ walk[x].shard \in Nat /\ walk[x].shard >= shardCount
      BY <1>2 DEF Over, DictInv, DictType, WalkRec
    <2>2. spread[k] < walk[x].shard
      BY <2>1 DEF Sharding, Shards
    <2> QED
      BY <1>2, <2>2 DEF DictInv, PassedGot
  <1> QED
    BY <1>1, <1>2 DEF WalksComplete, DictInv

\* For any number of shards, keys, writers and walkers, a walk by ForEach, Keys or
\* the cursors of DictScan returns every key that stayed, and Len() is off by
\* exactly the operations under way and never negative (concurrent.go).
THEOREM WalksAreComplete ==
    ASSUME Sharding
    PROVE  Spec => []WalksComplete
<1>1. Init => DictInv
  BY InitInv
<1>2. DictInv /\ [Next]_vars => DictInv'
  BY NextInv
<1>3. DictInv => WalksComplete
  BY InvImplies
<1> QED
  BY <1>1, <1>2, <1>3, PTL DEF Spec
=============================================================================
