------------------------------ MODULE KeyLocks ------------------------------
(***************************************************************************)
(* The key locks of one database: the sharded reader/writer mutexes of     *)
(* datastruct/dict (ConcurrentDict.RWLocks, RWUnLocks) and, with only      *)
(* write keys, of datastruct/lock (Locks, UnLocks).  A goroutine maps its  *)
(* keys to shard indices, drops duplicates, and locks the shards one by    *)
(* one in ascending order, in write mode when any write key falls in the   *)
(* shard and in read mode otherwise; it unlocks in descending order.       *)
(*                                                                         *)
(* Each shard is a Go sync.RWMutex: a goroutine that calls Lock first      *)
(* excludes other writers and new readers, then waits for the readers that *)
(* are inside to leave; Unlock lets in every reader that queued up behind  *)
(* the writer before another writer may start.                             *)
(***************************************************************************)
EXTENDS Naturals

CONSTANTS Client,    \* the goroutines that execute commands
          Key,       \* the keys of one database
          N,         \* the number of shards (len(dict.table))
          Spread,    \* the shard of a key: (N - 1) & fnv32(key)
          Requests,  \* the pairs <<writeKeys, readKeys>> the commands ask for
          NoClient   \* the owner of an unlocked mutex

Shard == 0 .. N - 1

ASSUME NAssumption == N \in Nat \ {0}
ASSUME SpreadAssumption == Spread \in [Key -> Shard]
ASSUME NoClientAssumption == NoClient \notin Client
ASSUME RequestsAssumption == Requests \subseteq (SUBSET Key) \X (SUBSET Key)

VARIABLES pc,       \* idle, locking (inside RWLocks), locked, unlocking
          asked,    \* <<writeKeys, readKeys>> of the goroutine's command
          todo,     \* the shards it still has to lock (or to unlock)
          writer,   \* per shard: the goroutine that called Lock, or NoClient
          readers,  \* per shard: the goroutines inside RLock
          parked    \* per shard: the goroutines RLock made wait for a writer

vars == <<pc, asked, todo, writer, readers, parked>>

\* Wrong: a key that is also read is only read-locked.
WriteIndices_ReadWins(p) == {Spread[k] : k \in p[1] \ p[2]}

WriteIndices(p) == {Spread[k] : k \in p[1]}

\* The distinct shard indices of a request; their order is the order in which
\* the actions below take them.
toLockIndices(p) == {Spread[k] : k \in p[1] \cup p[2]}

IsFirst(s, S) == s \in S /\ \A t \in S : s <= t

IsLast(s, S) == s \in S /\ \A t \in S : t <= s

Init == /\ pc = [c \in Client |-> "idle"]
        /\ asked = [c \in Client |-> <<{}, {}>>]
        /\ todo = [c \in Client |-> {}]
        /\ writer = [s \in Shard |-> NoClient]
        /\ readers = [s \in Shard |-> {}]
        /\ parked = [s \in Shard |-> {}]

-----------------------------------------------------------------------------
(* RWLocks *)

CallRWLocks(c) ==
    /\ pc[c] = "idle"
    /\ \E p \in Requests :
          /\ asked' = [asked EXCEPT ![c] = p]
          /\ todo' = [todo EXCEPT ![c] = toLockIndices(p)]
    /\ pc' = [pc EXCEPT ![c] = "locking"]
    /\ UNCHANGED <<writer, readers, parked>>

\* Wrong: locks the write shards in order, and then the read shards in order.
NextShard_WritesFirst(c, s) ==
    LET w == todo[c] \cap WriteIndices(asked[c])
    IN  IF w # {} THEN IsFirst(s, w) ELSE IsFirst(s, todo[c])

\* The shard whose mutex the loop of RWLocks is at.
NextShard(c, s) == IsFirst(s, todo[c])

\* RWMutex.Lock, first half: no other writer, and readers are kept out.
LockStart(c) ==
    /\ pc[c] = "locking"
    /\ \E s \in WriteIndices(asked[c]) :
          /\ NextShard(c, s)
          /\ writer[s] = NoClient
          /\ writer' = [writer EXCEPT ![s] = c]
    /\ UNCHANGED <<pc, asked, todo, readers, parked>>

\* Wrong: the writer does not wait for the readers inside.
LockDone_NoWait(c) ==
    /\ pc[c] = "locking"
    /\ \E s \in WriteIndices(asked[c]) :
          /\ NextShard(c, s)
          /\ writer[s] = c
          /\ todo' = [todo EXCEPT ![c] = @ \ {s}]
    /\ UNCHANGED <<pc, asked, writer, readers, parked>>

\* RWMutex.Lock, second half: the readers inside have left.
LockDone(c) ==
    /\ pc[c] = "locking"
    /\ \E s \in WriteIndices(asked[c]) :
          /\ NextShard(c, s)
          /\ writer[s] = c
          /\ readers[s] = {}
          /\ todo' = [todo EXCEPT ![c] = @ \ {s}]
    /\ UNCHANGED <<pc, asked, writer, readers, parked>>

\* Wrong: a reader enters although a writer is inside or waits.
RLock_NoWait(c) ==
    /\ pc[c] = "locking"
    /\ \E s \in todo[c] \ WriteIndices(asked[c]) :
          /\ NextShard(c, s)
          /\ readers' = [readers EXCEPT ![s] = @ \cup {c}]
          /\ todo' = [todo EXCEPT ![c] = @ \ {s}]
    /\ UNCHANGED <<pc, asked, writer, parked>>

\* RWMutex.RLock: enter when there is no writer, else wait for its Unlock.
RLock(c) ==
    /\ pc[c] = "locking"
    /\ \E s \in todo[c] \ WriteIndices(asked[c]) :
          /\ NextShard(c, s)
          /\ \/ /\ writer[s] = NoClient
                /\ readers' = [readers EXCEPT ![s] = @ \cup {c}]
                /\ todo' = [todo EXCEPT ![c] = @ \ {s}]
                /\ UNCHANGED parked
             \/ /\ writer[s] # NoClient
                /\ c \notin parked[s]
                /\ parked' = [parked EXCEPT ![s] = @ \cup {c}]
                /\ UNCHANGED <<readers, todo>>
    /\ UNCHANGED <<pc, asked, writer>>

ReturnRWLocks(c) ==
    /\ pc[c] = "locking"
    /\ todo[c] = {}
    /\ pc' = [pc EXCEPT ![c] = "locked"]
    /\ UNCHANGED <<asked, todo, writer, readers, parked>>

-----------------------------------------------------------------------------
(* RWUnLocks *)

CallRWUnLocks(c) ==
    /\ pc[c] = "locked"
    /\ pc' = [pc EXCEPT ![c] = "unlocking"]
    /\ todo' = [todo EXCEPT ![c] = toLockIndices(asked[c])]
    /\ UNCHANGED <<asked, writer, readers, parked>>

\* Wrong: the readers that wait behind the writer are not woken.
Unlock_NoWake(c) ==
    /\ pc[c] = "unlocking"
    /\ \E s \in WriteIndices(asked[c]) :
          /\ IsLast(s, todo[c])
          /\ writer' = [writer EXCEPT ![s] = NoClient]
          /\ todo' = [todo EXCEPT ![c] = @ \ {s}]
    /\ UNCHANGED <<pc, asked, readers, parked>>

\* RWMutex.Unlock: the readers that wait behind this writer are all let in.
Unlock(c) ==
    /\ pc[c] = "unlocking"
    /\ \E s \in WriteIndices(asked[c]) :
          /\ IsLast(s, todo[c])
          /\ writer' = [writer EXCEPT ![s] = NoClient]
          /\ readers' = [readers EXCEPT ![s] = parked[s]]
          /\ parked' = [parked EXCEPT ![s] = {}]
          /\ todo' = [d \in Client |->
                        IF d = c \/ d \in parked[s] THEN todo[d] \ {s} ELSE todo[d]]
    /\ UNCHANGED <<pc, asked>>

RUnlock(c) ==
    /\ pc[c] = "unlocking"
    /\ \E s \in todo[c] \ WriteIndices(asked[c]) :
          /\ IsLast(s, todo[c])
          /\ readers' = [readers EXCEPT ![s] = @ \ {c}]
          /\ todo' = [todo EXCEPT ![c] = @ \ {s}]
    /\ UNCHANGED <<pc, asked, writer, parked>>

ReturnRWUnLocks(c) ==
    /\ pc[c] = "unlocking"
    /\ todo[c] = {}
    /\ pc' = [pc EXCEPT ![c] = "idle"]
    /\ UNCHANGED <<asked, todo, writer, readers, parked>>

-----------------------------------------------------------------------------

Step(c) == \/ LockStart(c) \/ LockDone(c) \/ RLock(c) \/ ReturnRWLocks(c)
           \/ CallRWUnLocks(c) \/ Unlock(c) \/ RUnlock(c) \/ ReturnRWUnLocks(c)

Next == \E c \in Client : CallRWLocks(c) \/ Step(c)

Spec == Init /\ [][Next]_vars

\* A goroutine that can move moves: commands between RWLocks and RWUnLocks
\* terminate and the Go scheduler is preemptive.  Writers that compete for one
\* RWMutex are served in the end, because its inner Mutex turns to FIFO order
\* for a waiter it has starved for a millisecond (strong fairness of LockStart).
FairSpec == /\ Spec
            /\ \A c \in Client : WF_vars(Step(c)) /\ SF_vars(LockStart(c))

-----------------------------------------------------------------------------
(* Properties *)

TypeOK == /\ pc \in [Client -> {"idle", "locking", "locked", "unlocking"}]
          /\ asked \in [Client -> (SUBSET Key) \X (SUBSET Key)]
          /\ todo \in [Client -> SUBSET Shard]
          /\ writer \in [Shard -> Client \cup {NoClient}]
          /\ readers \in [Shard -> SUBSET Client]
          /\ parked \in [Shard -> SUBSET Client]

\* The shard mutexes a goroutine has locked and not yet unlocked.
Held(c) == CASE pc[c] = "locking"   -> toLockIndices(asked[c]) \ todo[c]
             [] pc[c] = "locked"    -> toLockIndices(asked[c])
             [] pc[c] = "unlocking" -> todo[c]
             [] OTHER               -> {}

\* The ownership discipline behind mutual exclusion, per goroutine and shard: a
\* shard held for writing has this one writer and no readers, a shard held for
\* reading counts the goroutine among its readers, and nobody else is recorded.
Ownership ==
    /\ \A c \in Client, s \in Shard :
          s \in Held(c) => IF s \in WriteIndices(asked[c])
                             THEN writer[s] = c /\ readers[s] = {}
                             ELSE c \in readers[s]
    /\ \A c \in Client, s \in Shard :
          c \in readers[s] => s \in Held(c) \ WriteIndices(asked[c])
    /\ \A c \in Client, s \in Shard :
          writer[s] = c => /\ s \in WriteIndices(asked[c])
                           /\ s \in Held(c) \/ (pc[c] = "locking" /\ IsFirst(s, todo[c]))

\* RLock makes a goroutine wait only for a writer, and only at the shard its
\* loop has reached.
ParkedBehindWriter ==
    \A c \in Client, s \in Shard :
       c \in parked[s] => /\ pc[c] = "locking"
                          /\ IsFirst(s, todo[c])
                          /\ s \notin WriteIndices(asked[c])
                          /\ writer[s] # NoClient

\* The loops of RWLocks and RWUnLocks stay inside the shards of the request, and
\* RWLocks only asks for shards above all those it holds.
Ascending ==
    \A c \in Client :
       /\ pc[c] \in {"locking", "unlocking"} => todo[c] \subseteq toLockIndices(asked[c])
       /\ pc[c] = "locking" => \A s \in Held(c), t \in todo[c] : s < t

\* The inductive invariant.
LockInv == TypeOK /\ Ownership /\ ParkedBehindWriter /\ Ascending

\* Two goroutines that are both past RWLocks never conflict: no key one of
\* them writes is written or read by the other.
MutualExclusion ==
    \A c, d \in Client :
       (c # d /\ pc[c] = "locked" /\ pc[d] = "locked")
          => asked[c][1] \cap (asked[d][1] \cup asked[d][2]) = {}

\* The goroutine is inside a Lock or RLock call that cannot return.
Waiting(c) ==
    /\ pc[c] = "locking"
    /\ \E s \in todo[c] :
          /\ NextShard(c, s)
          /\ IF s \in WriteIndices(asked[c])
                THEN (writer[s] = c /\ readers[s] # {})
                     \/ (writer[s] # c /\ writer[s] # NoClient)
                ELSE c \in parked[s]

\* toLockIndices sorts and drops duplicates, so goroutines never wait for one
\* another in a circle: while a command is in RWLocks or RWUnLocks, some
\* goroutine is not stuck in a mutex.
NoDeadlock ==
    (\E c \in Client : pc[c] # "idle")
       => \E c \in Client : pc[c] # "idle" /\ ~Waiting(c)

\* Every call of RWLocks returns, whatever the other goroutines ask for.
EveryRequestGranted ==
    \A c \in Client : (pc[c] = "locking") ~> (pc[c] = "locked")

\* RWLocks and RWUnLocks implement the atomic grant of LockSpec.
Abstract == INSTANCE LockSpec
               WITH phase <- [c \in Client |->
                                CASE pc[c] = "locking" -> "asking"
                                  [] pc[c] = "locked"  -> "granted"
                                  [] OTHER             -> "idle"]

ImplementsLockSpec == Abstract!Spec
=============================================================================
