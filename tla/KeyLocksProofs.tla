--------------------------- MODULE KeyLocksProofs ---------------------------
(***************************************************************************)
(* For every set of goroutines, every number of shards and every placement *)
(* of the keys: type correctness, mutual exclusion and freedom from        *)
(* deadlock of the key locks, and that they implement the atomic grant of  *)
(* LockSpec.                                                               *)
(***************************************************************************)
EXTENDS KeyLocks, TLAPS, WellFoundedInduction

LEMMA IndicesType ==
    ASSUME NEW p \in (SUBSET Key) \X (SUBSET Key)
    PROVE  /\ WriteIndices(p) \subseteq toLockIndices(p)
           /\ toLockIndices(p) \subseteq Shard
  BY SpreadAssumption DEF WriteIndices, toLockIndices

\* The type invariant of KeyLocks: every goroutine only ever waits for, holds
\* and releases shards of the table.
THEOREM TypeCorrect == Spec => []TypeOK
<1>1. Init => TypeOK
  BY DEF Init, TypeOK
<1>2. TypeOK /\ [Next]_vars => TypeOK'
  <2> SUFFICES ASSUME TypeOK, [Next]_vars PROVE TypeOK'
    OBVIOUS
  <2> USE DEF TypeOK
  <2>1. ASSUME NEW c \in Client, CallRWLocks(c) PROVE TypeOK'
    <3>1. PICK p \in Requests : /\ asked' = [asked EXCEPT ![c] = p]
                                /\ todo' = [todo EXCEPT ![c] = toLockIndices(p)]
      BY <2>1 DEF CallRWLocks
    <3>2. p \in (SUBSET Key) \X (SUBSET Key)
      BY RequestsAssumption
    <3>3. toLockIndices(p) \subseteq Shard
      BY <3>2, IndicesType
    <3> QED
      BY <2>1, <3>1, <3>2, <3>3 DEF CallRWLocks
  <2>2. ASSUME NEW c \in Client, LockStart(c) PROVE TypeOK'
    BY <2>2, ZenonT(30) DEF LockStart
  <2>3. ASSUME NEW c \in Client, LockDone(c) PROVE TypeOK'
    BY <2>3 DEF LockDone
  <2>4. ASSUME NEW c \in Client, RLock(c) PROVE TypeOK'
    BY <2>4, SMTT(30) DEF RLock
  <2>5. ASSUME NEW c \in Client, ReturnRWLocks(c) PROVE TypeOK'
    BY <2>5 DEF ReturnRWLocks
  <2>6. ASSUME NEW c \in Client, CallRWUnLocks(c) PROVE TypeOK'
    BY <2>6, IndicesType DEF CallRWUnLocks
  <2>7. ASSUME NEW c \in Client, Unlock(c) PROVE TypeOK'
    BY <2>7 DEF Unlock, IsLast
  <2>8. ASSUME NEW c \in Client, RUnlock(c) PROVE TypeOK'
    BY <2>8 DEF RUnlock
  <2>9. ASSUME NEW c \in Client, ReturnRWUnLocks(c) PROVE TypeOK'
    BY <2>9 DEF ReturnRWUnLocks
  <2>10. CASE UNCHANGED vars
    BY <2>10 DEF vars
  <2> QED
    BY <2>1, <2>2, <2>3, <2>4, <2>5, <2>6, <2>7, <2>8, <2>9, <2>10 DEF Next, Step
<1> QED
  BY <1>1, <1>2, PTL DEF Spec

(***************************************************************************)
(* The inductive step, one lemma per action.                               *)
(***************************************************************************)
LEMMA CallRWLocksInv ==
    ASSUME NEW c \in Client, LockInv, TypeOK', CallRWLocks(c) PROVE LockInv'
<1> USE DEF LockInv, TypeOK
<1>1. PICK p \in Requests : /\ asked' = [asked EXCEPT ![c] = p]
                            /\ todo' = [todo EXCEPT ![c] = toLockIndices(p)]
  BY DEF CallRWLocks
<1>2. \A s \in Shard : writer[s] # c /\ c \notin readers[s] /\ c \notin parked[s]
  BY DEF CallRWLocks, Ownership, ParkedBehindWriter, Held
<1>3. Ownership'
  BY <1>1, <1>2 DEF CallRWLocks, Ownership, Held
<1>4. ParkedBehindWriter'
  BY <1>1, <1>2 DEF CallRWLocks, ParkedBehindWriter
<1>5. Ascending'
  BY <1>1 DEF CallRWLocks, Ascending, Held
<1> QED
  BY <1>3, <1>4, <1>5

LEMMA LockStartInv ==
    ASSUME NEW c \in Client, LockInv, TypeOK', LockStart(c) PROVE LockInv'
<1> USE DEF LockInv, TypeOK
<1>1. PICK s \in Shard : /\ s \in WriteIndices(asked[c])
                         /\ IsFirst(s, todo[c])
                         /\ writer[s] = NoClient
                         /\ writer' = [writer EXCEPT ![s] = c]
  BY DEF LockStart, NextShard, IsFirst
<1>2. \A d \in Client : ~(writer[s] = d)
  BY <1>1, NoClientAssumption
<1>3. Ownership'
  BY <1>1, <1>2 DEF LockStart, Ownership, Held
<1>4. ParkedBehindWriter'
  BY <1>1, NoClientAssumption DEF LockStart, ParkedBehindWriter
<1>5. Ascending'
  BY DEF LockStart, Ascending, Held
<1> QED
  BY <1>3, <1>4, <1>5

\* A goroutine that passes the shard its loop is at holds this shard as well.
LEMMA HeldAfterPass ==
    ASSUME LockInv, TypeOK', NEW d \in Client, NEW s \in Shard, pc' = pc, asked' = asked,
           pc[d] = "locking", IsFirst(s, todo[d]), todo'[d] = todo[d] \ {s}
    PROVE  /\ Held(d)' = Held(d) \cup {s}
           /\ \A h \in Held(d)', t \in todo'[d] : h < t
<1> USE DEF LockInv, TypeOK
<1>1. s \in toLockIndices(asked[d])
  BY DEF Ascending, IsFirst
<1>2. Held(d)' = Held(d) \cup {s}
  BY <1>1 DEF Held
<1>3. \A t \in todo'[d] : s < t
  BY DEF IsFirst, Shard
<1> QED
  BY <1>2, <1>3 DEF Ascending

\* What a goroutine holds depends only on its own program counter, request and
\* remaining shards.
LEMMA HeldUnchanged ==
    ASSUME NEW d \in Client, pc'[d] = pc[d], asked'[d] = asked[d], todo'[d] = todo[d]
    PROVE  Held(d)' = Held(d)
  BY DEF Held

LEMMA LockDoneInv ==
    ASSUME NEW c \in Client, LockInv, TypeOK', LockDone(c) PROVE LockInv'
<1> USE DEF LockInv, TypeOK
<1>1. PICK s \in Shard : /\ s \in WriteIndices(asked[c])
                         /\ IsFirst(s, todo[c])
                         /\ writer[s] = c
                         /\ readers[s] = {}
                         /\ todo' = [todo EXCEPT ![c] = @ \ {s}]
  BY DEF LockDone, NextShard, IsFirst
<1>2. UNCHANGED <<pc, asked, writer, readers, parked>> /\ pc[c] = "locking"
  BY DEF LockDone
<1>3. /\ Held(c)' = Held(c) \cup {s}
      /\ \A h \in Held(c)', t \in todo'[c] : h < t
  BY <1>1, <1>2, HeldAfterPass
<1>4. \A d \in Client \ {c} : Held(d)' = Held(d) /\ todo'[d] = todo[d]
  BY <1>1, <1>2, HeldUnchanged
<1>5. Ownership'
  <2>1. ASSUME NEW d \in Client, NEW t \in Shard, t \in Held(d)'
        PROVE  IF t \in WriteIndices(asked[d]) THEN writer[t] = d /\ readers[t] = {}
                                                ELSE d \in readers[t]
    BY <1>1, <1>3, <1>4, <2>1 DEF Ownership
  <2>2. ASSUME NEW d \in Client, NEW t \in Shard, d \in readers[t]
        PROVE  t \in Held(d)' \ WriteIndices(asked[d])
    BY <1>3, <1>4, <2>2 DEF Ownership
  <2>3. ASSUME NEW d \in Client, NEW t \in Shard, writer[t] = d
        PROVE  /\ t \in WriteIndices(asked[d])
               /\ t \in Held(d)' \/ (pc[d] = "locking" /\ IsFirst(t, todo'[d]))
    BY <1>1, <1>3, <1>4, <2>3 DEF Ownership, IsFirst
  <2> QED
    BY <1>2, <2>1, <2>2, <2>3 DEF Ownership
<1>6. ParkedBehindWriter'
  BY <1>1, <1>2 DEF ParkedBehindWriter, IsFirst
<1>7. Ascending'
  <2>1. \A d \in Client : todo'[d] \subseteq todo[d]
    BY <1>1
  <2>2. ASSUME NEW d \in Client, pc[d] = "locking"
        PROVE  \A h \in Held(d)', t \in todo'[d] : h < t
    BY <1>3, <1>4, <2>2 DEF Ascending
  <2> QED
    BY <1>2, <2>1, <2>2 DEF Ascending
<1> QED
  BY <1>5, <1>6, <1>7

LEMMA RLockInv ==
    ASSUME NEW c \in Client, LockInv, TypeOK', RLock(c) PROVE LockInv'
<1> USE DEF LockInv, TypeOK
<1>1. UNCHANGED <<pc, asked, writer>> /\ pc[c] = "locking"
  BY DEF RLock
<1>2. PICK s \in Shard :
         /\ s \notin WriteIndices(asked[c])
         /\ IsFirst(s, todo[c])
         /\ \/ /\ writer[s] = NoClient
               /\ readers' = [readers EXCEPT ![s] = @ \cup {c}]
               /\ todo' = [todo EXCEPT ![c] = @ \ {s}]
               /\ parked' = parked
            \/ /\ writer[s] # NoClient
               /\ parked' = [parked EXCEPT ![s] = @ \cup {c}]
               /\ UNCHANGED <<readers, todo>>
  BY DEF RLock, NextShard, IsFirst
<1>a. CASE /\ writer[s] = NoClient
           /\ readers' = [readers EXCEPT ![s] = @ \cup {c}]
           /\ todo' = [todo EXCEPT ![c] = @ \ {s}]
           /\ parked' = parked
  <2>3. /\ Held(c)' = Held(c) \cup {s}
        /\ \A h \in Held(c)', t \in todo'[c] : h < t
    BY <1>1, <1>2, <1>a, HeldAfterPass
  <2>4. \A d \in Client \ {c} : Held(d)' = Held(d) /\ todo'[d] = todo[d]
    BY <1>1, <1>a, HeldUnchanged
  <2>5. Ownership'
    <3>1. ASSUME NEW d \in Client, NEW t \in Shard, t \in Held(d)'
          PROVE  IF t \in WriteIndices(asked[d]) THEN writer[t] = d /\ readers'[t] = {}
                                                  ELSE d \in readers'[t]
      <4>1. writer[s] # d
        BY <1>a, NoClientAssumption
      <4> QED
        BY <1>2, <1>a, <2>3, <2>4, <3>1, <4>1 DEF Ownership
    <3>2. ASSUME NEW d \in Client, NEW t \in Shard, d \in readers'[t]
          PROVE  t \in Held(d)' \ WriteIndices(asked[d])
      BY <1>2, <1>a, <2>3, <2>4, <3>2 DEF Ownership
    <3>3. ASSUME NEW d \in Client, NEW t \in Shard, writer[t] = d
          PROVE  /\ t \in WriteIndices(asked[d])
                 /\ t \in Held(d)' \/ (pc[d] = "locking" /\ IsFirst(t, todo'[d]))
      BY <1>2, <1>a, <2>3, <2>4, <3>3 DEF Ownership, IsFirst
    <3> QED
      BY <1>1, <3>1, <3>2, <3>3 DEF Ownership
  <2>6. ParkedBehindWriter'
    BY <1>1, <1>2, <1>a DEF ParkedBehindWriter, IsFirst
  <2>7. Ascending'
    <3>1. \A d \in Client : todo'[d] \subseteq todo[d]
      BY <1>a
    <3>2. ASSUME NEW d \in Client, pc[d] = "locking"
          PROVE  \A h \in Held(d)', t \in todo'[d] : h < t
      BY <2>3, <2>4, <3>2 DEF Ascending
    <3> QED
      BY <1>1, <3>1, <3>2 DEF Ascending
  <2> QED
    BY <2>5, <2>6, <2>7
<1>b. CASE /\ writer[s] # NoClient
           /\ parked' = [parked EXCEPT ![s] = @ \cup {c}]
           /\ UNCHANGED <<readers, todo>>
  <2>1. \A d \in Client : Held(d)' = Held(d)
    BY <1>1, <1>b, HeldUnchanged
  <2>2. Ownership' /\ Ascending'
    BY <1>1, <1>b, <2>1 DEF Ownership, Ascending
  <2>3. ParkedBehindWriter'
    BY <1>1, <1>2, <1>b DEF ParkedBehindWriter
  <2> QED
    BY <2>2, <2>3
<1> QED
  BY <1>2, <1>a, <1>b

LEMMA ReturnRWLocksInv ==
    ASSUME NEW c \in Client, LockInv, TypeOK', ReturnRWLocks(c) PROVE LockInv'
<1> USE DEF LockInv, TypeOK
<1>1. \A d \in Client : Held(d)' = Held(d)
  BY ZenonT(30) DEF ReturnRWLocks, Held
<1>2. Ownership'
  BY <1>1 DEF ReturnRWLocks, Ownership, IsFirst
<1>3. ParkedBehindWriter'
  BY DEF ReturnRWLocks, ParkedBehindWriter, IsFirst
<1>4. Ascending'
  BY <1>1 DEF ReturnRWLocks, Ascending
<1> QED
  BY <1>2, <1>3, <1>4

LEMMA CallRWUnLocksInv ==
    ASSUME NEW c \in Client, LockInv, TypeOK', CallRWUnLocks(c) PROVE LockInv'
<1> USE DEF LockInv, TypeOK
<1>1. \A d \in Client : Held(d)' = Held(d)
  BY DEF CallRWUnLocks, Held
<1>2. Ownership'
  BY <1>1 DEF CallRWUnLocks, Ownership
<1>3. ParkedBehindWriter'
  BY DEF CallRWUnLocks, ParkedBehindWriter
<1>4. Ascending'
  BY <1>1 DEF CallRWUnLocks, Ascending
<1> QED
  BY <1>2, <1>3, <1>4

\* RWMutex.Unlock moves shard s from the writer c to all the readers parked on it.
LEMMA UnlockInv ==
    ASSUME NEW c \in Client, LockInv, TypeOK', Unlock(c) PROVE LockInv'
<1> USE DEF LockInv, TypeOK
<1>1. UNCHANGED <<pc, asked>> /\ pc[c] = "unlocking"
  BY DEF Unlock
<1>2. PICK s \in Shard :
         /\ s \in WriteIndices(asked[c])
         /\ s \in todo[c]
         /\ writer' = [writer EXCEPT ![s] = NoClient]
         /\ readers' = [readers EXCEPT ![s] = parked[s]]
         /\ parked' = [parked EXCEPT ![s] = {}]
         /\ todo' = [d \in Client |->
                       IF d = c \/ d \in parked[s] THEN todo[d] \ {s} ELSE todo[d]]
  BY ZenonT(30) DEF Unlock, IsLast
<1>3. writer[s] = c /\ readers[s] = {} /\ s \in Held(c)
  BY <1>1, <1>2 DEF Ownership, Held
<1>4. c \notin parked[s]
  BY <1>1 DEF ParkedBehindWriter
<1>5. Held(c)' = Held(c) \ {s} /\ todo'[c] = todo[c] \ {s}
  BY <1>1, <1>2 DEF Held
<1>6. ASSUME NEW d \in parked[s]
      PROVE  /\ d \in Client /\ s \notin WriteIndices(asked[d])
             /\ todo'[d] = todo[d] \ {s}
             /\ Held(d)' = Held(d) \cup {s}
             /\ \A h \in Held(d)', t \in todo'[d] : h < t
  <2>1. /\ d \in Client /\ pc[d] = "locking" /\ IsFirst(s, todo[d])
        /\ s \notin WriteIndices(asked[d])
        /\ todo'[d] = todo[d] \ {s}
    BY <1>2 DEF ParkedBehindWriter
  <2> QED
    BY <1>1, <2>1, HeldAfterPass
<1>7. ASSUME NEW d \in Client, d # c, d \notin parked[s]
      PROVE  /\ Held(d)' = Held(d) /\ todo'[d] = todo[d]
             /\ s \notin Held(d)
  <2>1. todo'[d] = todo[d]
    BY <1>2, <1>7
  <2>2. Held(d)' = Held(d)
    BY <1>1, <2>1, HeldUnchanged
  <2>3. s \notin Held(d)
    BY <1>3, <1>7 DEF Ownership
  <2> QED
    BY <2>1, <2>2, <2>3
<1>8. \A d \in Client \ {c} : s \notin Held(d)
  BY <1>3 DEF Ownership
<1>9. Ownership'
  <2>1. ASSUME NEW d \in Client, NEW t \in Shard, t \in Held(d)'
        PROVE  IF t \in WriteIndices(asked[d]) THEN writer'[t] = d /\ readers'[t] = {}
                                                ELSE d \in readers'[t]
    <3>1. CASE t = s
      <4>1. d \in parked[s]
        BY <1>5, <1>7, <2>1, <3>1
      <4> QED
        BY <1>2, <1>6, <3>1, <4>1
    <3>2. CASE t # s
      <4>1. t \in Held(d)
        BY <1>5, <1>6, <1>7, <2>1, <3>2
      <4>2. writer'[t] = writer[t] /\ readers'[t] = readers[t]
        BY <1>2, <3>2
      <4> QED
        BY <4>1, <4>2 DEF Ownership
    <3> QED
      BY <3>1, <3>2
  <2>2. ASSUME NEW d \in Client, NEW t \in Shard, d \in readers'[t]
        PROVE  t \in Held(d)' \ WriteIndices(asked[d])
    <3>1. CASE t = s
      BY <1>2, <1>6, <2>2, <3>1
    <3>2. CASE t # s
      <4>1. t \in Held(d) \ WriteIndices(asked[d])
        BY <1>2, <2>2, <3>2 DEF Ownership
      <4> QED
        BY <1>5, <1>6, <1>7, <3>2, <4>1
    <3> QED
      BY <3>1, <3>2
  <2>3. ASSUME NEW d \in Client, NEW t \in Shard, writer'[t] = d
        PROVE  /\ t \in WriteIndices(asked[d])
               /\ t \in Held(d)' \/ (pc[d] = "locking" /\ IsFirst(t, todo'[d]))
    <3>1. t # s /\ writer[t] = d
      BY <1>2, <2>3, NoClientAssumption
    <3>2. /\ t \in WriteIndices(asked[d])
          /\ t \in Held(d) \/ (pc[d] = "locking" /\ IsFirst(t, todo[d]))
      BY <3>1 DEF Ownership
    <3>3. CASE t \in Held(d)
      BY <1>5, <1>6, <1>7, <3>1, <3>2, <3>3
    <3>4. CASE pc[d] = "locking" /\ IsFirst(t, todo[d])
      BY <1>2, <3>1, <3>2, <3>4 DEF IsFirst
    <3> QED
      BY <3>2, <3>3, <3>4
  <2> QED
    BY <1>1, <2>1, <2>2, <2>3 DEF Ownership
<1>10. ParkedBehindWriter'
  <2> SUFFICES ASSUME NEW d \in Client, NEW t \in Shard, d \in parked'[t]
               PROVE  /\ pc[d] = "locking" /\ IsFirst(t, todo'[d])
                      /\ t \notin WriteIndices(asked[d])
                      /\ writer'[t] # NoClient
    BY <1>1 DEF ParkedBehindWriter
  <2>1. t # s /\ d \in parked[t]
    BY <1>2
  <2>2. writer'[t] = writer[t]
    BY <1>2, <2>1
  <2> QED
    BY <1>2, <2>1, <2>2 DEF ParkedBehindWriter, IsFirst
<1>11. Ascending'
  <2>1. \A d \in Client : todo'[d] \subseteq todo[d]
    BY <1>2
  <2>2. ASSUME NEW d \in Client, pc[d] = "locking"
        PROVE  \A h \in Held(d)', t \in todo'[d] : h < t
    BY <1>1, <1>6, <1>7, <2>2 DEF Ascending
  <2> QED
    BY <1>1, <2>1, <2>2 DEF Ascending
<1> QED
  BY <1>9, <1>10, <1>11

LEMMA RUnlockInv ==
    ASSUME NEW c \in Client, LockInv, TypeOK', RUnlock(c) PROVE LockInv'
<1> USE DEF LockInv, TypeOK
<1>1. UNCHANGED <<pc, asked, writer, parked>> /\ pc[c] = "unlocking"
  BY DEF RUnlock
<1>2. PICK s \in Shard : /\ s \in todo[c] \ WriteIndices(asked[c])
                         /\ readers' = [readers EXCEPT ![s] = @ \ {c}]
                         /\ todo' = [todo EXCEPT ![c] = @ \ {s}]
  BY DEF RUnlock
<1>3. Held(c)' = Held(c) \ {s}
  BY <1>1, <1>2 DEF Held
<1>4. \A d \in Client \ {c} : Held(d)' = Held(d) /\ todo'[d] = todo[d]
  BY <1>1, <1>2, HeldUnchanged
<1>5. Ownership'
  <2>1. ASSUME NEW d \in Client, NEW t \in Shard, t \in Held(d)'
        PROVE  IF t \in WriteIndices(asked[d]) THEN writer[t] = d /\ readers'[t] = {}
                                                ELSE d \in readers'[t]
    BY <1>2, <1>3, <1>4, <2>1 DEF Ownership
  <2>2. ASSUME NEW d \in Client, NEW t \in Shard, d \in readers'[t]
        PROVE  t \in Held(d)' \ WriteIndices(asked[d])
    BY <1>2, <1>3, <1>4, <2>2 DEF Ownership
  <2>3. ASSUME NEW d \in Client, NEW t \in Shard, writer[t] = d
        PROVE  /\ t \in WriteIndices(asked[d])
               /\ t \in Held(d)' \/ (pc[d] = "locking" /\ IsFirst(t, todo'[d]))
    BY <1>1, <1>2, <1>3, <1>4, <2>3 DEF Ownership
  <2> QED
    BY <1>1, <2>1, <2>2, <2>3 DEF Ownership
<1>6. ParkedBehindWriter'
  BY <1>1, <1>2 DEF ParkedBehindWriter
<1>7. Ascending'
  BY <1>1, <1>2, <1>4 DEF Ascending
<1> QED
  BY <1>5, <1>6, <1>7

LEMMA ReturnRWUnLocksInv ==
    ASSUME NEW c \in Client, LockInv, TypeOK', ReturnRWUnLocks(c) PROVE LockInv'
<1> USE DEF LockInv, TypeOK
<1>1. \A d \in Client : Held(d)' = Held(d)
  BY DEF ReturnRWUnLocks, Held
<1>2. Ownership'
  BY <1>1 DEF ReturnRWUnLocks, Ownership
<1>3. ParkedBehindWriter'
  BY DEF ReturnRWUnLocks, ParkedBehindWriter
<1>4. Ascending'
  BY <1>1 DEF ReturnRWUnLocks, Ascending
<1> QED
  BY <1>2, <1>3, <1>4

\* Ownership, parking and lock order hold in every reachable state.
THEOREM LockInvariant == Spec => []LockInv
<1>1. Init => LockInv
  <2> SUFFICES ASSUME Init PROVE LockInv
    OBVIOUS
  <2>1. TypeOK
    BY DEF Init, TypeOK
  <2>2. Ownership /\ ParkedBehindWriter /\ Ascending
    BY NoClientAssumption DEF Init, Ownership, ParkedBehindWriter, Ascending, Held
  <2> QED
    BY <2>1, <2>2 DEF LockInv
<1>2. LockInv /\ TypeOK' /\ [Next]_vars => LockInv'
  <2> SUFFICES ASSUME LockInv, TypeOK', [Next]_vars PROVE LockInv'
    OBVIOUS
  <2>1. CASE UNCHANGED vars
    BY <2>1 DEF vars, LockInv, TypeOK, Ownership, ParkedBehindWriter, Ascending, Held
  <2>2. CASE Next
    <3>1. PICK c \in Client : CallRWLocks(c) \/ Step(c)
      BY <2>2 DEF Next
    <3> QED
      BY <3>1, CallRWLocksInv, LockStartInv, LockDoneInv, RLockInv, ReturnRWLocksInv,
         CallRWUnLocksInv, UnlockInv, RUnlockInv, ReturnRWUnLocksInv DEF Step
  <2> QED
    BY <2>1, <2>2
<1> QED
  BY <1>1, <1>2, TypeCorrect, PTL DEF Spec

(***************************************************************************)
(* What the invariant gives the callers of RWLocks.                        *)
(***************************************************************************)
LEMMA LockInvExcludes == LockInv => MutualExclusion
<1> SUFFICES ASSUME LockInv, NEW c \in Client, NEW d \in Client, c # d,
                    pc[c] = "locked", pc[d] = "locked",
                    NEW k \in asked[c][1], k \in asked[d][1] \cup asked[d][2]
             PROVE  FALSE
  BY DEF MutualExclusion
<1> USE DEF LockInv, TypeOK
<1>1. k \in Key
  OBVIOUS
<1>2. Spread[k] \in Shard
  BY <1>1, SpreadAssumption
<1>3. Spread[k] \in WriteIndices(asked[c]) /\ Spread[k] \in Held(c)
  BY DEF WriteIndices, toLockIndices, Held
<1>4. writer[Spread[k]] = c /\ readers[Spread[k]] = {}
  BY <1>2, <1>3 DEF Ownership
<1>5. Spread[k] \in Held(d)
  BY DEF toLockIndices, Held
<1> QED
  BY <1>2, <1>4, <1>5 DEF Ownership

\* Conflicting commands are never both past RWLocks (the isolation every command
\* and every EXEC relies on).
THEOREM MutualExclusionHolds == Spec => []MutualExclusion
  BY LockInvariant, LockInvExcludes, PTL

\* Every non-empty set of shards has a greatest element.
LEMMA GreatestShard ==
    ASSUME NEW S \in SUBSET Shard, S # {}
    PROVE  \E m \in S : \A t \in S : t <= m
<1> DEFINE T == {N - t : t \in S}
<1>1. \A t \in S : t \in Nat /\ t < N /\ N \in Nat
  BY NAssumption DEF Shard
<1>2. T \subseteq Nat /\ T # {}
  BY <1>1
<1>3. PICK x \in T : \A y \in T : ~(<<y, x>> \in OpToRel(<, Nat))
  <2> HIDE DEF T
  <2> QED
    BY <1>2, NatLessThanWellFounded, WFMin
<1>4. PICK m \in S : x = N - m
  OBVIOUS
<1>5. ASSUME NEW t \in S PROVE t <= m
  <2>1. ~(N - t < N - m)
    BY <1>1, <1>2, <1>3, <1>4 DEF OpToRel
  <2> QED
    BY <1>1, <2>1
<1> QED
  BY <1>5

\* Were every goroutine stuck in a mutex, the one stuck at the greatest shard
\* would wait for a goroutine that is stuck at a still greater one.
LEMMA LockInvProgress == LockInv => NoDeadlock
<1> SUFFICES ASSUME LockInv, NEW b \in Client, pc[b] # "idle",
                    \A c \in Client : pc[c] # "idle" => Waiting(c)
             PROVE  FALSE
  BY DEF NoDeadlock
<1> USE DEF LockInv, TypeOK
<1> DEFINE At == {s \in Shard : \E c \in Client : Waiting(c) /\ IsFirst(s, todo[c])}
<1>1. ASSUME NEW c \in Client, pc[c] # "idle"
      PROVE  /\ pc[c] = "locking"
             /\ \E s \in At : IsFirst(s, todo[c])
  <2>1. Waiting(c)
    BY <1>1
  <2> QED
    BY <2>1 DEF Waiting, NextShard
<1>2. At \in SUBSET Shard /\ At # {}
  BY <1>1
<1>3. PICK m \in At : \A t \in At : t <= m
  <2> HIDE DEF At
  <2> QED
    BY <1>2, GreatestShard
<1>4. m \in Nat /\ \A s \in Shard : s \in Nat
  BY <1>2 DEF Shard
\* Nobody holds the greatest shard at which a goroutine is stuck.
<1>5. ASSUME NEW d \in Client, m \in Held(d) PROVE FALSE
  <2>1. pc[d] # "idle"
    BY <1>5 DEF Held
  <2>2. PICK t \in At : pc[d] = "locking" /\ IsFirst(t, todo[d])
    BY <1>1, <2>1
  <2>3. m < t
    BY <1>5, <2>2 DEF Ascending, IsFirst
  <2> QED
    BY <1>2, <1>3, <1>4, <2>3
<1>6. readers[m] = {}
  BY <1>2, <1>5 DEF Ownership
<1>7. PICK c \in Client : Waiting(c) /\ IsFirst(m, todo[c])
  OBVIOUS
<1>8. \A s \in todo[c] : NextShard(c, s) => s = m
  BY <1>4, <1>7 DEF NextShard, IsFirst
<1>9. writer[m] # c => writer[m] \in Client
  BY <1>2, <1>7, <1>8, SMTT(30) DEF Waiting, ParkedBehindWriter
<1>10. PICK d \in Client : writer[m] = d /\ d # c
  BY <1>6, <1>7, <1>8, <1>9 DEF Waiting, ParkedBehindWriter, Ownership
<1>11. m \in WriteIndices(asked[d]) /\ pc[d] = "locking" /\ IsFirst(m, todo[d])
  BY <1>2, <1>5, <1>10 DEF Ownership
<1>12. Waiting(d)
  BY <1>11
<1>13. \A s \in todo[d] : NextShard(d, s) => s = m
  BY <1>4, <1>11 DEF NextShard, IsFirst
<1> QED
  BY <1>6, <1>10, <1>11, <1>12, <1>13 DEF Waiting

\* RWLocks never deadlocks: sorting the shard indices makes waiting acyclic.
THEOREM DeadlockFree == Spec => []NoDeadlock
  BY LockInvariant, LockInvProgress, PTL

\* Taking the shard mutexes one by one implements granting all of them at once:
\* the return of RWLocks is the grant, the call of RWUnLocks the release, and
\* every other step is invisible to the callers.
THEOREM Refinement == Spec => ImplementsLockSpec
<1>1. Init => Abstract!Init
  BY DEF Init, Abstract!Init
<1>2. LockInv /\ LockInv' /\ [Next]_vars => [Abstract!Next]_(Abstract!vars)
  <2> SUFFICES ASSUME LockInv, LockInv', [Next]_vars
               PROVE  Abstract!Next \/ UNCHANGED Abstract!vars
    OBVIOUS
  <2> USE DEF LockInv, TypeOK
  <2>1. ASSUME NEW c \in Client, CallRWLocks(c) PROVE Abstract!Ask(c)
    BY <2>1 DEF CallRWLocks, Abstract!Ask
  <2>2. ASSUME NEW c \in Client, ReturnRWLocks(c) PROVE Abstract!Grant(c)
    <3>1. \A d \in Client \ {c} : pc'[c] = "locked" /\ pc'[d] = pc[d]
      BY <2>2 DEF ReturnRWLocks
    <3>2. MutualExclusion'
      BY LockInvExcludes, PTL
    <3>3. ASSUME NEW d \in Client \ {c}, pc[d] = "locked"
          PROVE  ~Abstract!Conflict(asked[c], asked[d])
      <4>1. asked' = asked
        BY <2>2 DEF ReturnRWLocks
      <4> QED
        BY <3>1, <3>2, <3>3, <4>1 DEF MutualExclusion, Abstract!Conflict
    <3> QED
      BY <2>2, <3>3 DEF ReturnRWLocks, Abstract!Grant
  <2>3. ASSUME NEW c \in Client, CallRWUnLocks(c) PROVE Abstract!Release(c)
    BY <2>3 DEF CallRWUnLocks, Abstract!Release
  <2>4. ASSUME NEW c \in Client,
               LockStart(c) \/ LockDone(c) \/ RLock(c) \/ Unlock(c) \/ RUnlock(c)
        PROVE  UNCHANGED <<pc, asked>>
    BY <2>4 DEF LockStart, LockDone, RLock, Unlock, RUnlock
  <2>5. ASSUME NEW c \in Client, ReturnRWUnLocks(c) PROVE UNCHANGED Abstract!vars
    BY <2>5 DEF ReturnRWUnLocks, Abstract!vars
  <2>6. UNCHANGED <<pc, asked>> => UNCHANGED Abstract!vars
    BY DEF Abstract!vars
  <2> QED
    BY <2>1, <2>2, <2>3, <2>4, <2>5, <2>6 DEF Next, Step, vars, Abstract!Next
<1> QED
  BY <1>1, <1>2, LockInvariant, PTL DEF Spec, ImplementsLockSpec, Abstract!Spec
=============================================================================
