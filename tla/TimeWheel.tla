------------------------------ MODULE TimeWheel ------------------------------
(***************************************************************************)
(* The time wheel of lib/timewheel and its use for expirations: Expire,    *)
(* Persist, Remove and IsExpired of database.go hand jobs to the wheel     *)
(* under the lock of their key, and a job takes that lock when its time    *)
(* has come.  The loop of the wheel receives from unbuffered channels and  *)
(* handles what it receives before it receives again; a scan of a slot     *)
(* and each job are goroutines of their own.                               *)
(***************************************************************************)
EXTENDS Integers, Sequences, FiniteSets, SequencesExt

CONSTANTS Caller,   \* goroutines that execute commands
          Key,
          TTL,      \* the times to live of SETEX, in units of the clock
          Interval, \* the units of the clock between two ticks
          slotNum,
          MaxJobs,  \* bound on the number of jobs
          MaxScans, \* bound on the scans that are under way
          MaxClock  \* bound on the clock

NoTTL == -1
NoJob == 0
Job == 1 .. MaxJobs
Done == [key |-> 0, due |-> 0, pc |-> "done", raced |-> FALSE]

VARIABLES clock,      \* time.Now
          ticker,     \* whether the ticker's channel holds a tick
          ticks,      \* the ticks handled so far
          currentPos,
          slots,      \* the list of jobs of each slot
          circle,     \* per job, the rounds it still has to wait
          timer,      \* per key, the job it points to
          scans,      \* the scanAndRunTask goroutines
          jobs,       \* per job, its key, the tick it is due at and where it is
          present,    \* per key, whether it is in data
          ttlMap,
          call        \* what each caller does

vars == <<clock, ticker, ticks, currentPos, slots, circle, timer, scans, jobs, present, ttlMap, call>>
wheel == <<currentPos, slots, circle, timer, scans>>
tables == <<present, ttlMap>>
time == <<clock, ticker, ticks>>

Idle == [pc |-> "idle", key |-> 0, at |-> 0, shared |-> FALSE]

\* Who holds the lock of a key: callers, and jobs that got it.
Locked(k) == (\E c \in Caller : call[c].pc # "idle" /\ call[c].key = k)
             \/ (\E j \in Job : jobs[j].key = k /\ jobs[j].pc \in {"locked", "cancel"})
LockedForWrite(k) == (\E c \in Caller : call[c].pc # "idle" /\ call[c].key = k /\ ~call[c].shared)
                     \/ (\E j \in Job : jobs[j].key = k /\ jobs[j].pc \in {"locked", "cancel"})

IsExpired(k) == ttlMap[k] # NoTTL /\ clock > ttlMap[k]

-----------------------------------------------------------------------------
(* The wheel *)

Without(s, j) == SelectSeq(s, LAMBDA x : x # j)

\* removeTaskInternal: a list element that is in no list any more is not removed.
removed(k) == [slots  |-> [p \in DOMAIN slots |-> Without(slots[p], timer[k])],
               timer  |-> [timer EXCEPT ![k] = NoJob]]

\* Variant: an older job of the key stays.
addTask_NoReplace(k, delay) ==
    \E j \in Job :
        LET n   == delay \div Interval
            pos == (currentPos + n) % slotNum
        IN  /\ jobs[j].pc = "unused" /\ \A i \in 1 .. j - 1 : jobs[i].pc # "unused"
            /\ slots' = [slots EXCEPT ![pos] = Append(@, j)]
            /\ circle' = [circle EXCEPT ![j] = n \div slotNum]
            /\ timer' = [timer EXCEPT ![k] = j]
            /\ jobs' = [jobs EXCEPT ![j] = [key |-> k, due |-> ticks + n + 1, pc |-> "wheel",
                                            raced |-> FALSE]]
            /\ UNCHANGED <<currentPos, scans>>

\* The new job j of key k replaces the one timer points to.  A job that lands in
\* a slot whose scan has yet to begin is scanned too early: raced.
addTask(k, delay) ==
    \E j \in Job :
        LET n   == delay \div Interval
            pos == (currentPos + n) % slotNum
            old == timer[k]
        IN  /\ jobs[j].pc = "unused" /\ \A i \in 1 .. j - 1 : jobs[i].pc # "unused"
            /\ slots' = [removed(k).slots EXCEPT ![pos] = Append(@, j)]
            /\ circle' = [circle EXCEPT ![j] = n \div slotNum]
            /\ timer' = [timer EXCEPT ![k] = j]
            /\ jobs' = [i \in Job |->
                          IF i = j THEN [key |-> k, due |-> ticks + n + 1, pc |-> "wheel",
                                         raced |-> \E s \in scans : s.pc = "scan" /\ s.slot = pos]
                          ELSE IF i = old /\ jobs[i].pc = "wheel" THEN Done
                          ELSE jobs[i]]
            /\ UNCHANGED <<currentPos, scans>>

\* removeTask, with what becomes of the other jobs.
removeTask(k, others) ==
    /\ slots' = removed(k).slots
    /\ timer' = removed(k).timer
    /\ jobs' = [i \in Job |-> IF i = timer[k] /\ others[i].pc = "wheel"
                              THEN Done ELSE others[i]]
    /\ UNCHANGED <<currentPos, circle, scans>>

tickHandler ==
    /\ ticker /\ Cardinality(scans) < MaxScans
    /\ ticker' = FALSE /\ ticks' = ticks + 1
    /\ currentPos' = IF currentPos = slotNum - 1 THEN 0 ELSE currentPos + 1
    /\ scans' = scans \cup {[n |-> ticks, slot |-> currentPos, pc |-> "scan", keys |-> {}]}
    /\ UNCHANGED <<clock, slots, circle, timer, jobs, tables, call>>

\* The first half of scanAndRunTask, under the read lock.
Scan(s) ==
    LET run == SelectSeq(slots[s.slot], LAMBDA j : circle[j] = 0)
    IN  /\ s.pc = "scan"
        /\ slots' = [slots EXCEPT ![s.slot] = SelectSeq(@, LAMBDA j : circle[j] > 0)]
        /\ circle' = [j \in Job |-> IF j \in Range(slots[s.slot]) /\ circle[j] > 0 THEN circle[j] - 1
                                    ELSE circle[j]]
        /\ jobs' = [j \in Job |-> IF j \in Range(run) THEN [jobs[j] EXCEPT !.pc = "started"]
                                  ELSE jobs[j]]
        /\ scans' = (scans \ {s}) \cup
                    {[s EXCEPT !.pc = "delete", !.keys = {jobs[j].key : j \in Range(run)}]}
        /\ UNCHANGED <<time, currentPos, timer, tables, call>>

\* The second half: entries of timer are deleted, whichever job they point to.
\* A job that is waiting in the wheel has lost its entry: raced.
Delete(s) ==
    /\ s.pc = "delete"
    /\ timer' = [k \in Key |-> IF k \in s.keys THEN NoJob ELSE timer[k]]
    /\ jobs' = [j \in Job |-> IF jobs[j].pc = "wheel" /\ \E k \in s.keys : timer[k] = j
                              THEN [jobs[j] EXCEPT !.raced = TRUE] ELSE jobs[j]]
    /\ scans' = scans \ {s}
    /\ UNCHANGED <<time, currentPos, slots, circle, tables, call>>

-----------------------------------------------------------------------------
(* The job Expire passes to the wheel *)

JobLock(j) ==
    /\ jobs[j].pc = "started" /\ ~Locked(jobs[j].key)
    /\ jobs' = [jobs EXCEPT ![j].pc = "locked"]
    /\ UNCHANGED <<time, wheel, tables, call>>

\* Variant: the job does not look at the expiration again.
ExpireJob_NoCheck(j) ==
    LET k == jobs[j].key
    IN  /\ jobs[j].pc = "locked"
        /\ IF ttlMap[k] # NoTTL
           THEN /\ present' = [present EXCEPT ![k] = FALSE]
                /\ ttlMap' = [ttlMap EXCEPT ![k] = NoTTL]
                /\ jobs' = [jobs EXCEPT ![j].pc = "cancel"]
           ELSE /\ jobs' = [jobs EXCEPT ![j] = Done]
                /\ UNCHANGED tables
        /\ UNCHANGED <<time, wheel, call>>

\* Variant: the return for a key without expiration does not unlock it.
ExpireJob_KeepsLock(j) ==
    LET k == jobs[j].key
    IN  /\ jobs[j].pc = "locked" /\ ttlMap[k] # NoTTL
        /\ IF IsExpired(k)
           THEN /\ present' = [present EXCEPT ![k] = FALSE]
                /\ ttlMap' = [ttlMap EXCEPT ![k] = NoTTL]
                /\ jobs' = [jobs EXCEPT ![j].pc = "cancel"]
           ELSE /\ jobs' = [jobs EXCEPT ![j] = Done]
                /\ UNCHANGED tables
        /\ UNCHANGED <<time, wheel, call>>

\* "check-lock-check, ttl may be updated during waiting lock"
ExpireJob(j) ==
    LET k == jobs[j].key
    IN  /\ jobs[j].pc = "locked"
        /\ IF IsExpired(k)
           THEN /\ present' = [present EXCEPT ![k] = FALSE]
                /\ ttlMap' = [ttlMap EXCEPT ![k] = NoTTL]
                /\ jobs' = [jobs EXCEPT ![j].pc = "cancel"]
           ELSE /\ jobs' = [jobs EXCEPT ![j] = Done]
                /\ UNCHANGED tables
        /\ UNCHANGED <<time, wheel, call>>

\* The Cancel of Remove, then the unlock.
JobCancel(j) ==
    /\ jobs[j].pc = "cancel"
    /\ removeTask(jobs[j].key, [jobs EXCEPT ![j] = Done])
    /\ UNCHANGED <<time, tables, call>>

-----------------------------------------------------------------------------
(* Commands *)

Call(c, k, pc, at, shared) ==
    call' = [call EXCEPT ![c] = [pc |-> pc, key |-> k, at |-> at, shared |-> shared]]

\* SET with a time to live: PutEntity and Expire.
Expire(c, k, d) ==
    /\ call[c].pc = "idle" /\ ~Locked(k)
    /\ present' = [present EXCEPT ![k] = TRUE]
    /\ ttlMap' = [ttlMap EXCEPT ![k] = clock + d]
    /\ Call(c, k, "add", clock + d, FALSE)
    /\ UNCHANGED <<time, wheel, jobs>>

Persist(c, k) ==
    /\ call[c].pc = "idle" /\ ~Locked(k) /\ present[k] /\ ~IsExpired(k) /\ ttlMap[k] # NoTTL
    /\ ttlMap' = [ttlMap EXCEPT ![k] = NoTTL]
    /\ Call(c, k, "cancel", 0, FALSE)
    /\ UNCHANGED <<time, wheel, jobs, present>>

\* DEL.
Del(c, k) ==
    /\ call[c].pc = "idle" /\ ~Locked(k) /\ present[k]
    /\ present' = [present EXCEPT ![k] = FALSE]
    /\ ttlMap' = [ttlMap EXCEPT ![k] = NoTTL]
    /\ Call(c, k, "cancel", 0, FALSE)
    /\ UNCHANGED <<time, wheel, jobs>>

\* A reader that finds the key expired removes it, under its read lock.
LazyExpire(c, k) ==
    /\ call[c].pc = "idle" /\ ~LockedForWrite(k) /\ IsExpired(k)
    /\ present' = [present EXCEPT ![k] = FALSE]
    /\ ttlMap' = [ttlMap EXCEPT ![k] = NoTTL]
    /\ Call(c, k, "cancel", 0, TRUE)
    /\ UNCHANGED <<time, wheel, jobs>>

\* At: a time that has passed adds no job.
AddJob(c) ==
    /\ call[c].pc = "add"
    /\ IF call[c].at - clock < 0 THEN UNCHANGED <<wheel, jobs>>
       ELSE addTask(call[c].key, call[c].at - clock)
    /\ call' = [call EXCEPT ![c] = Idle]
    /\ UNCHANGED <<time, tables>>

Cancel(c) ==
    /\ call[c].pc = "cancel"
    /\ removeTask(call[c].key, jobs)
    /\ call' = [call EXCEPT ![c] = Idle]
    /\ UNCHANGED <<time, tables>>

\* The ticker's channel holds one tick; further ones are dropped.
Advance ==
    /\ clock < MaxClock
    /\ clock' = clock + 1
    /\ ticker' = (ticker \/ clock' % Interval = 0)
    /\ UNCHANGED <<ticks, wheel, jobs, tables, call>>

-----------------------------------------------------------------------------
Init ==
    /\ clock = 0 /\ ticker = FALSE /\ ticks = 0 /\ currentPos = 0
    /\ slots = [p \in 0 .. slotNum - 1 |-> <<>>]
    /\ circle = [j \in Job |-> 0]
    /\ timer = [k \in Key |-> NoJob]
    /\ scans = {}
    /\ jobs = [j \in Job |-> [key |-> 0, due |-> 0, pc |-> "unused", raced |-> FALSE]]
    /\ present = [k \in Key |-> FALSE]
    /\ ttlMap = [k \in Key |-> NoTTL]
    /\ call = [c \in Caller |-> Idle]

\* The bound on the number of jobs: a caller asks for one only if it will get it.
JobLeft == Cardinality({c \in Caller : call[c].pc = "add"})
           < Cardinality({j \in Job : jobs[j].pc = "unused"})

Command(c) ==
    \E k \in Key :
        \/ JobLeft /\ \E d \in TTL : Expire(c, k, d)
        \/ Persist(c, k) \/ Del(c, k) \/ LazyExpire(c, k)

Run(j) == JobLock(j) \/ ExpireJob(j) \/ JobCancel(j)
Return(c) == AddJob(c) \/ Cancel(c)
ScanStep(s) == Scan(s) \/ Delete(s)

Next ==
    \/ \E c \in Caller : Command(c) \/ Return(c)
    \/ \E j \in Job : Run(j)
    \/ \E s \in scans : ScanStep(s)
    \/ tickHandler
    \/ Advance

Spec == Init /\ [][Next]_vars

-----------------------------------------------------------------------------
TypeOK ==
    /\ clock \in 0 .. MaxClock /\ currentPos \in 0 .. slotNum - 1
    /\ \A p \in DOMAIN slots : IsInjective(slots[p]) /\ Range(slots[p]) \subseteq Job
    /\ timer \in [Key -> Job \cup {NoJob}]
    /\ ttlMap \in [Key -> Int]

Pending(k) == {j \in Job : jobs[j].pc = "wheel" /\ jobs[j].key = k}

\* The tick with which job j, in slot p, is run: last is the one that picked the
\* slot last, late the scans of the slot that have yet to begin.
RunsAt(j, p) ==
    LET last == ticks - ((currentPos - 1 - p) % slotNum)
        late == {s \in scans : s.pc = "scan" /\ s.slot = p}
    IN  last + slotNum * (circle[j] + 1 - Cardinality(late))

\* A job in the wheel is the only one of its key, can be cancelled through timer,
\* and will be run with the tick it was meant for, however often the wheel turns
\* before; unless it met a scan of its slot that was late.
Tracked ==
    /\ TypeOK
    /\ \A k \in Key : \A j \in Pending(k) : ~jobs[j].raced =>
         /\ timer[k] = j
         /\ \A i \in Pending(k) : i = j \/ jobs[i].raced
         /\ \E p \in DOMAIN slots : j \in Range(slots[p]) /\ RunsAt(j, p) = jobs[j].due

\* A key that has not expired is removed by nobody but a command: a job that is
\* late, early, or was cancelled in vain does no harm.
RemovesOnlyExpired ==
    [][\A k \in Key : present[k] /\ ~present'[k] =>
          IsExpired(k) \/ \E c \in Caller : Del(c, k)]_vars

\* Commands, which wait for the wheel while they hold the lock of their key, and
\* jobs, which wait for that lock, do not all wait for each other.
NoneStuck ==
    (\E c \in Caller : call[c].pc # "idle") \/ (\E j \in Job : jobs[j].pc \in {"started", "locked", "cancel"})
        => ENABLED ((\E c \in Caller : Return(c)) \/ (\E j \in Job : Run(j)))
=============================================================================
