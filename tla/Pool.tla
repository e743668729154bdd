-------------------------------- MODULE Pool --------------------------------
(***************************************************************************)
(* The connection pool of lib/pool.  Borrowers are goroutines that Get an  *)
(* object, use it and Put it back, again and again; one goroutine may      *)
(* Close the pool.  Nothing blocks while pool.mu is held, so a critical    *)
(* section is one step; but Put decrements activeCount after it released   *)
(* the mutex, so every update of activeCount is a load and a store, and    *)
(* those of getOnNoIdle hold the mutex in between.                         *)
(***************************************************************************)
EXTENDS Integers, Sequences, FiniteSets, Functions

CONSTANTS Borrower,  \* the goroutines
          Object,    \* the objects the factory may return
          Nil,       \* what a receive from a closed channel yields
          MaxIdle,
          MaxActive,
          Word       \* activeCount is computed modulo Word

\* The channel yields no object once it is closed, and the limits are values of
\* the type of activeCount.
ASSUME PoolAssumption ==
    /\ Nil \notin Object
    /\ MaxIdle \in Nat /\ MaxActive \in Nat /\ Word \in Nat /\ MaxActive < Word

VARIABLES pc,          \* where each goroutine is
          obj,         \* the object it has, or Nil
          idles,       \* the channel of idle objects
          waitingReqs, \* the goroutines whose request channels are queued
          activeCount,
          loaded,      \* the value of activeCount a goroutine has loaded to change it
          closed,
          closing,     \* whether Close still drains idles
          alive,       \* the objects that have been created and not finalized
          torn         \* whether an update of activeCount was overwritten

vars == <<pc, obj, idles, waitingReqs, activeCount, loaded, closed, closing, alive, torn>>

-----------------------------------------------------------------------------
Goto(b, l) == pc' = [pc EXCEPT ![b] = l]
Take(b, x) == obj' = [obj EXCEPT ![b] = x]

\* pool.mu is free: nobody is between the two halves of an update under it.
Unlocked == \A b \in Borrower : pc[b] \notin {"hold", "giveBack"}

\* activeCount++ and activeCount--, in two halves.
Load(b) == loaded' = [loaded EXCEPT ![b] = activeCount]
Store(b, d) ==
    /\ activeCount' = (loaded[b] + d) % Word
    /\ torn' = (torn \/ activeCount # loaded[b])
    /\ loaded' = [loaded EXCEPT ![b] = 0]

\* Get looks whether the pool is closed.
Get(b) ==
    /\ pc[b] = "out" /\ Unlocked /\ ~closed
    /\ Goto(b, "select")
    /\ UNCHANGED <<obj, idles, waitingReqs, activeCount, loaded, closed, closing, alive, torn>>

\* An idle object is taken; idles that Close has closed and drained yields nil.
SelectIdle(b) ==
    /\ pc[b] = "select"
    /\ \/ /\ idles # <<>>
          /\ Take(b, Head(idles)) /\ idles' = Tail(idles)
          /\ Goto(b, "has")
       \/ /\ idles = <<>> /\ closed
          /\ Goto(b, "nil")
          /\ UNCHANGED <<obj, idles>>
       \/ /\ idles = <<>> /\ ~closed
          /\ Goto(b, "noIdle")
          /\ UNCHANGED <<obj, idles>>
    /\ UNCHANGED <<waitingReqs, activeCount, loaded, closed, closing, alive, torn>>

\* BorrowPeerClient returns an error for what is not a client.
WrongType(b) ==
    /\ pc[b] = "nil"
    /\ Goto(b, "out")
    /\ UNCHANGED <<obj, idles, waitingReqs, activeCount, loaded, closed, closing, alive, torn>>

\* Variant: the limit is compared with "greater".
getOnNoIdle_OneMore(b) ==
    /\ pc[b] = "noIdle" /\ Unlocked
    /\ IF activeCount > MaxActive
       THEN Goto(b, "waiting") /\ waitingReqs' = Append(waitingReqs, b) /\ UNCHANGED loaded
       ELSE Goto(b, "hold") /\ Load(b) /\ UNCHANGED waitingReqs
    /\ UNCHANGED <<obj, idles, activeCount, closed, closing, alive, torn>>

\* The pool is at its limit: the request is queued.  Or a place is held for a
\* new object.
getOnNoIdle(b) ==
    /\ pc[b] = "noIdle" /\ Unlocked
    /\ IF activeCount >= MaxActive
       THEN Goto(b, "waiting") /\ waitingReqs' = Append(waitingReqs, b) /\ UNCHANGED loaded
       ELSE Goto(b, "hold") /\ Load(b) /\ UNCHANGED waitingReqs
    /\ UNCHANGED <<obj, idles, activeCount, closed, closing, alive, torn>>

\* The place is held; then the mutex is released.
HoldPlace(b) ==
    /\ pc[b] = "hold"
    /\ Store(b, 1) /\ Goto(b, "create")
    /\ UNCHANGED <<obj, idles, waitingReqs, closed, closing, alive>>

\* Objects that do not exist; one is as good as another.
Fresh == Object \ (alive \cup Range(obj) \cup Range(idles))

factory(b) ==
    /\ pc[b] = "create"
    /\ Fresh # {}
    /\ LET x == CHOOSE y \in Fresh : TRUE IN Take(b, x) /\ alive' = alive \cup {x}
    /\ Goto(b, "has")
    /\ UNCHANGED <<idles, waitingReqs, activeCount, loaded, closed, closing, torn>>

\* The creation fails, and the place is to be given back under the mutex.
factoryFails(b) ==
    /\ pc[b] = "create" /\ Unlocked
    /\ Load(b) /\ Goto(b, "giveBack")
    /\ UNCHANGED <<obj, idles, waitingReqs, activeCount, closed, closing, alive, torn>>

\* The mutex is released.
GiveBack(b) ==
    /\ pc[b] = "giveBack"
    /\ Store(b, -1) /\ Goto(b, "out")
    /\ UNCHANGED <<obj, idles, waitingReqs, closed, closing, alive>>

\* The object a Put has sent on the request's channel is received.
Receive(b) ==
    /\ pc[b] = "waiting" /\ obj[b] # Nil
    /\ Goto(b, "has")
    /\ UNCHANGED <<obj, idles, waitingReqs, activeCount, loaded, closed, closing, alive, torn>>

-----------------------------------------------------------------------------
\* Put on a pool that has been closed: the object is finalized.
PutClosed(b) ==
    /\ pc[b] = "has" /\ Unlocked /\ closed
    /\ alive' = alive \ {obj[b]} /\ Take(b, Nil) /\ Goto(b, "out")
    /\ UNCHANGED <<idles, waitingReqs, activeCount, loaded, closed, closing, torn>>

\* Variant: the request stays queued.
PutWaiting_StaysQueued(b) ==
    /\ pc[b] = "has" /\ Unlocked /\ ~closed /\ waitingReqs # <<>>
    /\ obj' = [obj EXCEPT ![b] = Nil, ![Head(waitingReqs)] = obj[b]]
    /\ Goto(b, "out")
    /\ UNCHANGED <<idles, waitingReqs, activeCount, loaded, closed, closing, alive, torn>>

\* The request that waits longest gets the object.
PutWaiting(b) ==
    /\ pc[b] = "has" /\ Unlocked /\ ~closed /\ waitingReqs # <<>>
    /\ obj' = [obj EXCEPT ![b] = Nil, ![Head(waitingReqs)] = obj[b]]
    /\ waitingReqs' = Tail(waitingReqs)
    /\ Goto(b, "out")
    /\ UNCHANGED <<idles, activeCount, loaded, closed, closing, alive, torn>>

PutIdle(b) ==
    /\ pc[b] = "has" /\ Unlocked /\ ~closed /\ waitingReqs = <<>> /\ Len(idles) < MaxIdle
    /\ idles' = Append(idles, obj[b]) /\ Take(b, Nil) /\ Goto(b, "out")
    /\ UNCHANGED <<waitingReqs, activeCount, loaded, closed, closing, alive, torn>>

\* idles is full: after the unlock activeCount is loaded ...
PutFull(b) ==
    /\ pc[b] = "has" /\ Unlocked /\ ~closed /\ waitingReqs = <<>> /\ Len(idles) = MaxIdle
    /\ Goto(b, "load")
    /\ UNCHANGED <<obj, idles, waitingReqs, activeCount, loaded, closed, closing, alive, torn>>

LoadCount(b) ==
    /\ pc[b] = "load"
    /\ Load(b) /\ Goto(b, "store")
    /\ UNCHANGED <<obj, idles, waitingReqs, activeCount, closed, closing, alive, torn>>

\* ... and stored, and the object finalized.
StoreCount(b) ==
    /\ pc[b] = "store"
    /\ Store(b, -1)
    /\ alive' = alive \ {obj[b]} /\ Take(b, Nil) /\ Goto(b, "out")
    /\ UNCHANGED <<idles, waitingReqs, closed, closing>>

-----------------------------------------------------------------------------
Close ==
    /\ ~closed /\ Unlocked
    /\ closed' = TRUE /\ closing' = TRUE
    /\ UNCHANGED <<pc, obj, idles, waitingReqs, activeCount, loaded, alive, torn>>

\* Close finalizes what is left in idles, which a Get may still take from.
Drain ==
    /\ closing
    /\ IF idles = <<>>
       THEN closing' = FALSE /\ UNCHANGED <<idles, alive>>
       ELSE alive' = alive \ {Head(idles)} /\ idles' = Tail(idles) /\ UNCHANGED closing
    /\ UNCHANGED <<pc, obj, waitingReqs, activeCount, loaded, closed, torn>>

-----------------------------------------------------------------------------
Init ==
    /\ pc = [b \in Borrower |-> "out"]
    /\ obj = [b \in Borrower |-> Nil]
    /\ idles = <<>> /\ waitingReqs = <<>>
    /\ activeCount = 0 /\ loaded = [b \in Borrower |-> 0]
    /\ closed = FALSE /\ closing = FALSE
    /\ alive = {} /\ torn = FALSE

\* Variant: waiting requests are looked for only when idles is full.
Put_IdleFirst(b) ==
    \/ PutClosed(b) \/ PutFull(b)
    \/ Len(idles) = MaxIdle /\ PutWaiting(b)
    \/ /\ pc[b] = "has" /\ Unlocked /\ ~closed /\ Len(idles) < MaxIdle
       /\ idles' = Append(idles, obj[b]) /\ Take(b, Nil) /\ Goto(b, "out")
       /\ UNCHANGED <<waitingReqs, activeCount, loaded, closed, closing, alive, torn>>

Put(b) == PutClosed(b) \/ PutWaiting(b) \/ PutIdle(b) \/ PutFull(b)

Step(b) ==
    \/ SelectIdle(b) \/ WrongType(b) \/ getOnNoIdle(b) \/ HoldPlace(b)
    \/ factory(b) \/ factoryFails(b) \/ GiveBack(b)
    \/ Receive(b) \/ Put(b) \/ LoadCount(b) \/ StoreCount(b)

Next == (\E b \in Borrower : Get(b) \/ Step(b)) \/ Close \/ Drain

\* A call that has begun goes on, and what was borrowed is returned: a goroutine
\* that waits for the mutex gets it (sync.Mutex hands over to those who wait
\* long).  Nobody is obliged to borrow.
Fairness == (\A b \in Borrower : WF_vars(Step(b)) /\ SF_vars(Put(b))) /\ WF_vars(Drain)

Spec == Init /\ [][Next]_vars /\ Fairness

-----------------------------------------------------------------------------
\* Where objects are: with a borrower (or in its request channel) or idle.
Held == {b \in Borrower : obj[b] # Nil}

TypeOK ==
    /\ pc \in [Borrower -> {"out", "select", "nil", "noIdle", "hold", "create", "giveBack",
                         "waiting", "has", "load", "store"}]
    /\ obj \in [Borrower -> Object \cup {Nil}]
    /\ activeCount \in 0 .. Word - 1
    /\ alive \subseteq Object
    /\ Len(idles) <= MaxIdle

\* An object is lent to one borrower at a time, and never after it was
\* finalized: not by the hand-over of Put, nor when Close drains the idle
\* objects while Get takes from them.  No object is lost: what is alive can be
\* reached.
Exclusive ==
    /\ TypeOK
    /\ \A b, c \in Held : obj[b] = obj[c] => b = c
    /\ IsInjective(idles)
    /\ {obj[b] : b \in Held} \cap Range(idles) = {}
    /\ alive = {obj[b] : b \in Held} \cup Range(idles)
    /\ \A b \in Borrower : pc[b] = "has" => obj[b] # Nil

\* As long as no update of activeCount was overwritten, there are never more
\* than MaxActive objects, those about to be created included ("activeCount
\* increases during creating connection, decrease during destroying
\* connection").
WithinLimit ==
    ~torn => Cardinality(alive) + Cardinality({b \in Borrower : pc[b] \in {"create", "giveBack"}}) <= MaxActive

\* A borrower waits for ever only if in the end no object is lent any more:
\* whenever an object is returned, those who wait come before those who ask
\* later.
WaitersServed ==
    \A b \in Borrower : <>[](pc[b] = "waiting") => <>[](\A c \in Borrower : pc[c] # "has")

-----------------------------------------------------------------------------
(* The strengthening of Exclusive and WithinLimit that the steps preserve *)

\* The goroutines whose place in activeCount has no object.
Creators == {b \in Borrower : pc[b] \in {"create", "giveBack"}}

PoolType ==
    /\ TypeOK
    /\ idles \in Seq(Object) /\ waitingReqs \in Seq(Borrower)
    /\ loaded \in [Borrower -> 0 .. Word - 1]
    /\ closed \in BOOLEAN /\ closing \in BOOLEAN /\ torn \in BOOLEAN

\* Who has an object: a goroutine between the end of Get and that of Put, and one
\* whose request channel has been sent an object.  Requests that are queued are
\* of different goroutines, which wait and have got nothing.
Custody ==
    /\ \A b \in Borrower :
         /\ pc[b] \in {"has", "load", "store"} => obj[b] # Nil
         /\ obj[b] # Nil => pc[b] \in {"has", "load", "store", "waiting"}
    /\ IsInjective(waitingReqs)
    /\ \A b \in Range(waitingReqs) : pc[b] = "waiting" /\ obj[b] = Nil

\* What Exclusive says of the objects.
Lending ==
    /\ \A b, c \in Borrower : obj[b] = obj[c] /\ obj[b] # Nil => b = c
    /\ IsInjective(idles)
    /\ \A b \in Borrower : obj[b] \notin Range(idles)
    /\ \A x \in Object : x \in alive <=> x \in Range(idles) \/ (\E b \in Borrower : obj[b] = x)

\* While no update was overwritten activeCount is at least the number of the
\* objects and of those being created (it stays behind when a closed pool finalizes
\* objects), and MaxActive at most.
Counted ==
    /\ IsFiniteSet(alive) /\ IsFiniteSet(Creators)
    /\ \A b \in Borrower : pc[b] = "hold" => loaded[b] < MaxActive
    /\ ~torn => /\ Cardinality(alive) + Cardinality(Creators) <= activeCount
                /\ activeCount <= MaxActive

PoolInv == PoolType /\ Custody /\ Lending /\ Counted
=============================================================================
