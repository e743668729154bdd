-------------------------------- MODULE PubSub --------------------------------
(***************************************************************************)
(* Publish/subscribe: the hub of pubsub/, the channel locks of             *)
(* datastruct/lock, and the Connection objects of redis/connection with    *)
(* the handlers of redis/server/std that take them from a pool and put     *)
(* them back.  A handler serves one client after another; a command of it  *)
(* takes the locks of its channels one by one in the order of their        *)
(* indices, works through its channels (SUBSCRIBE, UNSUBSCRIBE) or through *)
(* the subscribers (PUBLISH), and releases the locks.                      *)
(***************************************************************************)
EXTENDS Integers, Sequences, FiniteSets, SequencesExt

CONSTANTS Handler, Object,  \* goroutines in Handle; Connection objects
          Channel,          \* channels, numbered
          Index,            \* the lock of each channel
          MaxStale          \* bound: with so many stale objects no client connects

None == "none"
Lock == {Index[ch] : ch \in Channel}

VARIABLES h,       \* per handler: where it is, its connection, its command, and
                   \* the channels, locks and receivers that are left of it
          pool,    \* the objects no handler uses
          subs,    \* per object, the channels it subscribes to
          hub,     \* per channel, the list of its subscribers
          locks,   \* per lock, its holder
          owed,    \* per handler and channel, the publications its client has
                   \* a claim to, less those it received
          stale    \* objects put back while they subscribed, or taken again before
                   \* AfterClientClose had run

vars == <<h, pool, subs, hub, locks, owed, stale>>

Away == [pc |-> "away", obj |-> None, op |-> None, chs |-> {}, need |-> <<>>, to |-> <<>>]
Serving(x) == h[x].pc \notin {"away", "closed"} /\ h[x].op # "unsubscribeAll"
Sound(x) == Serving(x) /\ h[x].obj \notin stale

-----------------------------------------------------------------------------
(* Sessions *)

\* NewConn takes an object from the pool.
NewConn(x) ==
    \E o \in pool :
        /\ h[x].pc = "away" /\ Cardinality(stale) < MaxStale
        /\ h' = [h EXCEPT ![x].pc = "ready", ![x].obj = o]
        /\ pool' = pool \ {o}
        /\ stale' = IF \E y \in Handler : h[y].obj = o THEN stale \cup {o} ELSE stale
        /\ UNCHANGED <<subs, hub, locks, owed>>

\* Close forgets the channels and puts the object into the pool.
Close(x) ==
    /\ h[x].pc = "ready"
    /\ stale' = IF subs[h[x].obj] # {} THEN stale \cup {h[x].obj} ELSE stale
    /\ owed' = [owed EXCEPT ![x] = [ch \in Channel |-> 0]]
    /\ subs' = [subs EXCEPT ![h[x].obj] = {}]
    /\ pool' = pool \cup {h[x].obj}
    /\ h' = [h EXCEPT ![x].pc = "closed"]
    /\ UNCHANGED <<hub, locks>>

\* toLockIndices: the indices of the channels, each once, in ascending order.
toLockIndices(chs) == SetToSortSeq({Index[ch] : ch \in chs}, <)

\* Variant: the locks are taken in the order of the arguments.
Begin_Unsorted(x, op, chs) ==
    \E need \in SetToSeqs({Index[ch] : ch \in chs}) :
        h' = [h EXCEPT ![x].pc = "busy", ![x].op = op, ![x].chs = chs, ![x].need = need]

Begin(x, op, chs) ==
    h' = [h EXCEPT ![x].pc = "busy", ![x].op = op, ![x].chs = chs, ![x].need = toLockIndices(chs)]

\* closeClient goes on with AfterClientClose: UnsubscribeAll asks the object, now
\* perhaps another client's, for its channels.
AfterClientClose(x) ==
    /\ h[x].pc = "closed"
    /\ Begin(x, "unsubscribeAll", subs[h[x].obj])
    /\ UNCHANGED <<pool, subs, hub, locks, owed, stale>>

Subscribe(x) ==
    /\ h[x].pc = "ready"
    /\ \E chs \in SUBSET Channel \ {{}} : Begin(x, "subscribe", chs)
    /\ UNCHANGED <<pool, subs, hub, locks, owed, stale>>

\* UNSUBSCRIBE without arguments means all channels of the connection.
UnSubscribe(x) ==
    /\ h[x].pc = "ready"
    /\ \E chs \in {{ch} : ch \in Channel} \cup {subs[h[x].obj]} : Begin(x, "unsubscribe", chs)
    /\ UNCHANGED <<pool, subs, hub, locks, owed, stale>>

Publish(x) ==
    /\ h[x].pc = "ready"
    /\ \E ch \in Channel : Begin(x, "publish", {ch})
    /\ UNCHANGED <<pool, subs, hub, locks, owed, stale>>

-----------------------------------------------------------------------------
(* Under the locks *)

\* The next lock.  With the lock of its channel Publish gets the list, and every
\* client that subscribes has a claim to the message.
Acquire(x) ==
    /\ h[x].pc = "busy" /\ h[x].need # <<>> /\ locks[Head(h[x].need)] = None
    /\ locks' = [locks EXCEPT ![Head(h[x].need)] = x]
    /\ \/ /\ h[x].op = "publish"
          /\ \E ch \in h[x].chs :
                /\ h' = [h EXCEPT ![x].need = Tail(@), ![x].to = hub[ch]]
                /\ owed' = [y \in Handler |-> IF Sound(y) /\ ch \in subs[h[y].obj]
                                              THEN [owed[y] EXCEPT ![ch] = @ + 1] ELSE owed[y]]
       \/ /\ h[x].op # "publish"
          /\ h' = [h EXCEPT ![x].need = Tail(@)]
          /\ UNCHANGED owed
    /\ UNCHANGED <<pool, subs, hub, stale>>

Working(x, ops) == h[x].pc = "busy" /\ h[x].need = <<>> /\ h[x].op \in ops

UnLocks(x, next) ==
    /\ locks' = [i \in Lock |-> IF locks[i] = x THEN None ELSE locks[i]]
    /\ h' = [h EXCEPT ![x] = next]

Ready(x) == [h[x] EXCEPT !.pc = "ready", !.op = None, !.chs = {}]

\* Variant: the list is not searched for the client.
subscribe0_NoContains(list, o) == IF Len(list) < 3 THEN Append(list, o) ELSE list

\* What subscribe0 makes of the list of a channel.
subscribe0(list, o) == IF o \in Range(list) THEN list ELSE Append(list, o)

unsubscribe0(list, o) == SelectSeq(list, LAMBDA a : a # o)

\* The loop of Subscribe over its channels, all of them locked.
SubscribeLocked(x) ==
    LET o == h[x].obj
    IN  /\ Working(x, {"subscribe"})
        /\ subs' = [subs EXCEPT ![o] = @ \cup h[x].chs]
        /\ hub' = [ch \in Channel |-> IF ch \in h[x].chs THEN subscribe0(hub[ch], o) ELSE hub[ch]]
        /\ UnLocks(x, Ready(x))
        /\ UNCHANGED <<pool, owed, stale>>

\* The loop of UnSubscribe and of UnsubscribeAll.
UnSubscribeLocked(x) ==
    LET o == h[x].obj
    IN  /\ Working(x, {"unsubscribe", "unsubscribeAll"})
        /\ subs' = [subs EXCEPT ![o] = @ \ h[x].chs]
        /\ hub' = [ch \in Channel |-> IF ch \in h[x].chs THEN unsubscribe0(hub[ch], o) ELSE hub[ch]]
        /\ UnLocks(x, IF h[x].op = "unsubscribeAll" THEN Away ELSE Ready(x))
        /\ UNCHANGED <<pool, owed, stale>>

\* Variant: the loop ends after the first subscriber.
WriteMessage_First(x) ==
    /\ Working(x, {"publish"}) /\ h[x].to # <<>>
    /\ \E ch \in h[x].chs :
         owed' = [y \in Handler |-> IF Sound(y) /\ h[y].obj = Head(h[x].to)
                                   THEN [owed[y] EXCEPT ![ch] = @ - 1] ELSE owed[y]]
    /\ h' = [h EXCEPT ![x].to = <<>>]
    /\ UNCHANGED <<pool, subs, hub, locks, stale>>

\* Publish writes to the next subscriber: the message reaches the client its
\* object serves now, if any.
WriteMessage(x) ==
    /\ Working(x, {"publish"}) /\ h[x].to # <<>>
    /\ \E ch \in h[x].chs :
         owed' = [y \in Handler |-> IF Sound(y) /\ h[y].obj = Head(h[x].to)
                                   THEN [owed[y] EXCEPT ![ch] = @ - 1] ELSE owed[y]]
    /\ h' = [h EXCEPT ![x].to = Tail(@)]
    /\ UNCHANGED <<pool, subs, hub, locks, stale>>

PublishEnd(x) ==
    /\ Working(x, {"publish"}) /\ h[x].to = <<>>
    /\ UnLocks(x, Ready(x))
    /\ UNCHANGED <<pool, subs, hub, owed, stale>>

-----------------------------------------------------------------------------
Init ==
    /\ h = [x \in Handler |-> Away]
    /\ pool = Object
    /\ subs = [o \in Object |-> {}]
    /\ hub = [ch \in Channel |-> <<>>]
    /\ locks = [i \in Lock |-> None]
    /\ owed = [x \in Handler |-> [ch \in Channel |-> 0]]
    /\ stale = {}

Command(x) == Subscribe(x) \/ UnSubscribe(x) \/ Publish(x) \/ Close(x)
Continue(x) == Acquire(x) \/ SubscribeLocked(x) \/ UnSubscribeLocked(x) \/ WriteMessage(x)
               \/ PublishEnd(x) \/ AfterClientClose(x)

Next == \E x \in Handler : NewConn(x) \/ Command(x) \/ Continue(x)

Spec == Init /\ [][Next]_vars

-----------------------------------------------------------------------------
TypeOK ==
    /\ subs \in [Object -> SUBSET Channel]
    /\ \A ch \in Channel : Range(hub[ch]) \subseteq Object
    /\ locks \in [Lock -> Handler \cup {None}]
    /\ stale \subseteq Object

\* The list of a channel nobody holds the lock of has each connection that
\* subscribes to the channel once, and no other; unless the connection object was
\* put back too early.
HubAgrees ==
    /\ TypeOK
    /\ \A ch \in Channel : locks[Index[ch]] = None =>
         /\ IsInjective(hub[ch])
         /\ \A o \in Object \ stale : o \in Range(hub[ch]) <=> ch \in subs[o]

\* Between publications a client has received every message of the channels it
\* subscribed to at the time, once, and no other, whoever came and went
\* meanwhile; unless its connection object was put
\* back too early by an earlier client.
ExactStream ==
    \A x \in Handler, ch \in Channel :
        Sound(x) /\ locks[Index[ch]] = None => owed[x][ch] = 0

\* Handlers do not all wait for each other's locks: they are taken in one order.
NoneStuck == (\E x \in Handler : h[x].pc = "busy") => ENABLED (\E x \in Handler : Continue(x))
=============================================================================
