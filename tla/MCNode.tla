------------------------------ MODULE MCNode --------------------------------
(***************************************************************************)
(* The parts of one server process beside its locks, command tables and log, *)
(* each on an instance of its own.  A behaviour is about one part; the     *)
(* variables of the others stay as they are.                               *)
(***************************************************************************)
EXTENDS ConcurrentDict, TLC

CONSTANTS c1, c2, k1, va, vb, h1, h2, o1, o2, Nil

VARIABLE part   \* which part the behaviour is about

VARIABLES store, replay, cl, raced

\* Two clients and two databases of one key.
Srv == INSTANCE Server WITH Client <- {c1, c2}, Index <- {0, 1}, Key <- {k1}, MaxVal <- 2

\* A dictionary of three shards with a key in each.
Spread == 1 :> 0 @@ 2 :> 1 @@ 3 :> 2

\* What the theorem about walks takes of the constants.
ASSUME DictAssumption == Sharding

VARIABLES dict, sl

\* A skip list of two levels: members of equal and of different scores.
Zset == INSTANCE SortedSet WITH Member <- {1, 2, 3, 4}, Score <- {0, 1}, maxLevel <- 2

VARIABLES data, size, list

\* Pages of two values, and of the capacities append gives them.
Quick == INSTANCE QuickList WITH Value <- {va, vb}, pageSize <- 2, MaxLen <- 4, MaxCap <- 3

Linked == INSTANCE LinkedList WITH Value <- {va, vb}, Node <- {1, 2, 3, 4}

VARIABLES clock, ticker, ticks, currentPos, slots, circle, timer, scans, jobs, stored, ttlMap, call

\* A wheel of two slots, and a time to live of more than one round.
Wheel == INSTANCE TimeWheel WITH
    Caller <- {c1, c2}, Key <- {k1}, TTL <- {1, 4}, Interval <- 2, slotNum <- 2,
    MaxJobs <- 2, MaxScans <- 1, MaxClock <- 6, present <- stored

VARIABLES h, pool, subs, hub, locks, owed, stale

\* Channels whose locks are ordered the other way round than they are.
Hub == INSTANCE PubSub WITH
    Handler <- {h1, h2}, Object <- {o1, o2}, Channel <- {1, 2}, Index <- (1 :> 2 @@ 2 :> 1), MaxStale <- 1

srvVars == <<store, replay, cl, raced>>

zsetVars == <<dict, sl>>

quickVars == <<data, size>>

linkedVars == <<list>>

wheelVars == <<clock, ticker, ticks, currentPos, slots, circle, timer, scans, jobs, stored,
               ttlMap, call>>

hubVars == <<h, pool, subs, hub, locks, owed, stale>>

NodeVars == <<part, srvVars, vars, zsetVars, quickVars, linkedVars, wheelVars, hubVars>>

-----------------------------------------------------------------------------
NodeInit ==
    /\ part \in {"server", "dict", "zset", "quicklist", "linkedlist", "wheel", "hub"}
    /\ Srv!Init /\ (part # "server" => Srv!LoadRDB({}, {}))
    /\ Init
    /\ Zset!Init
    /\ Quick!Init
    /\ Linked!Init
    /\ Wheel!Init
    /\ Hub!Init

NodeNext ==
    \/ /\ part = "server" /\ Srv!Next
       /\ UNCHANGED <<part, vars, zsetVars, quickVars, linkedVars, wheelVars, hubVars>>
    \/ /\ part = "dict" /\ Next
       /\ UNCHANGED <<part, srvVars, zsetVars, quickVars, linkedVars, wheelVars, hubVars>>
    \/ /\ part = "zset" /\ Zset!Next
       /\ UNCHANGED <<part, srvVars, vars, quickVars, linkedVars, wheelVars, hubVars>>
    \/ /\ part = "quicklist" /\ Quick!Next
       /\ UNCHANGED <<part, srvVars, vars, zsetVars, linkedVars, wheelVars, hubVars>>
    \/ /\ part = "linkedlist" /\ Linked!Next
       /\ UNCHANGED <<part, srvVars, vars, zsetVars, quickVars, wheelVars, hubVars>>
    \/ /\ part = "wheel" /\ Wheel!Next
       /\ UNCHANGED <<part, srvVars, vars, zsetVars, quickVars, linkedVars, hubVars>>
    \/ /\ part = "hub" /\ Hub!Next
       /\ UNCHANGED <<part, srvVars, vars, zsetVars, quickVars, linkedVars, wheelVars>>

NodeSpec == NodeInit /\ [][NodeNext]_NodeVars

-----------------------------------------------------------------------------
\* The databases of the server (server.go: SELECT, FLUSHDB, FLUSHALL, loadDB,
\* and COPY): the lines saved for them rebuild every database that no flush or
\* copy is half way through changing, with the expirations and the sharing of
\* entities.
LogRebuilds == part = "server" => Srv!LogRebuilds

\* The skip list of a sorted set (skiplist.go) agrees with its dictionary, its
\* spans are distances, and ranks, slices, ranges and removals read through its
\* levels are those of the sorted members.
SkipListExact == part = "zset" => Zset!WellFormed /\ Zset!RangesExact

\* The two kinds of list (quicklist.go, linked.go): every operation does what it
\* does to a plain sequence, also when the pages or nodes an iterator stands on
\* vanish under it.
ListsExact == (part = "quicklist" => Quick!PagesExact) /\ (part = "linkedlist" => Linked!LinksExact)

\* The time wheel (timewheel.go): a job in it is the only one of its key, can be
\* cancelled, and runs with the tick it was meant for; and a key that has not
\* expired is removed by nobody but a command, whichever jobs are late, early,
\* or were cancelled in vain (the job's "check-lock-check" in Expire).
TimersExact == [](part = "wheel" => Wheel!Tracked) /\ Wheel!RemovesOnlyExpired

\* Publish and subscribe (pubsub.go): the list of a channel nobody holds the lock
\* of has each connection that subscribes to the channel once, and no other; and
\* between publications a client has received every message of the channels it
\* subscribed to at the time, once, and no other (Publish, and the connection
\* objects that Close puts back into a pool).
HubExact == part = "hub" => Hub!HubAgrees /\ Hub!ExactStream

\* Whoever waits, somebody goes on: commands that wait for the wheel with their key
\* locked against jobs that wait for that lock (timewheel.go, database.go); and
\* SUBSCRIBE, UNSUBSCRIBE and PUBLISH for the locks of their channels (pubsub.go).
NoneStuck == (part = "wheel" => Wheel!NoneStuck) /\ (part = "hub" => Hub!NoneStuck)
=============================================================================
