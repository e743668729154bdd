----------------------------- MODULE MCCluster -----------------------------
(***************************************************************************)
(* The cluster: commands over several nodes, the slot table with its       *)
(* rebalancing and failover, and the migration of a slot, each on an       *)
(* instance of its own.  A behaviour is about one of the Parts and one of  *)
(* its scenes; the variables of the others stay as they are.               *)
(***************************************************************************)
EXTENDS Tcc, Migration, TLC

CONSTANTS Parts,           \* the parts to check
          n1, n2, n3, x, y, z, c1, c2, c3,
          na, nb, nc, nd, None, NotMaster

VARIABLE part   \* which part the behaviour is about

-----------------------------------------------------------------------------
(* Commands: three clients, and a key on each of three nodes *)

Placement == x :> n1 @@ y :> n2 @@ z :> n3

MSet(K, v) == [op |-> "mset", keys |-> K, val |-> v, src |-> "", dst |-> ""]

MGet(K) == [op |-> "mget", keys |-> K, val |-> 0, src |-> "", dst |-> ""]

Del(K) == [op |-> "del", keys |-> K, val |-> 0, src |-> "", dst |-> ""]

Rename(op, a, b) == [op |-> op, keys |-> {a, b}, val |-> 0, src |-> a, dst |-> b]

Scene(plan, present, slow, bound) ==
    [plan |-> plan, present |-> present, slow |-> slow, timeouts |-> bound]

\* No two commands share two nodes: they wait for one another in no circle.
ChainPlan == c1 :> MSet({x, y}, 1) @@ c2 :> MGet({y, z}) @@ c3 :> MSet({z}, 3)

\* A command that waits for two others, one of them a RENAME of a key that may
\* be missing.
RenamePlan == c1 :> Rename("rename", x, y) @@ c2 :> Del({y, z}) @@ c3 :> MGet({z})

\* A client that asks for nothing.
Nothing == MGet({})

\* A writer and a reader that share two nodes, and may each give up a prepare.
CrossPlan == c1 :> MSet({x, y}, 1) @@ c2 :> MGet({x, y}) @@ c3 :> Nothing

AllCommands == { Scene(ChainPlan, {x, z}, {}, 0), Scene(RenamePlan, {x}, {}, 0), Scene(RenamePlan, {y}, {}, 0),
                 Scene(CrossPlan, {}, {"prepare", "rollback"}, 2) }

\* RENAMENX onto a key that exists.
RenameNx == { Scene(c1 :> Rename("renamenx", x, y) @@ c2 :> Nothing @@ c3 :> Nothing, {x, y}, {}, 0) }

-----------------------------------------------------------------------------
(* The slot table: six slots and up to four nodes *)

Members == {na, nb, nc, nd}

\* The orders in which a map of slots is ranged over: ascending, descending,
\* and neither.
MCOrders == {<<0, 1, 2, 3, 4, 5>>, <<5, 4, 3, 2, 1, 0>>, <<2, 4, 0, 5, 1, 3>>}

JoinEntry(node, m) == [event |-> "join", node |-> node, master |-> m]

AllMasters == [node \in Members |-> None]

\* nc and nd are slaves of nb.
Slaves == [node \in Members |-> IF node \in {na, nb} THEN None ELSE nb]

NewCluster == <<[event |-> "seed", node |-> na]>>

\* nb has joined and got half of the slots, nc has joined as its slave.
HalfWithSlave ==
    LET task == [id |-> 0, src |-> na, target |-> nb, slots |-> <<0, 1, 2>>]
    IN  NewCluster \o <<JoinEntry(nb, None), [event |-> "start", task |-> task],
                        [event |-> "finish", task |-> task], JoinEntry(nc, nb)>>

\* A new cluster that nodes join as masters.
Fresh(joining, tasks) ==
    [masterOf |-> AllMasters, log |-> NewCluster, members |-> {na}, joining |-> joining, tasks |-> tasks,
     timeouts |-> 0, failovers |-> 0, restarts |-> 0, installs |-> 0]

\* One node joins; two nodes join; the master nb fails, and its slaves after it,
\* with a restart; a node restarts and gets a snapshot.
AllHistories ==
    { [Fresh({nb}, 3) EXCEPT !.timeouts = 1],
      [Fresh({nb, nc}, 3) EXCEPT !.timeouts = 1],
      [Fresh({nd}, 0) EXCEPT !.masterOf = Slaves, !.log = HalfWithSlave, !.members = {na, nb, nc},
                            !.failovers = 2, !.restarts = 1],
      [Fresh({nb}, 2) EXCEPT !.restarts = 1, !.installs = 1] }

VARIABLES history, log, fsm, applied, members, pending, starting, imports, importing, exporting, follows,
          count

Slots == INSTANCE Rebalance WITH
    Node <- Members, SlotCount <- 6, Leader <- na, Orders <- MCOrders, Scenes <- AllHistories,
    scene <- history

slotsVars == <<history, log, fsm, applied, members, pending, starting, imports, importing, exporting, follows,
               count>>

-----------------------------------------------------------------------------
(* Migration: a slot with one key at the start and two more *)

AllOps == {"insert", "update", "delete"}

\* Insertions that nothing disturbs; every command, while the source finishes
\* and before the target has the data; the same when the route is refused and
\* the source was restarted.
AllMigrations ==
    { [ops |-> {"insert"}, writes |-> 4, may |-> {}],
      [ops |-> AllOps, writes |-> 3, may |-> {"write in finish", "early serve"}],
      [ops |-> AllOps, writes |-> 3,
       may |-> {"write in finish", "early serve", "route fails", "restart"}] }

\* An existing key is updated while the slot is exported.
Updates == { [ops |-> {"update"}, writes |-> 3, may |-> {}] }

\* What the theorems about migrations take of the constants.
ASSUME MigrationAssumption == SceneAssumption

-----------------------------------------------------------------------------
ClusterVars == <<part, vars, slotsVars, MigrationVars>>

ClusterInit ==
    /\ part \in Parts
    /\ Init /\ (part # "commands" => scene = CHOOSE s \in Scenes : TRUE)
    /\ Slots!Init /\ (part # "slots" => history = CHOOSE s \in AllHistories : TRUE)
    /\ MigrationInit /\ (part # "migration" => traffic = CHOOSE s \in MigrationScenes : TRUE)

ClusterNext ==
    \/ /\ part = "commands" /\ Next
       /\ UNCHANGED <<part, slotsVars, MigrationVars>>
    \/ /\ part = "slots" /\ Slots!Next
       /\ UNCHANGED <<part, vars, MigrationVars>>
    \/ /\ part = "migration" /\ MigrationNext
       /\ UNCHANGED <<part, vars, slotsVars>>

ClusterSpec == ClusterInit /\ [][ClusterNext]_ClusterVars

\* Requests arrive, goroutines run and free locks are granted; cron ticks, raft and
\* requests make progress as long as there is something to do (weak fairness of
\* Step, with its guards in the place of ENABLED); the two nodes of a migration
\* and the commands on its keys go on.
LiveSpec ==
    /\ ClusterSpec
    /\ WF_vars(part = "commands" /\ Proceed)
    /\ WF_slotsVars(part = "slots" /\ Slots!execStartMigration)
    /\ []<>(part # "slots" \/ ~Slots!CanStep) \/ []<><<part = "slots" /\ Slots!Step>>_slotsVars
    /\ WF_MigrationVars(part = "migration" /\ MigrationProceeds)

-----------------------------------------------------------------------------
\* Every command over the cluster returns to its client without any timeout if the
\* commands can wait for one another in no circle (doTcc, execPrepare).
EveryCommandReturns == <>[](part = "commands" => AllReturned)

\* "slotIDs is in ascending order and distinct", the two maps of a table say the
\* same, and nodes that have applied the same entries route alike (fsm.go); a plan
\* takes a slot from its host and gives it to one node (makeRebalancePlan).
SlotsAgree == part = "slots" => Slots!Consistent /\ Slots!RoutesAgree /\ Slots!PlanSound

\* Every slot is routed to a master, masters and slaves agree on who they are, and
\* a node the cluster calls a master replicates nobody, over migrations, failovers
\* and restarts (fsm.go, node_manager.go, replica_manager.go).
RolesAgree == part = "slots" => Slots!HostsAreMasters /\ Slots!RolesConsistent /\ Slots!MastersStandAlone

\* When one node joins, the rebalance goes on until each master has its share of
\* the slots, although a node may refuse a task it has not heard of yet.
EventuallyBalanced == <>[](part = "slots" => Slots!Balanced)
=============================================================================
