--------------------------- MODULE MCTransaction ---------------------------
(***************************************************************************)
(* Instances of Transaction: the command lines clients send.               *)
(***************************************************************************)
EXTENDS Transaction, TLC

CONSTANTS c1, c2, k1, k2, m1

Scene(cmds, queue, watch, n) ==
    [cmds |-> cmds, queue |-> queue, watch |-> watch, version |-> n]

Get == <<"get", k1>>
MSet == <<"mset", k1, 0, k2, 0>>
LPush == <<"lpush", k2, m1>>
Malformed == <<"get">>

MCCmds == {Get, MSet, LPush, Malformed}

\* Writes and reads of both keys, and a pair whose second command fails on the
\* type the first one leaves.
AtomicScene == Scene(c1 :> {Get, MSet, LPush} @@ c2 :> {Get, MSet}, c1 :> 2 @@ c2 :> 1, {}, 1)

\* A writer of a key that the other client watches, and a malformed line.
WatchScene == Scene(c1 :> {LPush, Malformed} @@ c2 :> {LPush, Malformed}, c1 :> 1 @@ c2 :> 1, {<<c1, k2>>}, 1)

WatchScenes == {WatchScene}

MCScenes == {WatchScene, AtomicScene}
=============================================================================
