----------------------------- MODULE MCKeyLocks -----------------------------
(* Three goroutines over four keys in three shards; k1 and k4 share a shard. *)
EXTENDS KeyLocks, TLC

CONSTANTS k1, k2, k3, k4

MCKey == {k1, k2, k3, k4}
MCSpread == k1 :> 0 @@ k2 :> 1 @@ k3 :> 2 @@ k4 :> 0

\* SET, GET, RENAME in both directions, a transaction that reads what it
\* writes, an MSET over three shards.
MCRequests == { <<{k1}, {}>>, <<{}, {k4, k2}>>, <<{k1}, {k2}>>, <<{k2}, {k1}>>,
                <<{k4, k3}, {k4}>>, <<{k3, k2, k1}, {}>> }
=============================================================================
