---------------------------- MODULE MCReplication ----------------------------
(***************************************************************************)
(* Instances of Replication: one slave that connects twice, or two slaves.  *)
(***************************************************************************)
EXTENDS Replication, TLC

CONSTANTS c1, c2, s1, s2

MCConns == {c1, c2}
OneSlave == c1 :> s1 @@ c2 :> s1
TwoSlaves == c1 :> s1 @@ c2 :> s2

\* Two connections, one save, nothing late.
Calm(owner, cmds) ==
    [owner |-> owner, conns |-> MCConns, savers |-> {"save1"}, cmds |-> cmds, ticks |-> 0,
     backlog |-> 9, acks |-> 0, late |-> {}, fails |-> FALSE]

\* A slave that connects again; the same with a ping; one that acknowledges; two
\* slaves; a backlog that is rewritten, with errors; two saves.
MCScenes ==
    { Calm(OneSlave, 2),
      [Calm(OneSlave, 1) EXCEPT !.ticks = 1],
      [Calm(OneSlave, 2) EXCEPT !.conns = {c1}, !.acks = 2],
      Calm(TwoSlaves, 1),
      [Calm(OneSlave, 2) EXCEPT !.conns = {c1}, !.ticks = 1, !.backlog = 0, !.late = {"sends"}, !.fails = TRUE],
      [Calm(TwoSlaves, 0) EXCEPT !.savers = {"save1", "save2"}, !.late = {"load"}] }
=============================================================================
