------------------------------ MODULE MCPeers -------------------------------
(***************************************************************************)
(* What a node talks to other machines through: the pool of peer clients   *)
(* (module Pool) and the pipelined client (an instance of Client).  A      *)
(* behaviour is about one part; the variables of the other stay as they    *)
(* are.  In Peers.cfg there are more borrowers than the pool may have      *)
(* objects; two requests of each sender, queues of one, and a connection   *)
(* that breaks once.                                                       *)
(***************************************************************************)
EXTENDS Pool

CONSTANTS Sender, MaxReq, chanSize, MaxBreaks   \* of the client

VARIABLE part   \* which part the behaviour is about

VARIABLES status, spc, sent, result, pending, waiting, conn, writer, reader, closer, breaks, crossed,
          panicked

Cli == INSTANCE Client WITH pc <- spc

ASSUME ClientAssumption == Cli!Bounds

cliVars == <<status, spc, sent, result, pending, waiting, conn, writer, reader, closer, breaks, crossed,
             panicked>>

PeersVars == <<part, vars, cliVars>>

-----------------------------------------------------------------------------
PeersInit ==
    /\ part \in {"pool", "client"}
    /\ Init
    /\ Cli!Init

PeersNext ==
    \/ /\ part = "pool" /\ Next
       /\ UNCHANGED <<part, cliVars>>
    \/ /\ part = "client" /\ Cli!Next
       /\ UNCHANGED <<part, vars>>

\* A part at rest is fair: nothing of it has begun, so that nothing that has to
\* go on is enabled.
PeersSpec == PeersInit /\ [][PeersNext]_PeersVars /\ Fairness /\ Cli!Fairness

-----------------------------------------------------------------------------
\* The pool of clients (pool.go): an object is never with two borrowers, nor with
\* a borrower and idle, nor closed while borrowed; and maxActive bounds the
\* objects in use, in the width of the counter.
PoolSound == part = "pool" => Exclusive /\ WithinLimit

\* The pipelined client (client.go): a reply goes to the request it answers, unless
\* the connection was replaced between the write and the queueing of a request.
RepliesMatch == part = "client" => Cli!RepliesMatch

\* Nothing waits for ever: a borrower that waits is handed an object (Put, getOnNoIdle);
\* a request is answered or times out, and Close ends (doRequest, Close).
Served == WaitersServed /\ Cli!SendAndCloseReturn
=============================================================================
