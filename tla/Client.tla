-------------------------------- MODULE Client --------------------------------
(***************************************************************************)
(* The pipelining client of redis/client, which cluster nodes and slaves   *)
(* use to talk to their peers.  A writer goroutine sends the requests of   *)
(* pendingReqs and queues them in waitingReqs; a reader goroutine gives    *)
(* the replies of the connection to the requests of waitingReqs in turn.   *)
(* When the connection breaks the reader dials again, fails the requests   *)
(* that wait and replaces the channel; Close stops everything.             *)
(***************************************************************************)
EXTENDS Integers, Sequences, FiniteSets, Functions

CONSTANTS Sender,   \* goroutines in Send, the heartbeat among them
          MaxReq,   \* bound on the requests of each
          chanSize,
          MaxBreaks \* bound on the broken connections

Request == Sender \X (1 .. MaxReq)
None == <<>>
Error == <<"error", 0>>

VARIABLES status,   \* of the client
          pc, sent, \* per sender: where it is, and the requests it has made
          result,   \* per request: what finished it
          pending,  \* pendingReqs: its elements and whether it is closed
          waiting,  \* waitingReqs: the same, and the connections it has seen
          conn,     \* the connection: whether the peer is there, whether it is
                    \* closed on this side, and what travels on it
          writer, reader, closer,
          breaks,
          crossed,  \* whether a reconnection came between a write and its queueing
          panicked  \* a send on a closed channel, or a second close

vars == <<status, pc, sent, result, pending, waiting, conn, writer, reader, closer, breaks, crossed, panicked>>
senders == <<pc, sent>>
channels == <<pending, waiting>>
threads == <<writer, reader, closer>>

Chan(n) == [buf |-> <<>>, closed |-> FALSE, gen |-> n]
Conn(n) == [up |-> TRUE, closed |-> FALSE, gen |-> n, in |-> <<>>, out |-> <<>>]
Working == Cardinality({s \in Sender : pc[s] # "idle"})
Current(s) == <<s, sent[s]>>

\* A panic in a goroutine without recover ends the process.
Panic == panicked' = TRUE /\ UNCHANGED <<status, senders, result, channels, conn, threads, breaks, crossed>>

-----------------------------------------------------------------------------
(* Send and doHeartbeat *)

SendStart(s) ==
    /\ pc[s] = "idle" /\ sent[s] < MaxReq /\ status = "running"
    /\ pc' = [pc EXCEPT ![s] = "push"]
    /\ sent' = [sent EXCEPT ![s] = @ + 1]
    /\ UNCHANGED <<status, result, channels, conn, threads, breaks, crossed, panicked>>

Push(s) ==
    /\ pc[s] = "push"
    /\ \/ pending.closed /\ Panic
       \/ /\ ~pending.closed /\ Len(pending.buf) < chanSize
          /\ pending' = [pending EXCEPT !.buf = Append(@, Current(s))]
          /\ pc' = [pc EXCEPT ![s] = "wait"]
          /\ UNCHANGED <<status, sent, result, waiting, conn, threads, breaks, crossed, panicked>>

\* The request is finished, or maxWait has passed.
SendReturns(s) ==
    /\ pc[s] = "wait" /\ result[Current(s)] # None
    /\ pc' = [pc EXCEPT ![s] = "idle"]
    /\ UNCHANGED <<status, sent, result, channels, conn, threads, breaks, crossed, panicked>>

\* Variant: Wait instead of WaitWithTimeout.
Timeout_Never(s) == FALSE /\ UNCHANGED vars

Timeout(s) ==
    /\ pc[s] = "wait" /\ result[Current(s)] = None
    /\ pc' = [pc EXCEPT ![s] = "idle"]
    /\ UNCHANGED <<status, sent, result, channels, conn, threads, breaks, crossed, panicked>>

-----------------------------------------------------------------------------
(* handleWrite and doRequest *)

TakePending ==
    /\ writer.pc = "take" /\ pending.buf # <<>>
    /\ writer' = [pc |-> "write", req |-> Head(pending.buf), gen |-> 0]
    /\ pending' = [pending EXCEPT !.buf = Tail(@)]
    /\ UNCHANGED <<status, senders, result, waiting, conn, reader, closer, breaks, crossed, panicked>>

\* A write to a peer that has gone may succeed; one to a connection closed on
\* this side fails.
Write ==
    /\ writer.pc = "write"
    /\ \/ /\ ~conn.closed
          /\ conn' = IF conn.up THEN [conn EXCEPT !.in = Append(@, writer.req)] ELSE conn
          /\ writer' = [writer EXCEPT !.pc = "queue", !.gen = conn.gen]
          /\ UNCHANGED result
       \/ /\ conn.closed \/ ~conn.up
          /\ result' = [result EXCEPT ![writer.req] = Append(@, Error)]
          /\ writer' = [pc |-> "take", req |-> None, gen |-> 0]
          /\ UNCHANGED conn
    /\ UNCHANGED <<status, senders, channels, reader, closer, breaks, crossed, panicked>>

Queue ==
    /\ writer.pc = "queue"
    /\ \/ waiting.closed /\ Panic
       \/ /\ ~waiting.closed /\ Len(waiting.buf) < chanSize
          /\ waiting' = [waiting EXCEPT !.buf = Append(@, writer.req)]
          /\ crossed' = (crossed \/ waiting.gen # writer.gen)
          /\ writer' = [pc |-> "take", req |-> None, gen |-> 0]
          /\ UNCHANGED <<status, senders, result, pending, conn, reader, closer, breaks, panicked>>

-----------------------------------------------------------------------------
(* The peer and the network *)

Answer ==
    /\ conn.up /\ ~conn.closed /\ conn.in # <<>>
    /\ conn' = [conn EXCEPT !.in = Tail(@), !.out = Append(@, Head(conn.in))]
    /\ UNCHANGED <<status, senders, result, channels, threads, breaks, crossed, panicked>>

Break ==
    /\ conn.up /\ ~conn.closed /\ breaks < MaxBreaks
    /\ conn' = [conn EXCEPT !.up = FALSE, !.in = <<>>]
    /\ breaks' = breaks + 1
    /\ UNCHANGED <<status, senders, result, channels, threads, crossed, panicked>>

-----------------------------------------------------------------------------
(* handleRead *)

Read ==
    /\ reader.pc = "read" /\ conn.out # <<>> /\ ~conn.closed
    /\ reader' = [pc |-> "finish", reply |-> Head(conn.out)]
    /\ conn' = [conn EXCEPT !.out = Tail(@)]
    /\ UNCHANGED <<status, senders, result, channels, writer, closer, breaks, crossed, panicked>>

\* The head of waitingReqs gets the reply; a closed channel yields nil.
finishRequest ==
    /\ reader.pc = "finish"
    /\ \/ /\ waiting.buf # <<>>
          /\ result' = [result EXCEPT ![Head(waiting.buf)] = Append(@, reader.reply)]
          /\ waiting' = [waiting EXCEPT !.buf = Tail(@)]
       \/ /\ waiting.buf = <<>> /\ waiting.closed
          /\ UNCHANGED <<result, waiting>>
    /\ reader' = [pc |-> "read", reply |-> None]
    /\ UNCHANGED <<status, senders, pending, conn, writer, closer, breaks, crossed, panicked>>

\* The read fails: after Close the reader ends, else it reconnects.
ReadError ==
    /\ reader.pc = "read" /\ (conn.closed \/ (~conn.up /\ conn.out = <<>>))
    /\ reader' = [reader EXCEPT !.pc = IF status = "closed" THEN "ended" ELSE "dial"]
    /\ conn' = [conn EXCEPT !.closed = @ \/ status # "closed", !.out = <<>>]
    /\ UNCHANGED <<status, senders, result, channels, writer, closer, breaks, crossed, panicked>>

Dial ==
    /\ reader.pc = "dial"
    /\ \/ /\ conn' = Conn(conn.gen + 1)
          /\ reader' = [reader EXCEPT !.pc = "fail"]
       \/ /\ reader' = [reader EXCEPT !.pc = "close"]
          /\ UNCHANGED conn
    /\ UNCHANGED <<status, senders, result, channels, writer, closer, breaks, crossed, panicked>>

\* Variant: the requests that wait stay in the channel.
FailWaiting_Keeps ==
    /\ reader.pc = "fail"
    /\ waiting' = [waiting EXCEPT !.gen = @ + 1]
    /\ reader' = [reader EXCEPT !.pc = "read"]
    /\ UNCHANGED <<status, senders, result, pending, conn, writer, closer, breaks, crossed, panicked>>

\* close(waitingReqs), and the loop that fails the requests in it.
FailWaiting ==
    /\ reader.pc = "fail"
    /\ \/ waiting.closed /\ Panic
       \/ /\ ~waiting.closed
          /\ waiting' = [waiting EXCEPT !.closed = TRUE, !.buf = <<>>]
          /\ result' = [q \in Request |-> IF q \in Range(waiting.buf) THEN Append(result[q], Error)
                                          ELSE result[q]]
          /\ reader' = [reader EXCEPT !.pc = "replace"]
          /\ UNCHANGED <<status, senders, pending, conn, writer, closer, breaks, crossed, panicked>>

ReplaceWaiting ==
    /\ reader.pc = "replace"
    /\ waiting' = Chan(waiting.gen + 1)
    /\ reader' = [reader EXCEPT !.pc = "read"]
    /\ UNCHANGED <<status, senders, result, pending, conn, writer, closer, breaks, crossed, panicked>>

-----------------------------------------------------------------------------
(* Close, by the owner of the client or by a reader that cannot reconnect *)

StopRequests(thread, next) ==
    \/ pending.closed /\ Panic
    \/ /\ ~pending.closed
       /\ status' = "closed"
       /\ pending' = [pending EXCEPT !.closed = TRUE]
       /\ thread
       /\ UNCHANGED <<senders, result, waiting, conn, writer, next, breaks, crossed, panicked>>

\* Once no request is working the connection and waitingReqs are closed.
Clean(thread, next) ==
    /\ Working = 0
    /\ \/ waiting.closed /\ Panic
       \/ /\ ~waiting.closed
          /\ conn' = [conn EXCEPT !.closed = TRUE, !.in = <<>>, !.out = <<>>]
          /\ waiting' = [waiting EXCEPT !.closed = TRUE]
          /\ thread
          /\ UNCHANGED <<status, senders, result, pending, writer, next, breaks, crossed, panicked>>

Close == closer = "none" /\ StopRequests(closer' = "wait", reader)
CloseEnd == closer = "wait" /\ Clean(closer' = "done", reader)
ReaderClose == reader.pc = "close" /\ StopRequests(reader' = [reader EXCEPT !.pc = "wait"], closer)
ReaderCloseEnd == reader.pc = "wait" /\ Clean(reader' = [reader EXCEPT !.pc = "ended"], closer)

-----------------------------------------------------------------------------
Init ==
    /\ status = "running"
    /\ pc = [s \in Sender |-> "idle"] /\ sent = [s \in Sender |-> 0]
    /\ result = [q \in Request |-> None]
    /\ pending = Chan(0) /\ waiting = Chan(0) /\ conn = Conn(0)
    /\ writer = [pc |-> "take", req |-> None, gen |-> 0]
    /\ reader = [pc |-> "read", reply |-> None]
    /\ closer = "none" /\ breaks = 0 /\ crossed = FALSE /\ panicked = FALSE

Send(s) == Push(s) \/ SendReturns(s) \/ Timeout(s)
handleWrite == TakePending \/ Write \/ Queue
reconnect == Dial \/ FailWaiting \/ ReplaceWaiting \/ ReaderClose \/ ReaderCloseEnd
handleRead == Read \/ finishRequest \/ ReadError \/ reconnect

Next ==
    /\ ~panicked
    /\ \/ \E s \in Sender : SendStart(s) \/ Send(s)
       \/ handleWrite \/ handleRead
       \/ Answer \/ Break
       \/ Close \/ CloseEnd

\* Every goroutine goes on, and a peer that is there answers in the end.
Fairness ==
    /\ \A s \in Sender : WF_vars(~panicked /\ Send(s))
    /\ WF_vars(~panicked /\ handleWrite)
    /\ WF_vars(~panicked /\ handleRead)
    /\ WF_vars(~panicked /\ CloseEnd)
    /\ WF_vars(~panicked /\ Answer)

Spec == Init /\ [][Next]_vars /\ Fairness

-----------------------------------------------------------------------------
TypeOK ==
    /\ Len(pending.buf) <= chanSize /\ Len(waiting.buf) <= chanSize
    /\ \A s \in Sender : sent[s] \in 0 .. MaxReq
    /\ IsInjective(waiting.buf)

\* A request is finished once, by its own reply or by an error: a reply that comes
\* after its Send has given up, or around a reconnection, is not taken for the
\* reply to the next request; unless the reconnection came between the write of a
\* request and its queueing.
RepliesMatch ==
    /\ TypeOK
    /\ ~crossed => \A q \in Request : result[q] \in {None, <<q>>, <<Error>>}

\* Send and Close return, whatever becomes of the connection, and neither waits
\* for a channel that nobody serves any more; or the process has panicked.
SendAndCloseReturn ==
    /\ \A s \in Sender : pc[s] # "idle" ~> pc[s] = "idle" \/ panicked
    /\ closer = "wait" ~> closer = "done" \/ panicked

-----------------------------------------------------------------------------
(* The strengthening of RepliesMatch that the steps preserve *)

Channel == [buf : Seq(Request), closed : BOOLEAN, gen : Nat]
Connection == [up : BOOLEAN, closed : BOOLEAN, gen : Nat, in : Seq(Request), out : Seq(Request)]
Writer == [pc : {"take", "write", "queue"}, req : Request \cup {None}, gen : Nat]
Reader == [pc : {"read", "finish", "dial", "fail", "replace", "close", "wait", "ended"},
           reply : Request \cup {None}]

Bounds == MaxReq \in Nat /\ chanSize \in Nat

ClientType ==
    /\ Bounds
    /\ status \in {"running", "closed"}
    /\ pc \in [Sender -> {"idle", "push", "wait"}] /\ sent \in [Sender -> 0 .. MaxReq]
    /\ result \in [Request -> Seq(Request \cup {Error})]
    /\ pending \in Channel /\ waiting \in Channel /\ conn \in Connection
    /\ writer \in Writer /\ reader \in Reader
    /\ crossed \in BOOLEAN
    /\ writer.pc # "take" => writer.req \in Request
    /\ reader.pc = "finish" => reader.reply \in Request
    /\ \A s \in Sender : pc[s] = "push" => sent[s] # 0
    /\ Len(pending.buf) <= chanSize /\ Len(waiting.buf) <= chanSize

\* Where a request is: in pendingReqs, with the writer or in waitingReqs.  It is
\* in one of them only, once, and not finished.
Underway(q) == q \in Range(pending.buf) \/ q \in Range(waiting.buf) \/ (writer.pc # "take" /\ q = writer.req)

Begun(q) == q[2] < sent[q[1]] \/ (q[2] = sent[q[1]] /\ pc[q[1]] # "push")

Once ==
    /\ IsInjective(pending.buf) /\ IsInjective(waiting.buf)
    /\ \A q \in Range(pending.buf) : q \notin Range(waiting.buf)
    /\ writer.pc # "take" => writer.req \notin Range(pending.buf) /\ writer.req \notin Range(waiting.buf)
    /\ \A q \in Request :
         /\ Underway(q) => Begun(q) /\ result[q] = None
         /\ ~Begun(q) => result[q] = None

\* A reconnection is between a new connection and a new waitingReqs; what was sent
\* on a connection is lost with it; and waitingReqs is closed after the connection.
Connected ==
    /\ conn.gen = IF reader.pc \in {"fail", "replace"} THEN waiting.gen + 1 ELSE waiting.gen
    /\ writer.pc = "queue" => writer.gen <= conn.gen
    /\ ~conn.up \/ conn.closed => conn.in = <<>>
    /\ conn.closed => conn.out = <<>>
    /\ reader.pc = "dial" => conn.closed
    /\ waiting.closed /\ reader.pc \notin {"fail", "replace"} => conn.closed

\* The requests that were queued for this connection, and the one that was written
\* and is not yet; and the replies the connection is to give.
Expected ==
    (IF waiting.gen = conn.gen THEN waiting.buf ELSE <<>>)
      \o (IF writer.pc = "queue" /\ writer.gen = conn.gen THEN <<writer.req>> ELSE <<>>)

Replies == (IF reader.pc = "finish" THEN <<reader.reply>> ELSE <<>>) \o conn.out \o conn.in

\* The replies are to the first of these requests, in their order; to all of them
\* as long as the connection is whole.
InOrder ==
    ~crossed =>
      /\ Len(Replies) <= Len(Expected)
      /\ conn.up /\ ~conn.closed => Len(Replies) = Len(Expected)
      /\ \A i \in 1 .. Len(Replies) : Replies[i] = Expected[i]

Matched == ~crossed => \A q \in Request : result[q] \in {None, <<q>>, <<Error>>}

ClientInv == ClientType /\ Once /\ Connected /\ InOrder /\ Matched
=============================================================================
