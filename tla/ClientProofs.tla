---------------------------- MODULE ClientProofs ----------------------------
(***************************************************************************)
(* Proof that a reply of the pipelined client goes to the request it       *)
(* answers (RepliesMatch), for any number of senders, requests and breaks  *)
(* of the connection and any size of the channels.  The invariant that the *)
(* steps preserve, ClientInv, says where a request is until it is finished *)
(* (Once), how the generations of connection and channel follow each other *)
(* (Connected), and that the replies a connection is still to give are to  *)
(* the requests that wait, in their order (InOrder).                       *)
(***************************************************************************)
EXTENDS Client, TLAPS

-----------------------------------------------------------------------------
(* Sequences *)

\* An element is taken from the front of a channel.
LEMMA Received ==
    ASSUME NEW S, NEW s \in Seq(S), s # <<>>
    PROVE  /\ Head(s) \in S /\ Tail(s) \in Seq(S) /\ Len(Tail(s)) = Len(s) - 1 /\ Len(s) \in Nat
           /\ Range(s) = Range(Tail(s)) \cup {Head(s)}
           /\ IsInjective(s) => IsInjective(Tail(s)) /\ Head(s) \notin Range(Tail(s))
  <1>1. Head(s) = s[1] /\ Head(s) \in S /\ Tail(s) \in Seq(S) /\ Len(Tail(s)) = Len(s) - 1 /\ Len(s) \in Nat \ {0}
    OBVIOUS
  <1>2. \A i \in 1 .. Len(s) - 1 : Tail(s)[i] = s[i + 1]
    OBVIOUS
  <1>3. DOMAIN s = 1 .. Len(s) /\ DOMAIN Tail(s) = 1 .. Len(s) - 1
    OBVIOUS
  <1>4. ASSUME NEW x PROVE x \in Range(s) <=> x \in Range(Tail(s)) \/ x = Head(s)
    <2>1. ASSUME NEW i \in 1 .. Len(s) PROVE i = 1 \/ (i - 1 \in 1 .. Len(s) - 1 /\ s[i] = Tail(s)[i - 1])
      BY <1>1, <1>2
    <2>2. 1 \in 1 .. Len(s) /\ \A i \in 1 .. Len(s) - 1 : i + 1 \in 1 .. Len(s)
      BY <1>1
    <2>3. ASSUME x \in Range(s) PROVE x \in Range(Tail(s)) \/ x = Head(s)
      BY <1>1, <1>3, <2>1, <2>3 DEF Range
    <2>4. ASSUME x \in Range(Tail(s)) \/ x = Head(s) PROVE x \in Range(s)
      BY <1>1, <1>2, <1>3, <2>2, <2>4 DEF Range
    <2> QED
      BY <2>3, <2>4
  <1>5. ASSUME IsInjective(s) PROVE IsInjective(Tail(s)) /\ Head(s) \notin Range(Tail(s))
    BY <1>1, <1>2, <1>3, <1>5 DEF IsInjective, Range
  <1> QED
    BY <1>1, <1>4, <1>5

\* An element is sent to the back of a channel.
LEMMA Sent ==
    ASSUME NEW S, NEW s \in Seq(S), NEW e \in S
    PROVE  /\ Append(s, e) \in Seq(S) /\ Len(Append(s, e)) = Len(s) + 1 /\ Len(s) \in Nat
           /\ Range(Append(s, e)) = Range(s) \cup {e}
           /\ IsInjective(s) /\ e \notin Range(s) => IsInjective(Append(s, e))
  <1>1. Append(s, e) \in Seq(S) /\ Len(Append(s, e)) = Len(s) + 1 /\ Len(s) \in Nat
    OBVIOUS
  <1>2. Append(s, e)[Len(s) + 1] = e /\ \A i \in 1 .. Len(s) : Append(s, e)[i] = s[i]
    OBVIOUS
  <1>3. DOMAIN s = 1 .. Len(s) /\ DOMAIN Append(s, e) = 1 .. Len(s) + 1
    OBVIOUS
  <1>4. ASSUME NEW x PROVE x \in Range(Append(s, e)) <=> x \in Range(s) \/ x = e
    <2>1. Len(s) + 1 \in 1 .. Len(s) + 1 /\ \A i \in 1 .. Len(s) + 1 : i \in 1 .. Len(s) \/ i = Len(s) + 1
      BY <1>1
    <2>2. \A i \in 1 .. Len(s) : i \in 1 .. Len(s) + 1
      BY <1>1
    <2> QED
      BY <1>2, <1>3, <2>1, <2>2 DEF Range
  <1>5. ASSUME IsInjective(s), e \notin Range(s) PROVE IsInjective(Append(s, e))
    BY <1>1, <1>2, <1>3, <1>5 DEF IsInjective, Range
  <1> QED
    BY <1>1, <1>4, <1>5

\* What a channel holds is of its type.
LEMMA InSeq ==
    ASSUME NEW S, NEW s \in Seq(S)
    PROVE  Range(s) \subseteq S
  BY DEF Range

\* A length is a natural number.
LEMMA Lengths ==
    ASSUME NEW S, NEW s \in Seq(S)
    PROVE  Len(s) \in Nat
  OBVIOUS

\* Two sequences in a row.
LEMMA TwoParts ==
    ASSUME NEW S, NEW s \in Seq(S), NEW t \in Seq(S)
    PROVE  /\ s \o t \in Seq(S) /\ Len(s \o t) = Len(s) + Len(t) /\ Len(s) \in Nat /\ Len(t) \in Nat
           /\ \A i \in 1 .. Len(s) : (s \o t)[i] = s[i]
           /\ \A i \in 1 .. Len(t) : (s \o t)[Len(s) + i] = t[i]
  OBVIOUS

\* Sequences with the same elements are equal.
LEMMA SameElements ==
    ASSUME NEW S, NEW s \in Seq(S), NEW t \in Seq(S), Len(s) = Len(t),
           \A i \in 1 .. Len(s) : s[i] = t[i]
    PROVE  s = t
  <1>1. s \in [1 .. Len(s) -> S] /\ t \in [1 .. Len(s) -> S]
    OBVIOUS
  <1> QED
    BY <1>1

\* The empty sequence adds nothing.
LEMMA EmptyEnds ==
    ASSUME NEW S, NEW s \in Seq(S)
    PROVE  s \o <<>> = s /\ <<>> \o s = s
  OBVIOUS

\* A send is a concatenation.
LEMMA AppendJoins ==
    ASSUME NEW S, NEW s \in Seq(S), NEW x \in S
    PROVE  Append(s, x) = s \o <<x>>
  OBVIOUS

\* Three sequences in a row.
LEMMA ThreeParts ==
    ASSUME NEW S, NEW s \in Seq(S), NEW t \in Seq(S), NEW u \in Seq(S)
    PROVE  /\ s \o t \o u \in Seq(S) /\ Len(s \o t \o u) = Len(s) + Len(t) + Len(u)
           /\ Len(s) \in Nat /\ Len(t) \in Nat /\ Len(u) \in Nat
           /\ \A i \in 1 .. Len(s) : (s \o t \o u)[i] = s[i]
           /\ \A i \in 1 .. Len(t) : (s \o t \o u)[Len(s) + i] = t[i]
           /\ \A i \in 1 .. Len(u) : (s \o t \o u)[Len(s) + Len(t) + i] = u[i]
  <1>1. /\ s \o t \in Seq(S) /\ Len(s \o t) = Len(s) + Len(t) /\ Len(s) \in Nat /\ Len(t) \in Nat
        /\ \A i \in 1 .. Len(s) : (s \o t)[i] = s[i] /\ i \in 1 .. Len(s \o t)
        /\ \A i \in 1 .. Len(t) : (s \o t)[Len(s) + i] = t[i] /\ Len(s) + i \in 1 .. Len(s \o t)
    BY TwoParts
  <1>2. /\ s \o t \o u \in Seq(S) /\ Len(s \o t \o u) = Len(s \o t) + Len(u) /\ Len(u) \in Nat
        /\ \A i \in 1 .. Len(s \o t) : (s \o t \o u)[i] = (s \o t)[i]
        /\ \A i \in 1 .. Len(u) : (s \o t \o u)[Len(s \o t) + i] = u[i]
    BY <1>1, TwoParts
  <1> QED
    BY <1>1, <1>2

\* Concatenation is associative.
LEMMA Associative ==
    ASSUME NEW S, NEW s \in Seq(S), NEW t \in Seq(S), NEW u \in Seq(S)
    PROVE  (s \o t) \o u = s \o (t \o u)
  <1> DEFINE l == (s \o t) \o u
             r == s \o (t \o u)
  <1>1. l \in Seq(S) /\ r \in Seq(S) /\ Len(l) = Len(r)
    OBVIOUS
  <1>2. \A i \in 1 .. Len(l) : l[i] = r[i]
    OBVIOUS
  <1> HIDE DEF l, r
  <1>3. l = r
    BY <1>1, <1>2, SameElements
  <1> QED
    BY <1>3 DEF l, r

-----------------------------------------------------------------------------
(* Types *)

\* The bounds are natural numbers.
LEMMA BoundsHold ==
    ASSUME ClientType
    PROVE  MaxReq \in Nat /\ chanSize \in Nat
  BY DEF ClientType, Bounds

\* A channel that an element is sent to or taken from, or that is closed.
WithBuf(c, s) == [c EXCEPT !.buf = s]
Shut(c) == [c EXCEPT !.closed = TRUE]

\* A send, a receive and a close each change one field of a channel.
LEMMA ChannelType ==
    ASSUME NEW c \in Channel, NEW s \in Seq(Request)
    PROVE  /\ WithBuf(c, s) \in Channel /\ WithBuf(c, s).buf = s
           /\ WithBuf(c, s).closed = c.closed /\ WithBuf(c, s).gen = c.gen
           /\ Shut(c) \in Channel /\ Shut(c).buf = c.buf /\ Shut(c).closed /\ Shut(c).gen = c.gen
           /\ c.buf \in Seq(Request) /\ c.closed \in BOOLEAN /\ c.gen \in Nat
  BY DEF Channel, WithBuf, Shut

\* A new channel and a new connection are empty and open.
LEMMA ChanType ==
    ASSUME NEW n \in Nat
    PROVE  /\ Chan(n) \in Channel /\ Chan(n).buf = <<>> /\ ~Chan(n).closed /\ Chan(n).gen = n
           /\ Conn(n) \in Connection /\ Conn(n).in = <<>> /\ Conn(n).out = <<>> /\ Conn(n).gen = n
           /\ Conn(n).up /\ ~Conn(n).closed
  BY DEF Channel, Chan, Connection, Conn

-----------------------------------------------------------------------------
(* What is expected of the connection and what it gives *)

QueuedIn(w, c) == IF w.gen = c.gen THEN w.buf ELSE <<>>
WrittenBy(x, c) == IF x.pc = "queue" /\ x.gen = c.gen THEN <<x.req>> ELSE <<>>
ReadBy(r) == IF r.pc = "finish" THEN <<r.reply>> ELSE <<>>

\* The requests a connection owes a reply, in parts.
LEMMA ExpectedIs == Expected = QueuedIn(waiting, conn) \o WrittenBy(writer, conn)
  BY DEF Expected, QueuedIn, WrittenBy

\* The replies of a connection, in parts.
LEMMA RepliesAre == Replies = ReadBy(reader) \o conn.out \o conn.in
  BY DEF Replies, ReadBy

-----------------------------------------------------------------------------
(* What the operations do to the parts *)

\* The fields that the invariants speak of have their types.
LEMMA Fields ==
    ASSUME ClientType
    PROVE  /\ pending.buf \in Seq(Request) /\ pending.closed \in BOOLEAN
           /\ waiting.buf \in Seq(Request) /\ waiting.closed \in BOOLEAN /\ waiting.gen \in Nat
           /\ conn.in \in Seq(Request) /\ conn.out \in Seq(Request)
           /\ conn.up \in BOOLEAN /\ conn.closed \in BOOLEAN /\ conn.gen \in Nat
           /\ writer.gen \in Nat
  BY DEF ClientType, Channel, Connection, Writer

\* Send outside the channel changes the state of its sender only.
LEMMA SendTypes ==
    ASSUME ClientType, NEW s \in Sender, SendStart(s) \/ SendReturns(s) \/ Timeout(s)
    PROVE  ClientType'
  <1>1. /\ pc' \in [Sender -> {"idle", "push", "wait"}] /\ sent' \in [Sender -> 0 .. MaxReq]
        /\ \A x \in Sender : pc'[x] = "push" => sent'[x] # 0
    <2>1. CASE SendStart(s)
      <3>1. sent[s] \in 0 .. MaxReq /\ sent[s] + 1 \in 0 .. MaxReq /\ sent[s] + 1 # 0
        BY <2>1, BoundsHold DEF ClientType, SendStart
      <3>2. /\ pc' = [pc EXCEPT ![s] = "push"] /\ sent' = [sent EXCEPT ![s] = sent[s] + 1]
        BY <2>1 DEF SendStart
      <3> QED
        BY <3>1, <3>2 DEF ClientType
    <2>2. CASE SendReturns(s) \/ Timeout(s)
      <3>1. pc' = [pc EXCEPT ![s] = "idle"] /\ sent' = sent
        BY <2>2 DEF SendReturns, Timeout
      <3> QED
        BY <3>1 DEF ClientType
    <2> QED
      BY <2>1, <2>2
  <1>2. UNCHANGED <<status, result, channels, conn, threads, breaks, crossed>>
    BY DEF SendStart, SendReturns, Timeout
  <1> QED
    BY <1>1, <1>2 DEF ClientType, channels, threads

\* Send puts its request at the end of pendingReqs.
LEMMA PushEffect ==
    ASSUME ClientType, NEW s \in Sender, Push(s), ~Panic
    PROVE  /\ Current(s) \in Request /\ pc[s] = "push" /\ pc' = [pc EXCEPT ![s] = "wait"]
           /\ pending'.buf = Append(pending.buf, Current(s))
           /\ UNCHANGED <<status, sent, result, waiting, conn, writer, reader, crossed>>
           /\ ClientType'
  <1>1. /\ pc[s] = "push" /\ Len(pending.buf) < chanSize
        /\ pending' = WithBuf(pending, Append(pending.buf, Current(s)))
        /\ pc' = [pc EXCEPT ![s] = "wait"]
        /\ UNCHANGED <<status, sent, result, waiting, conn, writer, reader, crossed>>
    BY DEF Push, WithBuf, threads
  <1>2. Current(s) \in Request
    BY <1>1, BoundsHold DEF ClientType, Current, Request
  <1>3. Append(pending.buf, Current(s)) \in Seq(Request)
    BY <1>2, Fields, Sent
  <1>4. pending' \in Channel /\ pending'.buf = Append(pending.buf, Current(s))
    <2>1. pending \in Channel
      BY DEF ClientType
    <2> DEFINE new == Append(pending.buf, Current(s))
    <2>2. pending' = WithBuf(pending, new) /\ new \in Seq(Request)
      BY <1>1, <1>3
    <2> HIDE DEF new
    <2>3. /\ pending' \in Channel /\ pending'.buf = new
          /\ pending'.gen = pending.gen /\ pending'.closed = pending.closed
      BY <2>1, <2>2, ChannelType
    <2> QED
      BY <2>3 DEF new
  <1>5. Len(pending'.buf) <= chanSize
    BY <1>1, <1>2, <1>4, Fields, Sent, BoundsHold
  <1>6. /\ pc' \in [Sender -> {"idle", "push", "wait"}]
        /\ \A x \in Sender : pc'[x] = "push" => sent'[x] # 0
    BY <1>1 DEF ClientType
  <1> QED
    BY <1>1, <1>2, <1>4, <1>5, <1>6 DEF ClientType

\* handleWrite takes the first request of pendingReqs.
LEMMA TakePendingEffect ==
    ASSUME ClientType, TakePending
    PROVE  /\ pending.buf # <<>> /\ writer.pc = "take"
           /\ pending'.buf = Tail(pending.buf)
           /\ writer'.pc = "write" /\ writer'.req = Head(pending.buf)
           /\ UNCHANGED <<status, pc, sent, result, waiting, conn, reader, crossed>>
           /\ ClientType'
  <1>1. /\ pending.buf # <<>> /\ writer.pc = "take" /\ pending' = WithBuf(pending, Tail(pending.buf))
        /\ writer' = [pc |-> "write", req |-> Head(pending.buf), gen |-> 0]
        /\ UNCHANGED <<status, pc, sent, result, waiting, conn, reader, crossed>>
    BY DEF TakePending, WithBuf, senders
  <1>2. Head(pending.buf) \in Request /\ Tail(pending.buf) \in Seq(Request)
        /\ Len(Tail(pending.buf)) = Len(pending.buf) - 1 /\ Len(pending.buf) \in Nat
    BY <1>1, Fields, Received
  <1>3. pending' \in Channel /\ pending'.buf = Tail(pending.buf)
    <2> DEFINE new == Tail(pending.buf)
    <2>1. pending' = WithBuf(pending, new) /\ new \in Seq(Request) /\ pending \in Channel
      BY <1>1, <1>2 DEF ClientType
    <2> HIDE DEF new
    <2>2. pending' \in Channel /\ pending'.buf = new
      BY <2>1, ChannelType
    <2> QED
      BY <2>2 DEF new
  <1>4. writer' \in Writer /\ writer'.pc = "write" /\ writer'.req = Head(pending.buf)
    BY <1>1, <1>2 DEF Writer
  <1>5. Len(pending'.buf) <= chanSize
    BY <1>2, <1>3, BoundsHold DEF ClientType
  <1> QED
    BY <1>1, <1>2, <1>3, <1>4, <1>5 DEF ClientType

\* A write that succeeds, and one that fails.
Written ==
    /\ writer.pc = "write" /\ ~conn.closed
    /\ conn' = IF conn.up THEN [conn EXCEPT !.in = Append(@, writer.req)] ELSE conn
    /\ writer' = [writer EXCEPT !.pc = "queue", !.gen = conn.gen]
    /\ UNCHANGED <<result, status, senders, channels, reader, closer, breaks, crossed, panicked>>

NotWritten ==
    /\ writer.pc = "write" /\ (conn.closed \/ ~conn.up)
    /\ result' = [result EXCEPT ![writer.req] = Append(@, Error)]
    /\ writer' = [pc |-> "take", req |-> None, gen |-> 0]
    /\ UNCHANGED <<conn, status, senders, channels, reader, closer, breaks, crossed, panicked>>

\* doRequest writes the request, or fails it.
LEMMA WriteCases == Write => Written \/ NotWritten
  BY DEF Write, Written, NotWritten

\* A write sends the request on a connection that is there.
LEMMA WrittenEffect ==
    ASSUME ClientType, Written
    PROVE  /\ writer.pc = "write" /\ writer.req \in Request /\ ~conn.closed
           /\ conn'.in = (IF conn.up THEN Append(conn.in, writer.req) ELSE conn.in)
           /\ conn'.out = conn.out /\ conn'.up = conn.up /\ conn'.closed = conn.closed
           /\ conn'.gen = conn.gen
           /\ writer'.pc = "queue" /\ writer'.req = writer.req /\ writer'.gen = conn.gen
           /\ UNCHANGED <<status, pc, sent, result, pending, waiting, reader, crossed>>
           /\ ClientType'
  <1>1. /\ writer.pc = "write" /\ ~conn.closed
        /\ UNCHANGED <<status, pc, sent, result, pending, waiting, reader, crossed>>
    BY DEF Written, senders, channels
  <1>2. writer.req \in Request
    BY <1>1 DEF ClientType
  <1>3. writer' \in Writer /\ writer'.pc = "queue" /\ writer'.req = writer.req /\ writer'.gen = conn.gen
    <2>1. writer' \in Writer
      BY Fields DEF ClientType, Writer, Written
    <2> QED
      BY <2>1 DEF ClientType, Writer, Written
  <1>4. Append(conn.in, writer.req) \in Seq(Request)
    BY <1>2, Fields, Sent
  <1>5. /\ conn' \in Connection
        /\ conn'.in = (IF conn.up THEN Append(conn.in, writer.req) ELSE conn.in)
        /\ conn'.out = conn.out /\ conn'.up = conn.up /\ conn'.closed = conn.closed
        /\ conn'.gen = conn.gen
    BY <1>4 DEF ClientType, Connection, Written
  <1> QED
    BY <1>1, <1>2, <1>3, <1>5 DEF ClientType

\* A write that fails finishes the request with the error.
LEMMA NotWrittenEffect ==
    ASSUME ClientType, NotWritten
    PROVE  /\ writer.req \in Request /\ writer.pc = "write" /\ writer'.pc = "take"
           /\ result' = [result EXCEPT ![writer.req] = Append(@, Error)]
           /\ UNCHANGED <<status, pc, sent, conn, pending, waiting, reader, crossed>>
           /\ ClientType'
  <1>1. /\ writer.pc = "write"
        /\ result' = [result EXCEPT ![writer.req] = Append(@, Error)]
        /\ UNCHANGED <<status, pc, sent, conn, pending, waiting, reader, crossed>>
    BY DEF NotWritten, senders, channels
  <1>2. writer.req \in Request
    BY <1>1 DEF ClientType
  <1>3. writer' \in Writer /\ writer'.pc = "take"
    BY DEF Writer, NotWritten
  <1>4. result' \in [Request -> Seq(Request \cup {Error})]
    BY <1>1, <1>2 DEF ClientType
  <1> QED
    BY <1>1, <1>2, <1>3, <1>4 DEF ClientType

\* doRequest puts the request it has written at the end of waitingReqs.
LEMMA QueueEffect ==
    ASSUME ClientType, Queue, ~Panic
    PROVE  /\ writer.pc = "queue" /\ writer.req \in Request /\ ~waiting.closed
           /\ waiting'.buf = Append(waiting.buf, writer.req) /\ waiting'.gen = waiting.gen
           /\ waiting'.closed = waiting.closed
           /\ crossed' = (crossed \/ waiting.gen # writer.gen)
           /\ writer'.pc = "take"
           /\ UNCHANGED <<status, pc, sent, result, pending, conn, reader>>
           /\ ClientType'
  <1>1. /\ writer.pc = "queue" /\ ~waiting.closed /\ Len(waiting.buf) < chanSize
        /\ waiting' = WithBuf(waiting, Append(waiting.buf, writer.req))
        /\ crossed' = (crossed \/ waiting.gen # writer.gen)
        /\ writer' = [pc |-> "take", req |-> None, gen |-> 0]
        /\ UNCHANGED <<status, pc, sent, result, pending, conn, reader>>
    BY DEF Queue, WithBuf, senders
  <1>2. writer.req \in Request
    BY <1>1 DEF ClientType
  <1>3. Append(waiting.buf, writer.req) \in Seq(Request)
    BY <1>2, Fields, Sent
  <1>4. /\ waiting' \in Channel /\ waiting'.buf = Append(waiting.buf, writer.req)
        /\ waiting'.gen = waiting.gen /\ waiting'.closed = waiting.closed
    <2>1. waiting \in Channel
      BY DEF ClientType
    <2> DEFINE new == Append(waiting.buf, writer.req)
    <2>2. waiting' = WithBuf(waiting, new) /\ new \in Seq(Request)
      BY <1>1, <1>3
    <2> HIDE DEF new
    <2>3. /\ waiting' \in Channel /\ waiting'.buf = new
          /\ waiting'.gen = waiting.gen /\ waiting'.closed = waiting.closed
      BY <2>1, <2>2, ChannelType
    <2> QED
      BY <2>3 DEF new
  <1>5. Len(waiting'.buf) <= chanSize
    BY <1>1, <1>2, <1>4, Fields, Sent, BoundsHold
  <1>6. writer' \in Writer /\ writer'.pc = "take"
    BY <1>1 DEF Writer
  <1> QED
    BY <1>1, <1>2, <1>4, <1>5, <1>6 DEF ClientType

\* The peer answers the first request that has reached it.
LEMMA AnswerEffect ==
    ASSUME ClientType, Answer
    PROVE  /\ conn.in # <<>> /\ conn'.in = Tail(conn.in) /\ conn'.out = Append(conn.out, Head(conn.in))
           /\ conn'.up = conn.up /\ conn'.closed = conn.closed /\ conn'.gen = conn.gen
           /\ conn.up /\ ~conn.closed
           /\ UNCHANGED <<status, pc, sent, result, pending, waiting, writer, reader, crossed>>
           /\ ClientType'
  <1>1. /\ conn.in # <<>> /\ conn.up /\ ~conn.closed
        /\ conn' = [conn EXCEPT !.in = Tail(conn.in), !.out = Append(conn.out, Head(conn.in))]
        /\ UNCHANGED <<status, pc, sent, result, pending, waiting, writer, reader, crossed>>
    BY DEF Answer, senders, channels, threads
  <1>2. Tail(conn.in) \in Seq(Request) /\ Append(conn.out, Head(conn.in)) \in Seq(Request)
    BY <1>1, Fields, Received, Sent
  <1>3. conn \in Connection
    BY DEF ClientType
  <1>4. conn' \in Connection
    BY <1>1, <1>2, <1>3, Zenon DEF Connection
  <1>5. /\ conn'.in = Tail(conn.in) /\ conn'.out = Append(conn.out, Head(conn.in))
        /\ conn'.up = conn.up /\ conn'.closed = conn.closed /\ conn'.gen = conn.gen
    BY <1>1, <1>3 DEF Connection
  <1> QED
    BY <1>1, <1>4, <1>5 DEF ClientType

\* A break loses the requests that are on their way.
LEMMA BreakEffect ==
    ASSUME ClientType, Break
    PROVE  /\ conn'.in = <<>> /\ conn'.out = conn.out
           /\ ~conn'.up /\ conn'.closed = conn.closed /\ conn'.gen = conn.gen
           /\ UNCHANGED <<status, pc, sent, result, pending, waiting, writer, reader, crossed>>
           /\ ClientType'
  <1>1. /\ conn' = [conn EXCEPT !.up = FALSE, !.in = <<>>]
        /\ UNCHANGED <<status, pc, sent, result, pending, waiting, writer, reader, crossed>>
    BY DEF Break, senders, channels, threads
  <1>2. <<>> \in Seq(Request)
    OBVIOUS
  <1>3. conn \in Connection
    BY DEF ClientType
  <1>4. conn' \in Connection
    BY <1>1, <1>2, <1>3, Zenon DEF Connection
  <1>5. /\ conn'.in = <<>> /\ conn'.out = conn.out
        /\ ~conn'.up /\ conn'.closed = conn.closed /\ conn'.gen = conn.gen
    BY <1>1, <1>3 DEF Connection
  <1> QED
    BY <1>1, <1>4, <1>5 DEF ClientType

\* handleRead takes the first reply.
LEMMA ReadEffect ==
    ASSUME ClientType, Read
    PROVE  /\ reader.pc = "read" /\ reader'.pc = "finish" /\ reader'.reply = Head(conn.out)
           /\ conn.out # <<>> /\ conn'.out = Tail(conn.out) /\ conn'.in = conn.in
           /\ conn'.up = conn.up /\ conn'.closed = conn.closed /\ conn'.gen = conn.gen
           /\ ~conn.closed
           /\ UNCHANGED <<status, pc, sent, result, pending, waiting, writer, crossed>>
           /\ ClientType'
  <1>1. /\ conn.out # <<>> /\ ~conn.closed /\ reader.pc = "read"
        /\ conn' = [conn EXCEPT !.out = Tail(conn.out)]
        /\ reader' = [pc |-> "finish", reply |-> Head(conn.out)]
        /\ UNCHANGED <<status, pc, sent, result, pending, waiting, writer, crossed>>
    BY DEF Read, senders, channels
  <1>2. Tail(conn.out) \in Seq(Request) /\ Head(conn.out) \in Request
    BY <1>1, Fields, Received
  <1>3. conn \in Connection
    BY DEF ClientType
  <1>4. conn' \in Connection
    BY <1>1, <1>2, <1>3, Zenon DEF Connection
  <1>5. /\ conn'.out = Tail(conn.out) /\ conn'.in = conn.in
        /\ conn'.up = conn.up /\ conn'.closed = conn.closed /\ conn'.gen = conn.gen
    BY <1>1, <1>3 DEF Connection
  <1>6. reader' \in Reader /\ reader'.pc = "finish" /\ reader'.reply = Head(conn.out)
    BY <1>1, <1>2 DEF Reader
  <1> QED
    BY <1>1, <1>2, <1>4, <1>5, <1>6 DEF ClientType

\* A reply that finds a request waiting, and one that finds the channel closed.
Finished ==
    /\ reader.pc = "finish" /\ waiting.buf # <<>>
    /\ result' = [result EXCEPT ![Head(waiting.buf)] = Append(@, reader.reply)]
    /\ waiting' = [waiting EXCEPT !.buf = Tail(@)]
    /\ reader' = [pc |-> "read", reply |-> None]
    /\ UNCHANGED <<status, senders, pending, conn, writer, closer, breaks, crossed, panicked>>

NobodyWaits ==
    /\ reader.pc = "finish" /\ waiting.buf = <<>> /\ waiting.closed
    /\ reader' = [pc |-> "read", reply |-> None]
    /\ UNCHANGED <<status, senders, result, channels, conn, writer, closer, breaks, crossed, panicked>>

\* finishRequest finds a request, or a closed channel.
LEMMA FinishCases == finishRequest => Finished \/ NobodyWaits
  BY DEF finishRequest, Finished, NobodyWaits, channels

\* finishRequest gives the reply to the first request of waitingReqs.
LEMMA FinishedEffect ==
    ASSUME ClientType, Finished
    PROVE  /\ reader.pc = "finish" /\ reader'.pc = "read"
           /\ reader.reply \in Request
           /\ waiting.buf # <<>> /\ Head(waiting.buf) \in Request
           /\ waiting'.buf = Tail(waiting.buf) /\ waiting'.gen = waiting.gen
           /\ waiting'.closed = waiting.closed
           /\ result' = [result EXCEPT ![Head(waiting.buf)] = Append(@, reader.reply)]
           /\ UNCHANGED <<status, pc, sent, pending, conn, writer, crossed>>
           /\ ClientType'
  <1>1. /\ reader.pc = "finish" /\ waiting.buf # <<>>
        /\ result' = [result EXCEPT ![Head(waiting.buf)] = Append(@, reader.reply)]
        /\ waiting' = WithBuf(waiting, Tail(waiting.buf))
        /\ reader' = [pc |-> "read", reply |-> None]
        /\ UNCHANGED <<status, pc, sent, pending, conn, writer, crossed>>
    BY DEF Finished, senders, WithBuf
  <1>2. /\ Tail(waiting.buf) \in Seq(Request) /\ Head(waiting.buf) \in Request
        /\ Len(Tail(waiting.buf)) = Len(waiting.buf) - 1 /\ Len(waiting.buf) \in Nat
    BY <1>1, Fields, Received
  <1>3. waiting \in Channel /\ reader.reply \in Request
    BY <1>1 DEF ClientType
  <1>4. /\ waiting' \in Channel /\ waiting'.buf = Tail(waiting.buf) /\ waiting'.gen = waiting.gen
        /\ waiting'.closed = waiting.closed
    <2> DEFINE new == Tail(waiting.buf)
    <2>1. waiting' = WithBuf(waiting, new) /\ new \in Seq(Request) /\ waiting \in Channel
      BY <1>1, <1>2, <1>3
    <2> HIDE DEF new
    <2>2. /\ waiting' \in Channel /\ waiting'.buf = new
          /\ waiting'.gen = waiting.gen /\ waiting'.closed = waiting.closed
      BY <2>1, ChannelType
    <2> QED
      BY <2>2 DEF new
  <1>5. Len(waiting'.buf) <= chanSize
    BY <1>2, <1>4, BoundsHold DEF ClientType
  <1>6. reader' \in Reader /\ reader'.pc = "read"
    BY <1>1 DEF Reader
  <1>7. result' \in [Request -> Seq(Request \cup {Error})]
    BY <1>1, <1>2, <1>3 DEF ClientType
  <1> QED
    BY <1>1, <1>2, <1>3, <1>4, <1>5, <1>6, <1>7 DEF ClientType

\* finishRequest drops a reply once waitingReqs is closed and empty.
LEMMA NobodyWaitsEffect ==
    ASSUME ClientType, NobodyWaits
    PROVE  /\ reader.pc = "finish" /\ reader'.pc = "read" /\ waiting.closed
           /\ UNCHANGED <<status, pc, sent, result, pending, waiting, conn, writer, crossed>>
           /\ ClientType'
  <1>1. /\ reader.pc = "finish" /\ reader' = [pc |-> "read", reply |-> None] /\ waiting.closed
        /\ UNCHANGED <<status, pc, sent, result, pending, waiting, conn, writer, crossed>>
    BY DEF NobodyWaits, senders, channels
  <1>2. reader' \in Reader /\ reader'.pc = "read"
    BY <1>1 DEF Reader
  <1> QED
    BY <1>1, <1>2 DEF ClientType

\* A read fails on a connection that is closed or broken only.
LEMMA ReadErrorEffect ==
    ASSUME ClientType, ReadError
    PROVE  /\ reader.pc = "read" /\ reader'.pc \in {"ended", "dial"}
           /\ reader'.pc = "dial" => conn'.closed
           /\ conn.closed \/ ~conn.up
           /\ conn'.out = <<>> /\ conn'.in = conn.in /\ conn'.up = conn.up /\ conn'.gen = conn.gen
           /\ conn.closed => conn'.closed
           /\ UNCHANGED <<status, pc, sent, result, pending, waiting, writer, crossed>>
           /\ ClientType'
  <1>1. /\ reader.pc = "read" /\ (conn.closed \/ ~conn.up)
        /\ reader' = [reader EXCEPT !.pc = IF status = "closed" THEN "ended" ELSE "dial"]
        /\ conn' = [conn EXCEPT !.closed = conn.closed \/ status # "closed", !.out = <<>>]
        /\ UNCHANGED <<status, pc, sent, result, pending, waiting, writer, crossed>>
    BY DEF ReadError, senders, channels
  <1>2. <<>> \in Seq(Request) /\ (conn.closed \/ status # "closed") \in BOOLEAN
    OBVIOUS
  <1>3. conn \in Connection /\ reader \in Reader
    BY DEF ClientType
  <1>4. conn' \in Connection
    BY <1>1, <1>2, <1>3, Zenon DEF Connection
  <1>5. /\ conn'.out = <<>> /\ conn'.in = conn.in /\ conn'.up = conn.up /\ conn'.gen = conn.gen
        /\ conn.closed => conn'.closed
        /\ status # "closed" => conn'.closed
    BY <1>1, <1>3 DEF Connection
  <1>6. /\ reader' \in Reader /\ reader'.pc \in {"ended", "dial"}
        /\ reader'.pc = "dial" => status # "closed"
    BY <1>1, <1>3 DEF Reader
  <1>7. ClientType'
    BY <1>1, <1>4, <1>6 DEF ClientType
  <1> QED
    BY <1>1, <1>5, <1>6, <1>7

\* A dial that succeeds, and one that fails for good.
Dialled ==
    /\ reader.pc = "dial" /\ conn' = Conn(conn.gen + 1)
    /\ reader' = [reader EXCEPT !.pc = "fail"]
    /\ UNCHANGED <<status, senders, result, channels, writer, closer, breaks, crossed, panicked>>

NotDialled ==
    /\ reader.pc = "dial" /\ reader' = [reader EXCEPT !.pc = "close"]
    /\ UNCHANGED <<status, senders, result, channels, conn, writer, closer, breaks, crossed, panicked>>

\* reconnect gets a connection, or gives up.
LEMMA DialCases == Dial => Dialled \/ NotDialled
  BY DEF Dial, Dialled, NotDialled

\* The reader goes on to another place.
LEMMA ReaderMoves ==
    ASSUME NEW r \in Reader, NEW p \in {"read", "dial", "fail", "replace", "close", "wait", "ended"}
    PROVE  [r EXCEPT !.pc = p] \in Reader /\ [r EXCEPT !.pc = p].pc = p
  BY DEF Reader

\* reconnect replaces the connection by a new one.
LEMMA DialledEffect ==
    ASSUME ClientType, Dialled
    PROVE  /\ reader.pc = "dial" /\ reader'.pc = "fail" /\ conn'.out = <<>> /\ conn'.in = <<>> /\ conn'.up /\ ~conn'.closed
           /\ conn'.gen = conn.gen + 1
           /\ UNCHANGED <<status, pc, sent, result, pending, waiting, writer, crossed>>
           /\ ClientType'
  <1>1. /\ reader.pc = "dial" /\ conn' = Conn(conn.gen + 1) /\ reader' = [reader EXCEPT !.pc = "fail"]
        /\ UNCHANGED <<status, pc, sent, result, pending, waiting, writer, crossed>>
    BY DEF Dialled, senders, channels
  <1>2. conn.gen + 1 \in Nat
    BY Fields
  <1>3. reader \in Reader
    BY DEF ClientType
  <1>4. /\ conn' \in Connection /\ conn'.out = <<>> /\ conn'.in = <<>> /\ conn'.up /\ ~conn'.closed
        /\ conn'.gen = conn.gen + 1
    BY <1>1, <1>2, ChanType
  <1>5. reader' \in Reader /\ reader'.pc = "fail"
    BY <1>1, <1>3, ReaderMoves
  <1> QED
    BY <1>1, <1>4, <1>5 DEF ClientType

\* reconnect gives up and closes the client.
LEMMA NotDialledEffect ==
    ASSUME ClientType, NotDialled
    PROVE  /\ reader.pc = "dial" /\ reader'.pc = "close"
           /\ UNCHANGED <<status, pc, sent, result, pending, waiting, conn, writer, crossed>>
           /\ ClientType'
  <1>1. /\ reader.pc = "dial" /\ reader' = [reader EXCEPT !.pc = "close"]
        /\ UNCHANGED <<status, pc, sent, result, pending, waiting, conn, writer, crossed>>
    BY DEF NotDialled, senders, channels
  <1>3. reader \in Reader
    BY DEF ClientType
  <1>5. reader' \in Reader /\ reader'.pc = "close"
    BY <1>1, <1>3, ReaderMoves
  <1> QED
    BY <1>1, <1>5 DEF ClientType

\* The results once the requests that wait have failed.
Failed == [q \in Request |-> IF q \in Range(waiting.buf) THEN Append(result[q], Error) ELSE result[q]]

\* reconnect fails the requests of waitingReqs.
LEMMA FailWaitingEffect ==
    ASSUME ClientType, FailWaiting, ~Panic
    PROVE  /\ reader.pc = "fail" /\ reader'.pc = "replace"
           /\ waiting'.buf = <<>> /\ waiting'.gen = waiting.gen
           /\ result' = Failed
           /\ UNCHANGED <<status, pc, sent, pending, conn, writer, crossed>>
           /\ ClientType'
  <1>1. /\ reader.pc = "fail" /\ waiting' = [waiting EXCEPT !.closed = TRUE, !.buf = <<>>]
        /\ result' = Failed
        /\ reader' = [reader EXCEPT !.pc = "replace"]
        /\ UNCHANGED <<status, pc, sent, pending, conn, writer, crossed>>
    BY DEF FailWaiting, Failed, senders
  <1>2. <<>> \in Seq(Request) /\ Len(<<>>) <= chanSize
    BY BoundsHold
  <1>3. waiting \in Channel /\ reader \in Reader
    BY DEF ClientType
  <1>4. waiting' \in Channel
    BY <1>1, <1>2, <1>3, Zenon DEF Channel
  <1>5. waiting'.buf = <<>> /\ waiting'.gen = waiting.gen
    BY <1>1, <1>3 DEF Channel
  <1>6. reader' \in Reader /\ reader'.pc = "replace"
    BY <1>1, <1>3, ReaderMoves
  <1>7. Failed \in [Request -> Seq(Request \cup {Error})]
    <2>1. ASSUME NEW q \in Request
          PROVE  (IF q \in Range(waiting.buf) THEN Append(result[q], Error) ELSE result[q])
                    \in Seq(Request \cup {Error})
      BY DEF ClientType
    <2> QED
      BY <2>1 DEF Failed
  <1> QED
    BY <1>1, <1>2, <1>4, <1>5, <1>6, <1>7 DEF ClientType

\* reconnect makes a new waitingReqs.
LEMMA ReplaceWaitingEffect ==
    ASSUME ClientType, ReplaceWaiting
    PROVE  /\ reader.pc = "replace" /\ reader'.pc = "read"
           /\ waiting'.buf = <<>> /\ waiting'.gen = waiting.gen + 1 /\ ~waiting'.closed
           /\ UNCHANGED <<status, pc, sent, result, pending, conn, writer, crossed>>
           /\ ClientType'
  <1>1. /\ reader.pc = "replace" /\ waiting' = Chan(waiting.gen + 1)
        /\ reader' = [reader EXCEPT !.pc = "read"]
        /\ UNCHANGED <<status, pc, sent, result, pending, conn, writer, crossed>>
    BY DEF ReplaceWaiting, senders
  <1>2. Len(<<>>) <= chanSize /\ waiting.gen + 1 \in Nat
    BY BoundsHold, Fields
  <1>3. reader \in Reader
    BY DEF ClientType
  <1>4. waiting' \in Channel /\ waiting'.buf = <<>> /\ waiting'.gen = waiting.gen + 1 /\ ~waiting'.closed
    BY <1>1, <1>2, ChanType
  <1>5. reader' \in Reader /\ reader'.pc = "read"
    BY <1>1, <1>3, ReaderMoves
  <1> QED
    BY <1>1, <1>2, <1>4, <1>5 DEF ClientType

\* Close and the reader's own Close, up to the wait for the requests at work.
LEMMA StopEffect ==
    ASSUME ClientType, Close \/ ReaderClose, ~Panic
    PROVE  /\ pending'.buf = pending.buf
           /\ reader' # reader => reader.pc = "close" /\ reader'.pc = "wait"
           /\ UNCHANGED <<pc, sent, result, waiting, conn, writer, crossed>>
           /\ ClientType'
  <1>1. /\ status' = "closed" /\ pending' = Shut(pending)
        /\ UNCHANGED <<pc, sent, result, waiting, conn, writer, crossed>>
    BY DEF Close, ReaderClose, StopRequests, Shut, senders
  <1>r. \/ reader' = reader
        \/ reader.pc = "close" /\ reader' = [reader EXCEPT !.pc = "wait"]
    BY DEF Close, ReaderClose, StopRequests
  <1>2. reader \in Reader /\ pending \in Channel
    BY DEF ClientType
  <1>3. pending' \in Channel /\ pending'.buf = pending.buf
    <2>1. <<>> \in Seq(Request)
      OBVIOUS
    <2> QED
      BY <1>1, <1>2, <2>1, ChannelType
  <1>4. reader' = reader \/ (reader.pc = "close" /\ reader' \in Reader /\ reader'.pc = "wait")
    <2>1. CASE reader.pc = "close" /\ reader' = [reader EXCEPT !.pc = "wait"]
      BY <1>2, <2>1, ReaderMoves
    <2> QED
      BY <1>r, <2>1, Zenon
  <1> QED
    BY <1>1, <1>3, <1>4 DEF ClientType

\* The end of Close: the connection and waitingReqs are closed.
LEMMA CleanEffect ==
    ASSUME ClientType, CloseEnd \/ ReaderCloseEnd, ~Panic
    PROVE  /\ waiting'.buf = waiting.buf /\ waiting'.gen = waiting.gen
           /\ conn'.in = <<>> /\ conn'.out = <<>> /\ conn'.closed /\ conn'.up = conn.up
           /\ conn'.gen = conn.gen
           /\ reader' # reader => reader.pc = "wait" /\ reader'.pc = "ended"
           /\ UNCHANGED <<status, pc, sent, result, pending, writer, crossed>>
           /\ ClientType'
  <1>1. /\ waiting' = Shut(waiting) /\ conn' = [conn EXCEPT !.closed = TRUE, !.in = <<>>, !.out = <<>>]
        /\ UNCHANGED <<status, pc, sent, result, pending, writer, crossed>>
    BY DEF CloseEnd, ReaderCloseEnd, Clean, Shut, senders
  <1>r. \/ reader' = reader
        \/ reader.pc = "wait" /\ reader' = [reader EXCEPT !.pc = "ended"]
    BY DEF CloseEnd, ReaderCloseEnd, Clean
  <1>2. reader \in Reader /\ waiting \in Channel /\ conn \in Connection /\ <<>> \in Seq(Request)
    BY DEF ClientType
  <1>3. waiting' \in Channel /\ waiting'.buf = waiting.buf /\ waiting'.gen = waiting.gen
    BY <1>1, <1>2, ChannelType
  <1>4. reader' = reader \/ (reader.pc = "wait" /\ reader' \in Reader /\ reader'.pc = "ended")
    <2>1. CASE reader.pc = "wait" /\ reader' = [reader EXCEPT !.pc = "ended"]
      BY <1>2, <2>1, ReaderMoves
    <2> QED
      BY <1>r, <2>1, Zenon
  <1>5. conn' \in Connection
    BY <1>1, <1>2, Zenon DEF Connection
  <1>6. /\ conn'.in = <<>> /\ conn'.out = <<>> /\ conn'.closed /\ conn'.up = conn.up
        /\ conn'.gen = conn.gen
    BY <1>1, <1>2 DEF Connection
  <1> QED
    BY <1>1, <1>3, <1>4, <1>5, <1>6 DEF ClientType

\* The steps of a client that does not panic.
Step ==
    \/ \E s \in Sender : SendStart(s) \/ SendReturns(s) \/ Timeout(s)
    \/ \E s \in Sender : Push(s) /\ ~Panic
    \/ TakePending \/ Written \/ NotWritten \/ (Queue /\ ~Panic)
    \/ Answer \/ Break \/ Read \/ Finished \/ NobodyWaits \/ ReadError \/ Dialled \/ NotDialled
    \/ (FailWaiting /\ ~Panic) \/ ReplaceWaiting
    \/ ((Close \/ ReaderClose) /\ ~Panic) \/ ((CloseEnd \/ ReaderCloseEnd) /\ ~Panic)

\* Every action of the client is one of these steps, or panics.
LEMMA StepCases == Next => Panic \/ Step
  <1> SUFFICES ASSUME Next PROVE Panic \/ Step
    OBVIOUS
  <1> USE DEF Step
  <1>1. ASSUME NEW s \in Sender, SendStart(s) \/ Send(s) PROVE Panic \/ Step
    BY <1>1 DEF Send
  <1>2. CASE handleWrite
    BY <1>2, WriteCases DEF handleWrite
  <1>3. CASE handleRead
    BY <1>3, FinishCases, DialCases DEF handleRead, reconnect
  <1>4. CASE Answer \/ Break \/ Close \/ CloseEnd
    BY <1>4
  <1> QED
    BY <1>1, <1>2, <1>3, <1>4 DEF Next

\* Every step keeps the types.
LEMMA StepType ==
    ASSUME ClientType, Step
    PROVE  ClientType'
  BY SendTypes, PushEffect, TakePendingEffect, WrittenEffect, NotWrittenEffect, QueueEffect, AnswerEffect,
     BreakEffect, ReadEffect, FinishedEffect, NobodyWaitsEffect, ReadErrorEffect, DialledEffect,
     NotDialledEffect, FailWaitingEffect, ReplaceWaitingEffect, StopEffect, CleanEffect DEF Step

\* Send outside the channel leaves requests and connection alone.
LEMMA SendFrame ==
    ASSUME NEW s \in Sender, SendStart(s) \/ SendReturns(s) \/ Timeout(s)
    PROVE  UNCHANGED <<status, result, pending, waiting, conn, writer, reader, crossed>>
  BY DEF SendStart, SendReturns, Timeout, channels, threads

-----------------------------------------------------------------------------
\* Every step keeps the order of connections and channels: reconnect makes the
\* connection first, and Close closes it before waitingReqs.
LEMMA StepConnected ==
    ASSUME ClientType, Connected, Step
    PROVE  Connected'
  <1> USE Fields DEF Connected
  <1>1. ASSUME NEW s \in Sender, SendStart(s) \/ SendReturns(s) \/ Timeout(s) PROVE Connected'
    BY <1>1, SendFrame
  <1>2. ASSUME NEW s \in Sender, Push(s) /\ ~Panic PROVE Connected'
    BY <1>2, PushEffect
  <1>3. CASE TakePending
    BY <1>3, TakePendingEffect
  <1>4. CASE Written
    BY <1>4, WrittenEffect
  <1>5. CASE NotWritten
    BY <1>5, NotWrittenEffect
  <1>6. CASE Queue /\ ~Panic
    BY <1>6, QueueEffect
  <1>7. CASE Answer
    BY <1>7, AnswerEffect
  <1>8. CASE Break
    BY <1>8, BreakEffect
  <1>9. CASE Read
    BY <1>9, ReadEffect
  <1>10. CASE Finished
    BY <1>10, FinishedEffect
  <1>11. CASE NobodyWaits
    BY <1>11, NobodyWaitsEffect
  <1>12. CASE ReadError
    BY <1>12, ReadErrorEffect
  <1>13. CASE Dialled
    BY <1>13, DialledEffect
  <1>14. CASE NotDialled
    BY <1>14, NotDialledEffect
  <1>15. CASE FailWaiting /\ ~Panic
    BY <1>15, FailWaitingEffect
  <1>16. CASE ReplaceWaiting
    BY <1>16, ReplaceWaitingEffect
  <1>17. CASE (Close \/ ReaderClose) /\ ~Panic
    BY <1>17, StopEffect
  <1>18. CASE (CloseEnd \/ ReaderCloseEnd) /\ ~Panic
    BY <1>18, CleanEffect
  <1> QED
    BY <1>1, <1>2, <1>3, <1>4, <1>5, <1>6, <1>7, <1>8, <1>9, <1>10, <1>11, <1>12, <1>13, <1>14, <1>15,
       <1>16, <1>17, <1>18 DEF Step

-----------------------------------------------------------------------------
\* Once, about what it is about.
LEMMA SameUnderway ==
    ASSUME Once, \A q \in Request : Begun(q) <=> Begun(q)',
           UNCHANGED <<result, pending, waiting, writer>>
    PROVE  Once'
  BY DEF Once, Underway

\* The requests that have been sent are the same after these steps of Send.
LEMMA BegunSends ==
    ASSUME ClientType, NEW s \in Sender, SendStart(s) \/ SendReturns(s) \/ Timeout(s), NEW q \in Request
    PROVE  Begun(q) <=> Begun(q)'
  <1>1. q[1] \in Sender /\ q[2] \in Nat /\ sent[q[1]] \in Nat /\ sent[s] \in Nat
    BY BoundsHold DEF ClientType, Request
  <1>2. CASE SendStart(s)
    <2>1. /\ pc[s] = "idle" /\ pc'[q[1]] = (IF q[1] = s THEN "push" ELSE pc[q[1]])
          /\ sent'[q[1]] = (IF q[1] = s THEN sent[s] + 1 ELSE sent[q[1]])
      BY <1>1, <1>2 DEF SendStart, ClientType
    <2> QED
      BY <1>1, <2>1 DEF Begun
  <1>3. CASE SendReturns(s) \/ Timeout(s)
    <2>1. /\ pc[s] = "wait" /\ pc'[q[1]] = (IF q[1] = s THEN "idle" ELSE pc[q[1]])
          /\ sent' = sent
      BY <1>1, <1>3 DEF SendReturns, Timeout, ClientType
    <2> QED
      BY <1>1, <2>1 DEF Begun
  <1> QED
    BY <1>2, <1>3

\* Send puts a request into pendingReqs that was never there.
LEMMA BegunPush ==
    ASSUME ClientType, NEW s \in Sender, Push(s), ~Panic, NEW q \in Request
    PROVE  /\ Begun(q)' <=> Begun(q) \/ q = Current(s)
           /\ ~Begun(Current(s))
  <1>1. q[1] \in Sender /\ q[2] \in Nat /\ sent[q[1]] \in Nat /\ sent[s] \in Nat /\ q = <<q[1], q[2]>>
    BY BoundsHold DEF ClientType, Request
  <1>2. /\ pc[s] = "push" /\ pc'[q[1]] = (IF q[1] = s THEN "wait" ELSE pc[q[1]]) /\ sent' = sent
    BY <1>1, PushEffect DEF ClientType
  <1>3. q = Current(s) <=> q[1] = s /\ q[2] = sent[s]
    BY <1>1 DEF Current
  <1>4. Current(s)[1] = s /\ Current(s)[2] = sent[s]
    BY DEF Current
  <1> QED
    BY <1>1, <1>2, <1>3, <1>4 DEF Begun

\* Every step keeps each request in one place, and takes it out when it is finished.
LEMMA StepOnce ==
    ASSUME ClientType, Once, Step
    PROVE  Once'
  <1>0. UNCHANGED <<pc, sent>> => \A q : Begun(q)' <=> Begun(q)
    BY DEF Begun
  <1>f. /\ pending.buf \in Seq(Request) /\ waiting.buf \in Seq(Request)
        /\ Range(pending.buf) \subseteq Request /\ Range(waiting.buf) \subseteq Request
    BY Fields, InSeq
  <1>1. ASSUME NEW s \in Sender, SendStart(s) \/ SendReturns(s) \/ Timeout(s) PROVE Once'
    BY <1>1, SendFrame, BegunSends, SameUnderway
  <1>2. ASSUME NEW s \in Sender, Push(s) /\ ~Panic PROVE Once'
    <2>1. /\ Current(s) \in Request /\ pending'.buf = Append(pending.buf, Current(s))
          /\ UNCHANGED <<result, waiting, writer>>
      BY <1>2, PushEffect
    <2>2. /\ \A q \in Request : Begun(q)' <=> Begun(q) \/ q = Current(s)
          /\ ~Begun(Current(s))
      BY <1>2, <2>1, BegunPush
    <2>3. ~Underway(Current(s)) /\ result[Current(s)] = None
      BY <2>1, <2>2 DEF Once
    <2>4. Range(pending'.buf) = Range(pending.buf) \cup {Current(s)}
      BY <1>f, <2>1, Sent
    <2>5. IsInjective(pending'.buf)
      BY <1>f, <2>1, <2>3, Sent DEF Once, Underway
    <2> QED
      BY <2>1, <2>2, <2>3, <2>4, <2>5 DEF Once, Underway
  <1>3. CASE TakePending
    <2>1. /\ pending.buf # <<>> /\ pending'.buf = Tail(pending.buf) /\ writer.pc = "take"
          /\ writer'.pc = "write" /\ writer'.req = Head(pending.buf)
          /\ UNCHANGED <<pc, sent, result, waiting>>
      BY <1>3, TakePendingEffect
    <2>2. /\ Range(pending.buf) = Range(pending'.buf) \cup {Head(pending.buf)}
          /\ IsInjective(pending'.buf) /\ Head(pending.buf) \notin Range(pending'.buf)
      BY <1>f, <2>1, Received DEF Once
    <2> QED
      BY <1>0, <2>1, <2>2 DEF Once, Underway
  <1>4. CASE Written
    <2>1. /\ writer.pc = "write" /\ writer'.pc = "queue" /\ writer'.req = writer.req
          /\ UNCHANGED <<pc, sent, result, pending, waiting>>
      BY <1>4, WrittenEffect
    <2> QED
      BY <1>0, <2>1 DEF Once, Underway
  <1>5. CASE NotWritten
    <2>1. /\ writer.pc = "write" /\ writer'.pc = "take" /\ writer.req \in Request
          /\ result' = [result EXCEPT ![writer.req] = Append(@, Error)]
          /\ UNCHANGED <<pc, sent, pending, waiting>>
      BY <1>5, NotWrittenEffect
    <2>2. \A q \in Request : q # writer.req => result'[q] = result[q]
      BY <2>1 DEF ClientType
    <2>3. Underway(writer.req) /\ Begun(writer.req)
      BY <2>1 DEF Once, Underway
    <2> QED
      BY <1>0, <2>1, <2>2, <2>3 DEF Once, Underway
  <1>6. CASE Queue /\ ~Panic
    <2>1. /\ writer.pc = "queue" /\ writer'.pc = "take" /\ writer.req \in Request
          /\ waiting'.buf = Append(waiting.buf, writer.req)
          /\ UNCHANGED <<pc, sent, result, pending>>
      BY <1>6, QueueEffect
    <2>2. /\ Range(waiting'.buf) = Range(waiting.buf) \cup {writer.req}
          /\ IsInjective(waiting'.buf)
      BY <1>f, <2>1, Sent DEF Once
    <2> QED
      BY <1>0, <2>1, <2>2 DEF Once, Underway
  <1>7. CASE Answer \/ Break \/ Read \/ NobodyWaits \/ ReadError \/ Dialled \/ NotDialled
    <2>1. UNCHANGED <<pc, sent, result, pending, waiting, writer>>
      BY <1>7, AnswerEffect, BreakEffect, ReadEffect, NobodyWaitsEffect, ReadErrorEffect, DialledEffect,
         NotDialledEffect
    <2> QED
      BY <1>0, <2>1, SameUnderway
  <1>10. CASE Finished
    <2>1. /\ waiting.buf # <<>> /\ Head(waiting.buf) \in Request /\ waiting'.buf = Tail(waiting.buf)
          /\ result' = [result EXCEPT ![Head(waiting.buf)] = Append(@, reader.reply)]
          /\ UNCHANGED <<pc, sent, pending, writer>>
      BY <1>10, FinishedEffect
    <2>2. /\ Range(waiting.buf) = Range(waiting'.buf) \cup {Head(waiting.buf)}
          /\ IsInjective(waiting'.buf) /\ Head(waiting.buf) \notin Range(waiting'.buf)
      BY <1>f, <2>1, Received DEF Once
    <2>3. \A q \in Request : q # Head(waiting.buf) => result'[q] = result[q]
      BY <2>1 DEF ClientType
    <2>4. Begun(Head(waiting.buf))
      BY <2>1, <2>2 DEF Once, Underway
    <2> QED
      BY <1>0, <2>1, <2>2, <2>3, <2>4 DEF Once, Underway
  <1>15. CASE FailWaiting /\ ~Panic
    <2>1. /\ waiting'.buf = <<>> /\ result' = Failed /\ UNCHANGED <<pc, sent, pending, writer>>
      BY <1>15, FailWaitingEffect
    <2>2. Range(waiting'.buf) = {} /\ IsInjective(waiting'.buf)
      BY <2>1 DEF Range, IsInjective
    <2>3. \A q \in Request : q \notin Range(waiting.buf) => result'[q] = result[q]
      BY <2>1 DEF Failed
    <2>4. \A q \in Range(waiting.buf) : Begun(q)
      BY <1>f DEF Once, Underway
    <2> QED
      BY <1>0, <2>1, <2>2, <2>3, <2>4 DEF Once, Underway
  <1>16. CASE ReplaceWaiting
    <2>1. waiting'.buf = <<>> /\ UNCHANGED <<pc, sent, result, pending, writer>>
      BY <1>16, ReplaceWaitingEffect
    <2>2. Range(waiting'.buf) = {} /\ IsInjective(waiting'.buf)
      BY <2>1 DEF Range, IsInjective
    <2> QED
      BY <1>0, <2>1, <2>2 DEF Once, Underway
  <1>17. CASE ((Close \/ ReaderClose) /\ ~Panic) \/ ((CloseEnd \/ ReaderCloseEnd) /\ ~Panic)
    <2>1. /\ pending'.buf = pending.buf /\ waiting'.buf = waiting.buf
          /\ UNCHANGED <<pc, sent, result, writer>>
      BY <1>17, StopEffect, CleanEffect
    <2> QED
      BY <1>0, <2>1 DEF Once, Underway
  <1> QED
    BY <1>1, <1>2, <1>3, <1>4, <1>5, <1>6, <1>7, <1>10, <1>15, <1>16, <1>17 DEF Step

\* The lengths and the elements of the two sequences.
LEMMA ExpectedParts ==
    ASSUME ClientType
    PROVE  /\ QueuedIn(waiting, conn) \in Seq(Request) /\ WrittenBy(writer, conn) \in Seq(Request)
           /\ Expected \in Seq(Request)
           /\ Len(Expected) = Len(QueuedIn(waiting, conn)) + Len(WrittenBy(writer, conn))
           /\ Len(Expected) \in Nat
  <1>1. QueuedIn(waiting, conn) \in Seq(Request)
    BY Fields DEF QueuedIn
  <1>2. WrittenBy(writer, conn) \in Seq(Request)
    BY DEF WrittenBy, ClientType
  <1> QED
    BY <1>1, <1>2, TwoParts, ExpectedIs

\* The lengths and the types of the replies and their parts.
LEMMA RepliesParts ==
    ASSUME ClientType
    PROVE  /\ ReadBy(reader) \in Seq(Request) /\ conn.out \in Seq(Request) /\ conn.in \in Seq(Request)
           /\ Replies \in Seq(Request)
           /\ Len(Replies) = Len(ReadBy(reader)) + Len(conn.out) + Len(conn.in)
           /\ Len(Replies) \in Nat
  <1>1. ReadBy(reader) \in Seq(Request)
    BY DEF ReadBy, ClientType
  <1>2. conn.out \in Seq(Request) /\ conn.in \in Seq(Request)
    BY Fields
  <1>3. /\ Replies \in Seq(Request)
        /\ Len(Replies) = Len(ReadBy(reader)) + Len(conn.out) + Len(conn.in)
    <2> DEFINE r == ReadBy(reader)
               o == conn.out
               n == conn.in
    <2>1. r \in Seq(Request) /\ o \in Seq(Request) /\ n \in Seq(Request) /\ Replies = r \o o \o n
      BY <1>1, <1>2, RepliesAre
    <2> HIDE DEF r, o, n
    <2>2. Replies \in Seq(Request) /\ Len(Replies) = Len(r) + Len(o) + Len(n)
      BY <2>1, ThreeParts
    <2> QED
      BY <2>2 DEF r, o, n
  <1>4. Len(Replies) \in Nat
    <2>1. Replies \in Seq(Request)
      BY <1>3
    <2> QED
      BY <2>1, Lengths
  <1> QED
    BY <1>1, <1>2, <1>3, <1>4

\* InOrder when nothing more is given and as much is expected.
LEMMA Kept ==
    ASSUME InOrder, ~crossed' => ~crossed, Expected' = Expected, Replies \in Seq(Request), Replies' \in Seq(Request),
           Expected \in Seq(Request),
           Len(Replies') <= Len(Replies), \A i \in 1 .. Len(Replies') : Replies'[i] = Replies[i],
           conn'.up /\ ~conn'.closed => conn.up /\ ~conn.closed /\ Len(Replies') = Len(Replies)
    PROVE  InOrder'
  <1> DEFINE r == Replies
             r1 == Replies'
             e == Expected
  <1>1. Len(r) \in Nat /\ Len(r1) \in Nat /\ Len(e) \in Nat
    OBVIOUS
  <1>2. SUFFICES ASSUME ~crossed'
                 PROVE  /\ Len(r1) <= Len(e)
                        /\ conn'.up /\ ~conn'.closed => Len(r1) = Len(e)
                        /\ \A i \in 1 .. Len(r1) : r1[i] = e[i]
    BY DEF InOrder
  <1>3. /\ Len(r) <= Len(e)
        /\ conn.up /\ ~conn.closed => Len(r) = Len(e)
        /\ \A i \in 1 .. Len(r) : r[i] = e[i]
    BY <1>2 DEF InOrder
  <1>4. /\ Len(r1) <= Len(r) /\ \A i \in 1 .. Len(r1) : r1[i] = r[i]
        /\ conn'.up /\ ~conn'.closed => conn.up /\ ~conn.closed /\ Len(r1) = Len(r)
    OBVIOUS
  <1> HIDE DEF r, r1, e
  <1> QED
    BY <1>1, <1>3, <1>4

\* The same when the replies are the same.
LEMMA Unmoved ==
    ASSUME ClientType, InOrder, ~crossed' => ~crossed, Expected' = Expected, Replies' = Replies,
           conn'.up /\ ~conn'.closed => conn.up /\ ~conn.closed
    PROVE  InOrder'
  BY ExpectedParts, RepliesParts, Kept

\* InOrder when no reply is left.
LEMMA NoReplies ==
    ASSUME ClientType, ClientType', InOrder, Replies' = <<>>,
           conn'.up /\ ~conn'.closed /\ ~crossed' => Len(Expected') = 0
    PROVE  InOrder'
  <1>1. Expected' \in Seq(Request)
    <2>1. QueuedIn(waiting', conn') \in Seq(Request)
      BY DEF QueuedIn, ClientType, Channel
    <2>2. WrittenBy(writer', conn') \in Seq(Request)
      BY DEF WrittenBy, ClientType
    <2>3. Expected' = QueuedIn(waiting', conn') \o WrittenBy(writer', conn')
      BY DEF Expected, QueuedIn, WrittenBy
    <2> QED
      BY <2>1, <2>2, <2>3, TwoParts
  <1>2. Len(Replies') = 0 /\ Len(Expected') \in Nat
    BY <1>1
  <1> QED
    BY <1>2 DEF InOrder

-----------------------------------------------------------------------------
\* How the sequences around an element that moves fit together.
LEMMA Splits ==
    ASSUME NEW S, NEW s \in Seq(S), NEW x \in S
    PROVE  /\ Append(s, x) = s \o <<x>> /\ <<x>> \in Seq(S)
           /\ s # <<>> => s = <<Head(s)>> \o Tail(s) /\ Head(s) \in S /\ Tail(s) \in Seq(S)
  <1>1. Append(s, x) = s \o <<x>>
    BY AppendJoins
  <1>2. ASSUME s # <<>>
        PROVE  s = <<Head(s)>> \o Tail(s) /\ Head(s) \in S /\ Tail(s) \in Seq(S)
    BY <1>2
  <1> QED
    BY <1>1, <1>2

\* Concatenation is associative, for four sequences.
LEMMA Regroup ==
    ASSUME NEW S, NEW r \in Seq(S), NEW o \in Seq(S), NEW h \in Seq(S), NEW t \in Seq(S)
    PROVE  r \o (o \o h) \o t = r \o o \o (h \o t)
  <1>1. r \o o \in Seq(S)
    BY TwoParts
  <1>2. (r \o o) \o h = r \o (o \o h)
    BY Associative
  <1>3. ((r \o o) \o h) \o t = (r \o o) \o (h \o t)
    BY <1>1, Associative, SMTT(30)
  <1> QED
    BY <1>2, <1>3, Zenon

\* Answer: the request at the front becomes the last reply.
Answered(r, o, n) == r \o Append(o, Head(n)) \o Tail(n)

\* The replies are the same when one more is on its way back.
LEMMA AnswerMoves ==
    ASSUME NEW S, NEW r \in Seq(S), NEW o \in Seq(S), NEW n \in Seq(S), n # <<>>
    PROVE  Answered(r, o, n) = r \o o \o n
  <1>1. Head(n) \in S
    OBVIOUS
  <1>2. n = <<Head(n)>> \o Tail(n) /\ Tail(n) \in Seq(S) /\ <<Head(n)>> \in Seq(S)
    BY <1>1, Splits
  <1>3. Append(o, Head(n)) = o \o <<Head(n)>>
    BY <1>1, Splits
  <1>4. r \o (o \o <<Head(n)>>) \o Tail(n) = r \o o \o (<<Head(n)>> \o Tail(n))
    BY <1>2, Regroup, SMTT(30)
  <1> QED
    BY <1>2, <1>3, <1>4, Zenon DEF Answered

\* Read: the first reply goes to the reader.
LEMMA ReadMoves ==
    ASSUME NEW S, NEW o \in Seq(S), NEW n \in Seq(S), o # <<>>
    PROVE  <<Head(o)>> \o Tail(o) \o n = <<>> \o o \o n
  <1>1. Head(o) \in S
    OBVIOUS
  <1>2. o = <<Head(o)>> \o Tail(o)
    BY <1>1, Splits
  <1>3. <<>> \o o = o
    BY EmptyEnds
  <1> QED
    BY <1>2, <1>3

\* Write and Queue: one more at the end.
LEMMA WriteAppends ==
    ASSUME NEW S, NEW r \in Seq(S), NEW o \in Seq(S), NEW n \in Seq(S), NEW x \in S
    PROVE  /\ r \o o \o Append(n, x) = Append(r \o o \o n, x)
           /\ o \o <<x>> = Append(o \o <<>>, x)
           /\ Append(o, x) \o <<>> = o \o <<x>>
  <1>1. <<x>> \in Seq(S) /\ Append(n, x) = n \o <<x>> /\ Append(o, x) = o \o <<x>>
    <2>1. <<x>> \in Seq(S) /\ Append(n, x) = n \o <<x>>
      BY Splits
    <2>2. Append(o, x) = o \o <<x>>
      BY Splits
    <2> QED
      BY <2>1, <2>2
  <1>2. r \o o \in Seq(S) /\ r \o o \o n \in Seq(S)
    BY TwoParts
  <1>3. (r \o o) \o (n \o <<x>>) = ((r \o o) \o n) \o <<x>>
    BY <1>1, <1>2, Associative
  <1>4. Append(r \o o \o n, x) = (r \o o \o n) \o <<x>>
    BY <1>2, Splits
  <1>5. o \o <<>> = o /\ o \o <<x>> \in Seq(S)
    BY <1>1, EmptyEnds, TwoParts
  <1>6. (o \o <<x>>) \o <<>> = o \o <<x>>
    BY <1>5, EmptyEnds
  <1> QED
    BY <1>1, <1>3, <1>4, <1>5, <1>6

\* finishRequest: the first reply leaves with the first request.
LEMMA ReplyDrops ==
    ASSUME NEW S, NEW o \in Seq(S), NEW n \in Seq(S), NEW x \in S
    PROVE  <<x>> \o o \o n = <<x>> \o (<<>> \o o \o n)
  <1>1. <<x>> \in Seq(S) /\ <<>> \o o = o
    BY EmptyEnds
  <1>2. <<x>> \o o \o n = <<x>> \o (o \o n)
    BY <1>1, Associative
  <1> QED
    BY <1>1, <1>2

\* The requests after the first one.
LEMMA RequestDrops ==
    ASSUME NEW S, NEW b \in Seq(S), NEW w \in Seq(S), b # <<>>
    PROVE  b \o w = <<Head(b)>> \o (Tail(b) \o w)
  <1>1. Head(b) \in S
    OBVIOUS
  <1>3. Tail(b) \in Seq(S) /\ b = <<Head(b)>> \o Tail(b) /\ <<Head(b)>> \in Seq(S)
    BY <1>1, Splits
  <1>4. (<<Head(b)>> \o Tail(b)) \o w = <<Head(b)>> \o (Tail(b) \o w)
    BY <1>3, Associative
  <1> QED
    BY <1>3, <1>4

\* Two sequences that agree still do when each loses its first element, and when
\* both get the same last one.
Agree(r, e) == Len(r) <= Len(e) /\ \A i \in 1 .. Len(r) : r[i] = e[i]

\* One more request at the end, and one more reply.
LEMMA AgreeSteps ==
    ASSUME NEW S, NEW r \in Seq(S), NEW e \in Seq(S), NEW x \in S
    PROVE  /\ Agree(r, e) => Agree(r, Append(e, x))
           /\ Agree(r, e) /\ Len(r) = Len(e) => Agree(Append(r, x), Append(e, x))
  BY DEF Agree

\* The first reply is to the first request, and the others agree.
LEMMA AgreeTail ==
    ASSUME NEW S, NEW r \in Seq(S), NEW e \in Seq(S), NEW x \in S, NEW y \in S,
           Agree(<<x>> \o r, <<y>> \o e)
    PROVE  /\ x = y /\ Agree(r, e)
           /\ Len(<<x>> \o r) = Len(<<y>> \o e) => Len(r) = Len(e)
  <1>1. /\ <<x>> \in Seq(S) /\ <<y>> \in Seq(S) /\ Len(<<x>>) = 1 /\ Len(<<y>>) = 1
        /\ <<x>>[1] = x /\ <<y>>[1] = y /\ Len(r) \in Nat /\ Len(e) \in Nat
    OBVIOUS
  <1> DEFINE a == <<x>> \o r
             b == <<y>> \o e
  <1>2. /\ Len(a) = 1 + Len(r) /\ a[1] = x
        /\ \A i \in 1 .. Len(r) : a[1 + i] = r[i]
    BY <1>1, TwoParts
  <1>3. /\ Len(b) = 1 + Len(e) /\ b[1] = y
        /\ \A i \in 1 .. Len(e) : b[1 + i] = e[i]
    BY <1>1, TwoParts
  <1>4. Len(a) <= Len(b) /\ \A i \in 1 .. Len(a) : a[i] = b[i]
    BY DEF Agree
  <1> HIDE DEF a, b
  <1>5. x = y /\ Len(r) <= Len(e) /\ (Len(a) = Len(b) => Len(r) = Len(e))
    BY <1>1, <1>2, <1>3, <1>4
  <1>6. ASSUME NEW i \in 1 .. Len(r) PROVE r[i] = e[i]
    <2>1. 1 + i \in 1 .. Len(a) /\ i \in 1 .. Len(e)
      BY <1>1, <1>2, <1>5
    <2>2. a[1 + i] = b[1 + i]
      BY <1>4, <2>1
    <2> QED
      BY <1>2, <1>3, <2>1, <2>2
  <1> QED
    BY <1>5, <1>6 DEF Agree, a, b

\* The two sequences after a step.
LEMMA Afterwards ==
    /\ Expected' = QueuedIn(waiting', conn') \o WrittenBy(writer', conn')
    /\ Replies' = ReadBy(reader') \o conn'.out \o conn'.in
  BY DEF Expected, Replies, QueuedIn, WrittenBy, ReadBy

\* The requests that are owed a reply are the same when the channel and the writer are.
LEMMA SameExpected ==
    ASSUME UNCHANGED waiting.buf, UNCHANGED waiting.gen, UNCHANGED conn.gen,
           UNCHANGED writer \/ (writer.pc # "queue" /\ writer'.pc # "queue")
    PROVE  Expected' = Expected
  BY DEF Expected

\* The replies are the same when the reader and the connection are.
LEMMA SameReplies ==
    ASSUME UNCHANGED reader \/ (reader.pc # "finish" /\ reader'.pc # "finish"),
           UNCHANGED conn.in, UNCHANGED conn.out
    PROVE  Replies' = Replies
  BY DEF Replies

\* doRequest: the request goes to the end of what is sent and of what is expected.
LEMMA WrittenInOrder ==
    ASSUME ClientType, InOrder, Written
    PROVE  InOrder'
  <1> DEFINE x == writer.req
             r == ReadBy(reader)
             o == conn.out
             n == conn.in
             q == QueuedIn(waiting, conn)
             R == Replies
             E == Expected
  <1>1. /\ writer.pc = "write" /\ x \in Request /\ ~conn.closed
        /\ conn'.in = (IF conn.up THEN Append(n, x) ELSE n)
        /\ conn'.out = o /\ conn'.up = conn.up /\ conn'.closed = conn.closed
        /\ conn'.gen = conn.gen
        /\ writer'.pc = "queue" /\ writer'.req = x /\ writer'.gen = conn.gen
        /\ UNCHANGED <<waiting, reader, crossed>>
    BY WrittenEffect
  <1>2. r \in Seq(Request) /\ o \in Seq(Request) /\ n \in Seq(Request) /\ q \in Seq(Request)
        /\ R \in Seq(Request) /\ E \in Seq(Request)
    BY RepliesParts, ExpectedParts
  <1>3. E = q \o <<>> /\ R = r \o o \o n
    BY <1>1, ExpectedIs, RepliesAre DEF WrittenBy
  <1>4. Expected' = q \o <<x>>
    BY <1>1, Afterwards DEF QueuedIn, WrittenBy
  <1>5. Replies' = IF conn.up THEN r \o o \o Append(n, x) ELSE r \o o \o n
    BY <1>1, Afterwards
  <1>6. ~crossed => Agree(R, E) /\ (conn.up => Len(R) = Len(E))
    BY <1>1 DEF InOrder, Agree
  <1>x. x \in Request
    BY <1>1
  <1> HIDE DEF x, r, o, n, q, R, E
  <1>7. Expected' = Append(E, x)
    BY <1>2, <1>3, <1>4, <1>x, WriteAppends
  <1>8. Replies' = IF conn.up THEN Append(R, x) ELSE R
    <2>1. r \o o \o Append(n, x) = Append(r \o o \o n, x)
      BY <1>2, <1>x, WriteAppends
    <2> QED
      BY <1>3, <1>5, <2>1
  <1>9. /\ Agree(R, E) => Agree(R, Append(E, x))
        /\ Agree(R, E) /\ Len(R) = Len(E) => Agree(Append(R, x), Append(E, x))
    BY <1>2, <1>x, AgreeSteps
  <1>10. Len(Append(R, x)) = Len(R) + 1 /\ Len(Append(E, x)) = Len(E) + 1
    BY <1>2, <1>x
  <1>11. ~crossed' => /\ Agree(Replies', Expected')
                      /\ conn'.up => Len(Replies') = Len(Expected')
    BY <1>1, <1>6, <1>7, <1>8, <1>9, <1>10
  <1> QED
    BY <1>11 DEF InOrder, Agree

\* finishRequest: the reply is to the request at the head of waitingReqs.
LEMMA FinishedInOrder ==
    ASSUME ClientType, InOrder, Connected, Finished
    PROVE  InOrder' /\ (~crossed => reader.reply = Head(waiting.buf))
  <1> DEFINE x == reader.reply
             o == conn.out
             n == conn.in
             b == waiting.buf
             w == WrittenBy(writer, conn)
             R == <<>> \o o \o n
             E == Tail(b) \o w
  <1>1. /\ reader.pc = "finish" /\ reader'.pc = "read" /\ x \in Request
        /\ b # <<>> /\ Head(b) \in Request
        /\ waiting'.buf = Tail(b) /\ waiting'.gen = waiting.gen
        /\ UNCHANGED <<conn, writer, crossed>>
    BY FinishedEffect
  <1>2. waiting.gen = conn.gen
    BY <1>1 DEF Connected
  <1>3. o \in Seq(Request) /\ n \in Seq(Request) /\ w \in Seq(Request) /\ b \in Seq(Request)
    BY RepliesParts, ExpectedParts, Fields
  <1>4. Replies = <<x>> \o o \o n /\ Expected = b \o w
    BY <1>1, <1>2, ExpectedIs, RepliesAre DEF ReadBy, QueuedIn
  <1>5. Expected' = E
    BY <1>1, <1>2, Afterwards DEF QueuedIn
  <1>6. Replies' = R
    BY <1>1, Afterwards DEF ReadBy
  <1>7. ~crossed => /\ Agree(Replies, Expected)
                    /\ conn.up /\ ~conn.closed => Len(Replies) = Len(Expected)
    BY DEF InOrder, Agree
  <1>t. x \in Request /\ b # <<>> /\ Head(b) \in Request
    BY <1>1
  <1>u. R \in Seq(Request) /\ E \in Seq(Request)
    <2>1. Tail(b) \in Seq(Request)
      BY <1>3, <1>t
    <2>2. E \in Seq(Request)
      BY <1>3, <2>1, TwoParts
    <2>3. <<>> \o o \in Seq(Request)
      BY <1>3, EmptyEnds
    <2>4. R \in Seq(Request)
      BY <1>3, <2>3, TwoParts
    <2> QED
      BY <2>2, <2>4
  <1>8. Replies = <<x>> \o R /\ Expected = <<Head(b)>> \o E
    <2> HIDE DEF x, o, n, b, w
    <2>1. <<x>> \o o \o n = <<x>> \o (<<>> \o o \o n)
      BY <1>3, <1>t, ReplyDrops
    <2>2. b \o w = <<Head(b)>> \o (Tail(b) \o w)
      BY <1>3, <1>t, RequestDrops
    <2> QED
      BY <1>4, <2>1, <2>2
  <1>v. UNCHANGED <<conn, crossed>>
    BY <1>1
  <1> DEFINE h == Head(b)
  <1>h. h \in Request
    BY <1>1
  <1> HIDE DEF x, o, n, b, w, R, E, h
  <1>9. Agree(<<x>> \o R, <<h>> \o E) =>
          /\ x = h /\ Agree(R, E)
          /\ Len(<<x>> \o R) = Len(<<h>> \o E) => Len(R) = Len(E)
    BY <1>t, <1>u, <1>h, AgreeTail
  <1>10. ~crossed => /\ x = h /\ Agree(R, E)
                     /\ conn.up /\ ~conn.closed => Len(R) = Len(E)
    BY <1>7, <1>8, <1>9 DEF h
  <1> QED
    BY <1>5, <1>6, <1>10, <1>v DEF InOrder, Agree, x, h, b

\* Every step keeps the replies in the order of the requests.
LEMMA StepInOrder ==
    ASSUME ClientType, ClientType', InOrder, Connected, Connected', Step
    PROVE  InOrder'
  <1>1. ASSUME NEW s \in Sender, SendStart(s) \/ SendReturns(s) \/ Timeout(s) PROVE InOrder'
    BY <1>1, SendFrame, SameExpected, SameReplies, Unmoved
  <1>2. ASSUME NEW s \in Sender, Push(s) /\ ~Panic PROVE InOrder'
    BY <1>2, PushEffect, SameExpected, SameReplies, Unmoved
  <1>3. CASE TakePending
    BY <1>3, TakePendingEffect, SameExpected, SameReplies, Unmoved
  <1>4. CASE Written
    BY <1>4, WrittenInOrder
  <1>5. CASE NotWritten
    BY <1>5, NotWrittenEffect, SameExpected, SameReplies, Unmoved
  <1>6. CASE Queue /\ ~Panic
    <2>1. /\ writer.pc = "queue" /\ writer.req \in Request
          /\ waiting'.buf = Append(waiting.buf, writer.req) /\ waiting'.gen = waiting.gen
          /\ crossed' = (crossed \/ waiting.gen # writer.gen)
          /\ writer'.pc = "take"
          /\ UNCHANGED <<conn, reader>>
      BY <1>6, QueueEffect
    <2>2. CASE crossed'
      BY <2>2 DEF InOrder
    <2>3. CASE ~crossed'
      <3>1. waiting.gen = writer.gen /\ ~crossed
        BY <2>1, <2>3
      <3>2. Replies' = Replies
        BY <2>1, SameReplies
      <3>3. Expected' = Expected
        <4>1. CASE waiting.gen = conn.gen
          <5>1. Expected = waiting.buf \o <<writer.req>>
            BY <2>1, <3>1, <4>1, ExpectedIs DEF QueuedIn, WrittenBy
          <5>2. Expected' = Append(waiting.buf, writer.req) \o <<>>
            BY <2>1, <4>1, Afterwards DEF QueuedIn, WrittenBy
          <5>3. waiting.buf \in Seq(Request) /\ writer.req \in Request
            BY <2>1, Fields
          <5>4. Append(waiting.buf, writer.req) \o <<>> = waiting.buf \o <<writer.req>>
            BY <5>3, WriteAppends
          <5> QED
            BY <5>1, <5>2, <5>4
        <4>2. CASE waiting.gen # conn.gen
          <5>1. Expected = <<>> \o <<>>
            BY <2>1, <3>1, <4>2, ExpectedIs DEF QueuedIn, WrittenBy
          <5>2. Expected' = <<>> \o <<>>
            BY <2>1, <4>2, Afterwards DEF QueuedIn, WrittenBy
          <5> QED
            BY <5>1, <5>2
        <4> QED
          BY <4>1, <4>2
      <3> QED
        BY <2>1, <3>1, <3>2, <3>3, Unmoved
    <2> QED
      BY <2>2, <2>3
  <1>7. CASE Answer
    <2>1. /\ conn.in # <<>> /\ conn'.in = Tail(conn.in) /\ conn'.out = Append(conn.out, Head(conn.in))
          /\ conn'.up = conn.up /\ conn'.closed = conn.closed /\ conn'.gen = conn.gen
          /\ UNCHANGED <<waiting, writer, reader, crossed>>
      BY <1>7, AnswerEffect
    <2>2. ReadBy(reader) \in Seq(Request) /\ conn.out \in Seq(Request) /\ conn.in \in Seq(Request)
      BY RepliesParts
    <2>3. Replies' = ReadBy(reader) \o Append(conn.out, Head(conn.in)) \o Tail(conn.in)
      BY <2>1, Afterwards
    <2>4. ReadBy(reader) \o Append(conn.out, Head(conn.in)) \o Tail(conn.in) = Replies
      <3> DEFINE r == ReadBy(reader)
                 o == conn.out
                 n == conn.in
      <3>1. r \in Seq(Request) /\ o \in Seq(Request) /\ n \in Seq(Request) /\ n # <<>>
        BY <2>1, <2>2
      <3> HIDE DEF r, o, n
      <3>2. Answered(r, o, n) = r \o o \o n
        BY <3>1, AnswerMoves
      <3> QED
        BY <3>2, RepliesAre, Zenon DEF r, o, n, Answered
    <2>5. Expected' = Expected
      BY <2>1, SameExpected
    <2>6. Replies' = Replies
      BY <2>3, <2>4
    <2> QED
      BY <2>1, <2>5, <2>6, Unmoved
  <1>8. CASE Break
    <2>1. /\ conn'.in = <<>> /\ conn'.out = conn.out /\ ~conn'.up /\ conn'.gen = conn.gen
          /\ UNCHANGED <<waiting, writer, reader, crossed>>
      BY <1>8, BreakEffect
    <2>2. Expected' = Expected
      BY <2>1, SameExpected
    <2>3. ReadBy(reader) \in Seq(Request) /\ conn.out \in Seq(Request) /\ conn.in \in Seq(Request)
      BY RepliesParts
    <2> DEFINE a == ReadBy(reader) \o conn.out
               n == conn.in
    <2>4. a \in Seq(Request) /\ n \in Seq(Request)
      BY <2>3, TwoParts
    <2>5. Replies = a \o n /\ Replies' = a \o <<>>
      BY <2>1, RepliesAre, Afterwards
    <2>6. ~crossed => Len(Replies) <= Len(Expected) /\ \A i \in 1 .. Len(Replies) : Replies[i] = Expected[i]
      BY DEF InOrder
    <2>7. Expected \in Seq(Request)
      BY ExpectedParts
    <2> DEFINE e == Expected
               R == Replies
    <2> HIDE DEF a, n, e, R
    <2>8. a \o <<>> = a
      BY <2>4, EmptyEnds
    <2>9. Len(R) = Len(a) + Len(n) /\ Len(a) \in Nat /\ Len(n) \in Nat /\ Len(e) \in Nat
          /\ \A i \in 1 .. Len(a) : R[i] = a[i]
      BY <2>4, <2>5, <2>7, TwoParts DEF R, e
    <2>10. ~crossed => Len(a) <= Len(e) /\ \A i \in 1 .. Len(a) : a[i] = e[i]
      <3>1. ~crossed => Len(R) <= Len(e) /\ \A i \in 1 .. Len(R) : R[i] = e[i]
        BY <2>6 DEF R, e
      <3> QED
        BY <2>9, <3>1
    <2> QED
      BY <2>1, <2>2, <2>5, <2>8, <2>10 DEF InOrder, e
  <1>9. CASE Read
    <2>1. /\ reader.pc = "read" /\ reader'.pc = "finish" /\ reader'.reply = Head(conn.out)
          /\ conn.out # <<>> /\ conn'.out = Tail(conn.out) /\ conn'.in = conn.in
          /\ conn'.up = conn.up /\ conn'.closed = conn.closed /\ conn'.gen = conn.gen
          /\ UNCHANGED <<waiting, writer, crossed>>
      BY <1>9, ReadEffect
    <2>2. conn.out \in Seq(Request) /\ conn.in \in Seq(Request)
      BY RepliesParts
    <2>3. /\ Replies' = <<Head(conn.out)>> \o Tail(conn.out) \o conn.in
          /\ Replies = <<>> \o conn.out \o conn.in
      BY <2>1, Afterwards, RepliesAre DEF ReadBy
    <2>4. Replies' = Replies
      BY <2>1, <2>2, <2>3, ReadMoves
    <2>5. Expected' = Expected
      BY <2>1, SameExpected
    <2> QED
      BY <2>1, <2>4, <2>5, Unmoved
  <1>10. CASE Finished
    BY <1>10, FinishedInOrder
  <1>11. CASE NobodyWaits
    <2>1. /\ reader.pc = "finish" /\ reader'.pc = "read" /\ waiting.closed /\ UNCHANGED conn
      BY <1>11, NobodyWaitsEffect
    <2>2. conn'.closed /\ conn'.in = <<>> /\ conn'.out = <<>>
      BY <2>1 DEF Connected
    <2>3. Replies' = <<>>
      BY <2>1, <2>2, Afterwards DEF ReadBy
    <2> QED
      BY <2>2, <2>3, NoReplies
  <1>12. CASE ReadError
    <2>1. /\ reader'.pc \in {"ended", "dial"} /\ (conn.closed \/ ~conn.up)
          /\ conn'.out = <<>> /\ conn'.in = conn.in /\ conn'.up = conn.up
          /\ conn.closed => conn'.closed
      BY <1>12, ReadErrorEffect
    <2>2. conn'.in = <<>>
      BY <2>1 DEF Connected
    <2>3. Replies' = <<>>
      BY <2>1, <2>2, Afterwards DEF ReadBy
    <2> QED
      BY <2>1, <2>3, NoReplies
  <1>13. CASE Dialled
    <2>1. /\ reader.pc = "dial" /\ reader'.pc = "fail" /\ conn'.out = <<>> /\ conn'.in = <<>>
          /\ conn'.gen = conn.gen + 1
          /\ UNCHANGED <<waiting, writer>>
      BY <1>13, DialledEffect
    <2>2. Replies' = <<>>
      BY <2>1, Afterwards DEF ReadBy
    <2>3. waiting.gen # conn.gen + 1 /\ (writer.pc = "queue" => writer.gen # conn.gen + 1)
      BY <2>1, Fields DEF Connected
    <2>4. Expected' = <<>> \o <<>>
      BY <2>1, <2>3, Afterwards DEF QueuedIn, WrittenBy
    <2>5. Len(Expected') = 0
      BY <2>4
    <2> QED
      BY <2>2, <2>5, NoReplies
  <1>14. CASE NotDialled
    BY <1>14, NotDialledEffect, SameExpected, SameReplies, Unmoved
  <1>15. CASE FailWaiting /\ ~Panic
    <2>1. /\ reader.pc = "fail" /\ reader'.pc = "replace" /\ waiting'.gen = waiting.gen
          /\ UNCHANGED <<conn, writer, crossed>>
      BY <1>15, FailWaitingEffect
    <2>2. waiting.gen # conn.gen
      BY <2>1, Fields DEF Connected
    <2>3. Expected' = Expected
      BY <2>1, <2>2 DEF Expected
    <2> QED
      BY <2>1, <2>3, SameReplies, Unmoved
  <1>16. CASE ReplaceWaiting
    <2>1. /\ reader.pc = "replace" /\ reader'.pc = "read" /\ waiting'.buf = <<>>
          /\ UNCHANGED <<conn, writer, crossed>>
      BY <1>16, ReplaceWaitingEffect
    <2>2. waiting.gen # conn.gen
      BY <2>1, Fields DEF Connected
    <2>3. Expected' = Expected
      BY <2>1, <2>2 DEF Expected
    <2> QED
      BY <2>1, <2>3, SameReplies, Unmoved
  <1>17. CASE (Close \/ ReaderClose) /\ ~Panic
    BY <1>17, StopEffect, SameExpected, SameReplies, Unmoved
  <1>18. CASE (CloseEnd \/ ReaderCloseEnd) /\ ~Panic
    <2>1. /\ waiting'.buf = waiting.buf /\ waiting'.gen = waiting.gen
          /\ conn'.in = <<>> /\ conn'.out = <<>> /\ conn'.closed /\ conn'.gen = conn.gen
          /\ reader' # reader => reader.pc = "wait" /\ reader'.pc = "ended"
          /\ UNCHANGED <<writer, crossed>>
      BY <1>18, CleanEffect
    <2>2. Expected' = Expected
      BY <2>1, SameExpected
    <2> DEFINE a == ReadBy(reader)
               n == conn.out \o conn.in
               e == Expected
               R == Replies
    <2>3. a \in Seq(Request) /\ n \in Seq(Request) /\ e \in Seq(Request)
      BY RepliesParts, ExpectedParts, TwoParts
    <2>4. ReadBy(reader') = a
      BY <2>1 DEF ReadBy
    <2>5. Replies' = a
      <3>1. Replies' = a \o <<>> \o <<>>
        BY <2>1, <2>4, Afterwards
      <3>2. a \o <<>> = a
        BY <2>3, EmptyEnds
      <3> QED
        BY <3>1, <3>2
    <2>6. R = a \o n
      <3> DEFINE o == conn.out
                 i == conn.in
      <3>1. a \in Seq(Request) /\ o \in Seq(Request) /\ i \in Seq(Request)
        BY RepliesParts
      <3>2. R = a \o o \o i /\ n = o \o i
        BY RepliesAre
      <3> HIDE DEF a, n, R, o, i
      <3>3. (a \o o) \o i = a \o (o \o i)
        BY <3>1, Associative
      <3> QED
        BY <3>2, <3>3
    <2>7. ~crossed => Len(R) <= Len(e) /\ \A i \in 1 .. Len(R) : R[i] = e[i]
      BY DEF InOrder
    <2> HIDE DEF a, n, e, R
    <2>9. Len(R) = Len(a) + Len(n) /\ Len(a) \in Nat /\ Len(n) \in Nat /\ Len(e) \in Nat
          /\ \A i \in 1 .. Len(a) : R[i] = a[i]
      BY <2>3, <2>6, TwoParts
    <2>10. ~crossed => Len(a) <= Len(e) /\ \A i \in 1 .. Len(a) : a[i] = e[i]
      BY <2>7, <2>9
    <2> QED
      BY <2>1, <2>2, <2>5, <2>10 DEF InOrder, e
  <1> QED
    BY <1>1, <1>2, <1>3, <1>4, <1>5, <1>6, <1>7, <1>8, <1>9, <1>10, <1>11, <1>12, <1>13, <1>14, <1>15,
       <1>16, <1>17, <1>18 DEF Step

-----------------------------------------------------------------------------
\* A request is finished by its own reply or by an error, and once.
LEMMA StepMatched ==
    ASSUME ClientType, ClientInv, Step
    PROVE  Matched'
  <1>0. /\ Once /\ Connected /\ InOrder /\ Matched
    BY DEF ClientInv
  <1>1. CASE NotWritten
    <2>1. /\ writer.req \in Request /\ writer.pc = "write" /\ crossed' = crossed
          /\ result' = [result EXCEPT ![writer.req] = Append(@, Error)]
      BY <1>1, NotWrittenEffect
    <2>2. result[writer.req] = <<>>
      BY <1>0, <2>1 DEF Once, Underway, None
    <2>3. \A q \in Request : result'[q] = IF q = writer.req THEN <<Error>> ELSE result[q]
      BY <2>1, <2>2 DEF ClientType
    <2> QED
      BY <1>0, <2>1, <2>3 DEF Matched
  <1>2. CASE Finished
    <2> DEFINE h == Head(waiting.buf)
    <2>1. /\ h \in Request /\ crossed' = crossed /\ waiting.buf # <<>> /\ reader.reply \in Request
          /\ result' = [result EXCEPT ![h] = Append(@, reader.reply)]
      BY <1>2, FinishedEffect
    <2>2. ~crossed => reader.reply = h
      BY <1>0, <1>2, FinishedInOrder
    <2>3. h \in Range(waiting.buf)
      BY <2>1, Fields, Received
    <2> HIDE DEF h
    <2>4. result[h] = <<>>
      BY <1>0, <2>1, <2>3 DEF Once, Underway, None
    <2>5. \A q \in Request : result'[q] = IF q = h THEN <<reader.reply>> ELSE result[q]
      BY <2>1, <2>4 DEF ClientType
    <2> QED
      BY <1>0, <2>1, <2>2, <2>5 DEF Matched
  <1>3. CASE FailWaiting /\ ~Panic
    <2>1. result' = Failed /\ crossed' = crossed
      BY <1>3, FailWaitingEffect
    <2>2. ASSUME NEW q \in Request
          PROVE  result'[q] = IF q \in Range(waiting.buf) THEN <<Error>> ELSE result[q]
      <3>1. result'[q] = IF q \in Range(waiting.buf) THEN Append(result[q], Error) ELSE result[q]
        BY <2>1 DEF Failed
      <3>2. q \in Range(waiting.buf) => result[q] = <<>>
        BY <1>0 DEF Once, Underway, None
      <3>3. Append(<<>>, Error) = <<Error>>
        OBVIOUS
      <3> QED
        BY <3>1, <3>2, <3>3
    <2> QED
      BY <1>0, <2>1, <2>2 DEF Matched
  <1>4. CASE \/ \E s \in Sender : SendStart(s) \/ SendReturns(s) \/ Timeout(s)
             \/ \E s \in Sender : Push(s) /\ ~Panic
             \/ TakePending \/ Written \/ (Queue /\ ~Panic)
             \/ Answer \/ Break \/ Read \/ NobodyWaits \/ ReadError \/ Dialled \/ NotDialled
             \/ ReplaceWaiting
             \/ ((Close \/ ReaderClose) /\ ~Panic) \/ ((CloseEnd \/ ReaderCloseEnd) /\ ~Panic)
    <2>1. result' = result /\ (~crossed' => ~crossed)
      <3>1. CASE \/ \E s \in Sender : SendStart(s) \/ SendReturns(s) \/ Timeout(s)
                 \/ \E s \in Sender : Push(s) /\ ~Panic
        BY <3>1, SendFrame, PushEffect
      <3>2. CASE TakePending \/ Written
        BY <3>2, TakePendingEffect, WrittenEffect
      <3>3. CASE Queue /\ ~Panic
        BY <3>3, QueueEffect
      <3>4. CASE Answer \/ Break \/ Read \/ NobodyWaits
        BY <3>4, AnswerEffect, BreakEffect, ReadEffect, NobodyWaitsEffect
      <3>5. CASE ReadError \/ Dialled \/ NotDialled \/ ReplaceWaiting
        BY <3>5, ReadErrorEffect, DialledEffect, NotDialledEffect, ReplaceWaitingEffect
      <3>6. CASE ((Close \/ ReaderClose) /\ ~Panic) \/ ((CloseEnd \/ ReaderCloseEnd) /\ ~Panic)
        BY <3>6, StopEffect, CleanEffect
      <3> QED
        BY <1>4, <3>1, <3>2, <3>3, <3>4, <3>5, <3>6
    <2> QED
      BY <1>0, <2>1 DEF Matched
  <1> QED
    BY <1>1, <1>2, <1>3, <1>4 DEF Step

\* A panic changes nothing of this.
LEMMA ClientStutters ==
    ASSUME ClientInv, Panic \/ UNCHANGED vars
    PROVE  ClientInv'
  <1>1. UNCHANGED <<status, pc, sent, result, pending, waiting, conn, writer, reader, crossed>>
    BY DEF Panic, vars, senders, channels, threads
  <1>2. ClientType'
    BY <1>1 DEF ClientInv, ClientType
  <1>3. Once'
    BY <1>1 DEF ClientInv, Once, Underway, Begun
  <1>4. Connected'
    BY <1>1 DEF ClientInv, Connected
  <1>5. InOrder'
    BY <1>1 DEF ClientInv, InOrder, Replies, Expected
  <1>6. Matched'
    BY <1>1 DEF ClientInv, Matched
  <1> QED
    BY <1>2, <1>3, <1>4, <1>5, <1>6 DEF ClientInv

\* ClientInv is inductive.
LEMMA ClientNext ==
    ASSUME ClientInv, [Next]_vars
    PROVE  ClientInv'
  <1>1. CASE Step
    <2>1. ClientType /\ Once /\ Connected /\ InOrder
      BY DEF ClientInv
    <2>2. ClientType' /\ Once' /\ Connected'
      BY <1>1, <2>1, StepType, StepOnce, StepConnected
    <2>3. InOrder' /\ Matched'
      BY <1>1, <2>1, <2>2, StepInOrder, StepMatched
    <2> QED
      BY <2>2, <2>3 DEF ClientInv
  <1> QED
    BY <1>1, StepCases, ClientStutters

\* ClientInv holds of a client that has started.
LEMMA ClientInit ==
    ASSUME Bounds, Init
    PROVE  ClientInv
  <1>0. <<>> \in Seq(Request) /\ Len(<<>>) = 0 /\ 0 \in Nat
    OBVIOUS
  <1>1. /\ pending \in Channel /\ waiting \in Channel /\ conn \in Connection
        /\ pending.buf = <<>> /\ waiting.buf = <<>> /\ waiting.gen = 0 /\ ~waiting.closed
        /\ conn.gen = 0 /\ conn.in = <<>> /\ conn.out = <<>> /\ conn.up /\ ~conn.closed
    BY <1>0, ChanType DEF Init
  <1>2. writer \in Writer /\ writer.pc = "take" /\ reader \in Reader /\ reader.pc = "read"
    BY DEF Init, Writer, Reader
  <1>3. /\ result \in [Request -> Seq(Request \cup {Error})] /\ \A q \in Request : result[q] = None
        /\ pc \in [Sender -> {"idle", "push", "wait"}] /\ sent \in [Sender -> 0 .. MaxReq]
        /\ \A s \in Sender : pc[s] # "push"
    BY DEF Bounds, Init, None
  <1>4. status = "running" /\ crossed = FALSE
    BY DEF Init
  <1>5. ClientType
    <2>1. Len(pending.buf) <= chanSize /\ Len(waiting.buf) <= chanSize
      BY <1>0, <1>1 DEF Bounds
    <2>2. writer \in Writer /\ reader \in Reader /\ reader.pc # "finish"
      BY <1>2
    <2>3. pending \in Channel /\ waiting \in Channel /\ conn \in Connection
      BY <1>1
    <2> QED
      BY <1>2, <1>3, <1>4, <2>1, <2>2, <2>3 DEF ClientType
  <1>6. Range(pending.buf) = {} /\ Range(waiting.buf) = {}
        /\ IsInjective(pending.buf) /\ IsInjective(waiting.buf)
    BY <1>1 DEF Range, IsInjective
  <1>7. Once
    BY <1>2, <1>3, <1>6 DEF Once, Underway
  <1>8. Connected
    BY <1>1, <1>2 DEF Connected
  <1>9. Replies = <<>> \o <<>> \o <<>> /\ Expected = <<>> \o <<>>
    BY <1>1, <1>2 DEF Replies, Expected
  <1>10. Len(Replies) = 0 /\ Len(Expected) = 0
    BY <1>9
  <1>11. InOrder /\ Matched
    BY <1>3, <1>10 DEF InOrder, Matched
  <1> QED
    BY <1>5, <1>7, <1>8, <1>11 DEF ClientInv

\* ClientInv is strong enough for RepliesMatch.
LEMMA ClientSafe ==
    ASSUME ClientInv
    PROVE  RepliesMatch
  <1>1. TypeOK
    BY DEF ClientInv, ClientType, Once, TypeOK
  <1> QED
    BY <1>1 DEF ClientInv, Matched, RepliesMatch

\* RepliesMatch for every instance: a reply goes to the request it answers, and a
\* request is finished once (doRequest, finishRequest, reconnect).
THEOREM RepliesGoToTheirRequests == Bounds /\ Spec => []RepliesMatch
  <1>1. Bounds /\ Init => ClientInv
    BY ClientInit
  <1>2. ClientInv /\ [Next]_vars => ClientInv'
    BY ClientNext
  <1>3. ClientInv => RepliesMatch
    BY ClientSafe
  <1> QED
    BY <1>1, <1>2, <1>3, PTL DEF Spec
=============================================================================
