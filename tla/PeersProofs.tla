---------------------------- MODULE PeersProofs -----------------------------
(***************************************************************************)
(* Proofs about the pool of clients and the client, for every value of     *)
(* their constants.  The pool: an object is in one place and maxActive     *)
(* bounds the objects, from the invariant PoolInv of module Pool.  The     *)
(* client: its theorems are those of ClientProofs, instantiated.           *)
(***************************************************************************)
EXTENDS MCPeers, FiniteSetTheorems, TLAPS

-----------------------------------------------------------------------------
(* Sequences *)

\* An element is taken from the front of a channel.
LEMMA Received ==
    ASSUME NEW S, NEW s \in Seq(S), s # <<>>
    PROVE  /\ Head(s) \in S /\ Tail(s) \in Seq(S) /\ Len(Tail(s)) = Len(s) - 1 /\ Len(s) \in Nat
           /\ Range(s) = Range(Tail(s)) \cup {Head(s)}
           /\ IsInjective(s) => IsInjective(Tail(s)) /\ Head(s) \notin Range(Tail(s))
  <1>1. Head(s) = s[1] /\ Head(s) \in S /\ Tail(s) \in Seq(S) /\ Len(Tail(s)) = Len(s) - 1 /\ Len(s) \in Nat \ {0}
    OBVIOUS
  <1>2. \A i \in 1 .. Len(s) - 1 : Tail(s)[i] = s[i + 1]
    OBVIOUS
  <1>3. DOMAIN s = 1 .. Len(s) /\ DOMAIN Tail(s) = 1 .. Len(s) - 1
    OBVIOUS
  <1>4. ASSUME NEW x PROVE x \in Range(s) <=> x \in Range(Tail(s)) \/ x = Head(s)
    <2>1. ASSUME NEW i \in 1 .. Len(s) PROVE i = 1 \/ (i - 1 \in 1 .. Len(s) - 1 /\ s[i] = Tail(s)[i - 1])
      BY <1>1, <1>2
    <2>2. 1 \in 1 .. Len(s) /\ \A i \in 1 .. Len(s) - 1 : i + 1 \in 1 .. Len(s)
      BY <1>1
    <2>3. ASSUME x \in Range(s) PROVE x \in Range(Tail(s)) \/ x = Head(s)
      BY <1>1, <1>3, <2>1, <2>3 DEF Range
    <2>4. ASSUME x \in Range(Tail(s)) \/ x = Head(s) PROVE x \in Range(s)
      BY <1>1, <1>2, <1>3, <2>2, <2>4 DEF Range
    <2> QED
      BY <2>3, <2>4
  <1>5. ASSUME IsInjective(s) PROVE IsInjective(Tail(s)) /\ Head(s) \notin Range(Tail(s))
    BY <1>1, <1>2, <1>3, <1>5 DEF IsInjective, Range
  <1> QED
    BY <1>1, <1>4, <1>5

\* An element is sent to the back of a channel.
LEMMA Sent ==
    ASSUME NEW S, NEW s \in Seq(S), NEW e \in S
    PROVE  /\ Append(s, e) \in Seq(S) /\ Len(Append(s, e)) = Len(s) + 1 /\ Len(s) \in Nat
           /\ Range(Append(s, e)) = Range(s) \cup {e}
           /\ IsInjective(s) /\ e \notin Range(s) => IsInjective(Append(s, e))
  <1>1. Append(s, e) \in Seq(S) /\ Len(Append(s, e)) = Len(s) + 1 /\ Len(s) \in Nat
    OBVIOUS
  <1>2. Append(s, e)[Len(s) + 1] = e /\ \A i \in 1 .. Len(s) : Append(s, e)[i] = s[i]
    OBVIOUS
  <1>3. DOMAIN s = 1 .. Len(s) /\ DOMAIN Append(s, e) = 1 .. Len(s) + 1
    OBVIOUS
  <1>4. ASSUME NEW x PROVE x \in Range(Append(s, e)) <=> x \in Range(s) \/ x = e
    <2>1. Len(s) + 1 \in 1 .. Len(s) + 1 /\ \A i \in 1 .. Len(s) + 1 : i \in 1 .. Len(s) \/ i = Len(s) + 1
      BY <1>1
    <2>2. \A i \in 1 .. Len(s) : i \in 1 .. Len(s) + 1
      BY <1>1
    <2> QED
      BY <1>2, <1>3, <2>1, <2>2 DEF Range
  <1>5. ASSUME IsInjective(s), e \notin Range(s) PROVE IsInjective(Append(s, e))
    BY <1>1, <1>2, <1>3, <1>5 DEF IsInjective, Range
  <1> QED
    BY <1>1, <1>4, <1>5

\* What a channel holds is of its type.
LEMMA InSeq ==
    ASSUME NEW S, NEW s \in Seq(S)
    PROVE  Range(s) \subseteq S
  BY DEF Range

-----------------------------------------------------------------------------
(* Where the objects are *)

\* Where the objects are, as Lending says it, leaves no object in two hands.
LEMMA LendingExcludes ==
    ASSUME PoolType, Custody, Lending
    PROVE  Exclusive
  <1> DEFINE Lent == {obj[b] : b \in Held}
  <1>1. Range(idles) \subseteq Object /\ Nil \notin Range(idles)
    BY InSeq, PoolAssumption DEF PoolType
  <1>2. \A x : x \in Lent <=> \E b \in Borrower : obj[b] = x /\ x # Nil
    BY DEF Held
  <1>3. Lent \subseteq Object
    <2>1. obj \in [Borrower -> Object \cup {Nil}]
      BY DEF PoolType, TypeOK
    <2> QED
      BY <2>1 DEF Held
  <1>4. Lent \cap Range(idles) = {}
    BY <1>2 DEF Lending
  <1>5. alive = Lent \cup Range(idles)
    BY <1>1, <1>2, <1>3, PoolAssumption DEF Lending, PoolType, TypeOK
  <1>6. \A b, c \in Held : obj[b] = obj[c] => b = c
    BY DEF Held, Lending
  <1> QED
    BY <1>4, <1>5, <1>6 DEF Exclusive, Lending, PoolType, Custody

-----------------------------------------------------------------------------
(* Types *)

\* activeCount wraps within its width.
LEMMA Modulo == \A x \in Int : x % Word \in 0 .. Word - 1
  BY PoolAssumption

\* Every step of the pool keeps the types.
LEMMA TypeStep ==
    ASSUME PoolType, Custody, Next
    PROVE  PoolType'
  <1> USE DEF PoolType, TypeOK
  <1>1. /\ idles # <<>> => /\ Head(idles) \in Object /\ Tail(idles) \in Seq(Object)
                           /\ Len(Tail(idles)) <= MaxIdle
        /\ waitingReqs # <<>> => Head(waitingReqs) \in Borrower /\ Tail(waitingReqs) \in Seq(Borrower)
    BY Received, PoolAssumption
  <1>2. \A b \in Borrower : Append(waitingReqs, b) \in Seq(Borrower)
    BY Sent
  <1>3. \A x \in Object : Append(idles, x) \in Seq(Object) /\ Len(Append(idles, x)) = Len(idles) + 1
    BY Sent
  <1>4. Len(idles) \in Nat /\ MaxIdle \in Nat
    BY PoolAssumption
  <1>5. \A b \in Borrower, d \in {-1, 1} : (loaded[b] + d) % Word \in 0 .. Word - 1
    <2>1. \A b \in Borrower, d \in {-1, 1} : loaded[b] + d \in Int
      BY PoolAssumption
    <2> QED
      BY <2>1, Modulo
  <1>6. 0 \in 0 .. Word - 1
    BY PoolAssumption
  <1>7. ASSUME NEW b \in Borrower,
               Get(b) \/ WrongType(b) \/ Receive(b) \/ PutFull(b)
        PROVE  PoolType'
    BY <1>7 DEF Get, WrongType, Receive, PutFull, Goto
  <1>8. ASSUME NEW b \in Borrower, SelectIdle(b)
        PROVE  PoolType'
    BY <1>1, <1>8 DEF SelectIdle, Goto, Take
  <1>9. ASSUME NEW b \in Borrower, getOnNoIdle(b) \/ factoryFails(b) \/ LoadCount(b)
        PROVE  PoolType'
    BY <1>2, <1>9 DEF getOnNoIdle, factoryFails, LoadCount, Goto, Load
  <1>10. ASSUME NEW b \in Borrower, HoldPlace(b) \/ GiveBack(b)
         PROVE  PoolType'
    BY <1>5, <1>6, <1>10 DEF HoldPlace, GiveBack, Goto, Store
  <1>11. ASSUME NEW b \in Borrower, factory(b)
         PROVE  PoolType'
    <2>1. PICK x \in Object : Take(b, x) /\ alive' = alive \cup {x}
      BY <1>11 DEF factory, Fresh
    <2> QED
      BY <1>11, <2>1 DEF factory, Goto, Take
  <1>12. ASSUME NEW b \in Borrower, PutClosed(b) \/ PutWaiting(b)
         PROVE  PoolType'
    BY <1>1, <1>12 DEF PutClosed, PutWaiting, Goto, Take
  <1>13. ASSUME NEW b \in Borrower, PutIdle(b)
         PROVE  PoolType'
    <2>1. obj[b] \in Object
      BY <1>13 DEF PutIdle, Custody
    <2> QED
      BY <1>3, <1>4, <1>13, <2>1 DEF PutIdle, Goto, Take
  <1>14. ASSUME NEW b \in Borrower, StoreCount(b)
         PROVE  PoolType'
    BY <1>5, <1>6, <1>14 DEF StoreCount, Goto, Take, Store
  <1>15. CASE Close
    BY <1>15 DEF Close
  <1>16. CASE Drain
    BY <1>1, <1>16 DEF Drain
  <1> QED
    BY <1>7, <1>8, <1>9, <1>10, <1>11, <1>12, <1>13, <1>14, <1>15, <1>16 DEF Next, Step, Put

-----------------------------------------------------------------------------
(* Custody and lending *)

\* A goroutine goes on, and objects and queues stay as they are.
LEMMA MovesOn ==
    ASSUME PoolType, Custody, Lending, NEW b \in Borrower, NEW l, Goto(b, l),
           UNCHANGED <<obj, idles, waitingReqs, alive>>,
           pc[b] # "waiting" \/ obj[b] # Nil,
           l \in {"has", "load", "store"} => obj[b] # Nil,
           obj[b] # Nil => l \in {"has", "load", "store", "waiting"}
    PROVE  Custody' /\ Lending'
  <1>1. \A c \in Borrower : pc'[c] = IF c = b THEN l ELSE pc[c]
    BY DEF Goto, PoolType, TypeOK
  <1>2. Range(waitingReqs) \subseteq Borrower
    BY InSeq DEF PoolType
  <1>3. b \notin Range(waitingReqs)
    BY DEF Custody
  <1>4. Custody'
    BY <1>1, <1>2, <1>3 DEF Custody
  <1> QED
    BY <1>4 DEF Lending

\* The steps that move no object and queue no request.
LEMMA PlainSteps ==
    ASSUME PoolType, Custody, Lending, NEW b \in Borrower,
           Get(b) \/ WrongType(b) \/ HoldPlace(b) \/ factoryFails(b) \/ GiveBack(b)
           \/ Receive(b) \/ PutFull(b) \/ LoadCount(b)
    PROVE  Custody' /\ Lending'
  <1>1. UNCHANGED <<obj, idles, waitingReqs, alive>>
    BY DEF Get, WrongType, HoldPlace, factoryFails, GiveBack, Receive, PutFull, LoadCount
  <1>2. CASE Get(b) \/ WrongType(b) \/ HoldPlace(b) \/ factoryFails(b) \/ GiveBack(b)
    <2>1. pc[b] # "waiting" /\ obj[b] = Nil
      BY <1>2 DEF Get, WrongType, HoldPlace, factoryFails, GiveBack, Custody
    <2>2. Goto(b, "select") \/ Goto(b, "out") \/ Goto(b, "create") \/ Goto(b, "giveBack")
      BY <1>2 DEF Get, WrongType, HoldPlace, factoryFails, GiveBack
    <2> QED
      BY <1>1, <2>1, <2>2, MovesOn
  <1>3. CASE Receive(b)
    BY <1>1, <1>3, MovesOn DEF Receive
  <1>4. CASE PutFull(b) \/ LoadCount(b)
    <2>1. pc[b] # "waiting" /\ obj[b] # Nil /\ (Goto(b, "load") \/ Goto(b, "store"))
      BY <1>4 DEF PutFull, LoadCount, Custody
    <2> QED
      BY <1>1, <2>1, MovesOn
  <1> QED
    BY <1>2, <1>3, <1>4

\* Get takes an idle object.
LEMMA SelectIdleStep ==
    ASSUME PoolType, Custody, Lending, NEW b \in Borrower, SelectIdle(b)
    PROVE  Custody' /\ Lending'
  <1>1. obj[b] = Nil /\ b \notin Range(waitingReqs) /\ pc[b] = "select"
    BY DEF SelectIdle, Custody
  <1>2. CASE (Goto(b, "nil") \/ Goto(b, "noIdle")) /\ UNCHANGED <<obj, idles>>
    BY <1>1, <1>2, MovesOn DEF SelectIdle
  <1>3. CASE idles # <<>> /\ Take(b, Head(idles)) /\ idles' = Tail(idles) /\ Goto(b, "has")
    <2>1. /\ Head(idles) # Nil
          /\ Range(idles) = Range(idles') \cup {Head(idles)}
          /\ IsInjective(idles') /\ Head(idles) \notin Range(idles')
      BY <1>3, Received, PoolAssumption DEF PoolType, Lending
    <2>2. /\ \A c \in Borrower : obj'[c] = IF c = b THEN Head(idles) ELSE obj[c]
          /\ \A c \in Borrower : pc'[c] = IF c = b THEN "has" ELSE pc[c]
      BY <1>3 DEF Goto, Take, PoolType, TypeOK
    <2>3. Range(waitingReqs) \subseteq Borrower /\ waitingReqs' = waitingReqs /\ alive' = alive
      BY InSeq DEF PoolType, SelectIdle
    <2>4. Custody'
      BY <1>1, <2>1, <2>2, <2>3 DEF Custody
    <2>5. \A c \in Borrower : obj[c] # Head(idles)
      BY <2>1 DEF Lending
    <2>6. \A c, d \in Borrower : obj'[c] = obj'[d] /\ obj'[c] # Nil => c = d
      BY <2>2, <2>5 DEF Lending
    <2>7. \A c \in Borrower : obj'[c] \notin Range(idles')
      BY <2>1, <2>2 DEF Lending
    <2>8. ASSUME NEW x \in Object PROVE x \in alive' <=> x \in Range(idles') \/ (\E c \in Borrower : obj'[c] = x)
      <3>1. x # Nil
        BY PoolAssumption
      <3> QED
        BY <1>1, <2>1, <2>2, <2>3, <3>1 DEF Lending
    <2> QED
      BY <2>1, <2>4, <2>6, <2>7, <2>8 DEF Lending
  <1> QED
    BY <1>2, <1>3 DEF SelectIdle

\* A request is queued.
LEMMA QueueStep ==
    ASSUME PoolType, Custody, Lending, NEW b \in Borrower, getOnNoIdle(b)
    PROVE  Custody' /\ Lending'
  <1>1. /\ pc[b] = "noIdle" /\ obj[b] = Nil /\ b \notin Range(waitingReqs)
        /\ UNCHANGED <<obj, idles, alive>>
    BY DEF getOnNoIdle, Custody
  <1>2. CASE Goto(b, "hold") /\ UNCHANGED waitingReqs
    BY <1>1, <1>2, MovesOn
  <1>3. CASE Goto(b, "waiting") /\ waitingReqs' = Append(waitingReqs, b)
    <2>1. Range(waitingReqs') = Range(waitingReqs) \cup {b} /\ IsInjective(waitingReqs')
      BY <1>1, <1>3, Sent DEF PoolType, Custody
    <2>2. \A c \in Borrower : pc'[c] = IF c = b THEN "waiting" ELSE pc[c]
      BY <1>3 DEF Goto, PoolType, TypeOK
    <2>3. Range(waitingReqs) \subseteq Borrower
      BY InSeq DEF PoolType
    <2>4. Custody'
      BY <1>1, <2>1, <2>2, <2>3 DEF Custody
    <2> QED
      BY <1>1, <2>4 DEF Lending
  <1> QED
    BY <1>2, <1>3 DEF getOnNoIdle

\* An object that did not exist.
LEMMA FactoryStep ==
    ASSUME PoolType, Custody, Lending, NEW b \in Borrower, factory(b)
    PROVE  Custody' /\ Lending'
  <1>1. PICK x \in Object : x \in Fresh /\ Take(b, x) /\ alive' = alive \cup {x}
    BY DEF factory, Fresh
  <1>2. x # Nil /\ x \notin Range(idles) /\ \A c \in Borrower : obj[c] # x
    BY <1>1, PoolAssumption DEF Fresh, Range, PoolType, TypeOK
  <1>3. pc[b] = "create" /\ obj[b] = Nil /\ UNCHANGED <<idles, waitingReqs>>
    BY DEF factory, Custody
  <1>4. /\ \A c \in Borrower : obj'[c] = IF c = b THEN x ELSE obj[c]
        /\ \A c \in Borrower : pc'[c] = IF c = b THEN "has" ELSE pc[c]
    BY <1>1 DEF factory, Goto, Take, PoolType, TypeOK
  <1>5. Range(waitingReqs) \subseteq Borrower
    BY InSeq DEF PoolType
  <1>6. Custody'
    BY <1>2, <1>3, <1>4, <1>5 DEF Custody
  <1>7. \A c, d \in Borrower : obj'[c] = obj'[d] /\ obj'[c] # Nil => c = d
    BY <1>2, <1>4 DEF Lending
  <1>8. ASSUME NEW y \in Object PROVE y \in alive' <=> y \in Range(idles') \/ (\E c \in Borrower : obj'[c] = y)
    <2>1. y # Nil
      BY PoolAssumption
    <2> QED
      BY <1>1, <1>2, <1>3, <1>4, <2>1 DEF Lending
  <1>9. \A c \in Borrower : obj'[c] \notin Range(idles')
    BY <1>2, <1>3, <1>4 DEF Lending
  <1> QED
    BY <1>3, <1>6, <1>7, <1>8, <1>9 DEF Lending

\* An object is finalized that only this goroutine has.
LEMMA FinalizeStep ==
    ASSUME PoolType, Custody, Lending, NEW b \in Borrower, PutClosed(b) \/ StoreCount(b)
    PROVE  Custody' /\ Lending'
  <1>1. /\ pc[b] \in {"has", "store"} /\ obj[b] # Nil
        /\ alive' = alive \ {obj[b]} /\ UNCHANGED <<idles, waitingReqs>>
    BY DEF PutClosed, StoreCount, Custody
  <1>2. /\ \A c \in Borrower : obj'[c] = IF c = b THEN Nil ELSE obj[c]
        /\ \A c \in Borrower : pc'[c] = IF c = b THEN "out" ELSE pc[c]
    BY DEF PutClosed, StoreCount, Goto, Take, PoolType, TypeOK
  <1>3. Range(waitingReqs) \subseteq Borrower /\ Nil \notin Range(idles)
    BY InSeq, PoolAssumption DEF PoolType
  <1>4. Custody'
    BY <1>1, <1>2, <1>3 DEF Custody
  <1>5. ASSUME NEW y \in Object PROVE y \in alive' <=> y \in Range(idles') \/ (\E c \in Borrower : obj'[c] = y)
    <2>1. y # Nil
      BY PoolAssumption
    <2> QED
      BY <1>1, <1>2, <1>3, <2>1 DEF Lending
  <1>6. /\ \A c, d \in Borrower : obj'[c] = obj'[d] /\ obj'[c] # Nil => c = d
        /\ \A c \in Borrower : obj'[c] \notin Range(idles')
    BY <1>1, <1>2, <1>3 DEF Lending
  <1> QED
    BY <1>1, <1>4, <1>5, <1>6 DEF Lending

\* The object goes from the one who returns it to the one who waits longest.
LEMMA HandOverStep ==
    ASSUME PoolType, Custody, Lending, NEW b \in Borrower, PutWaiting(b)
    PROVE  Custody' /\ Lending'
  <1> DEFINE h == Head(waitingReqs)
  <1>1. /\ pc[b] = "has" /\ obj[b] # Nil /\ waitingReqs # <<>>
        /\ waitingReqs' = Tail(waitingReqs) /\ UNCHANGED <<idles, alive>>
    BY DEF PutWaiting, Custody
  <1>2. /\ h \in Borrower /\ Range(waitingReqs) = Range(waitingReqs') \cup {h}
        /\ IsInjective(waitingReqs') /\ h \notin Range(waitingReqs')
    BY <1>1, Received DEF PoolType, Custody
  <1>3. pc[h] = "waiting" /\ obj[h] = Nil /\ h # b
    BY <1>1, <1>2 DEF Custody
  <1>4. /\ \A c \in Borrower : obj'[c] = IF c = b THEN Nil ELSE IF c = h THEN obj[b] ELSE obj[c]
        /\ \A c \in Borrower : pc'[c] = IF c = b THEN "out" ELSE pc[c]
    BY <1>2, <1>3 DEF PutWaiting, Goto, PoolType, TypeOK
  <1>5. Range(waitingReqs) \subseteq Borrower /\ Nil \notin Range(idles)
    BY InSeq, PoolAssumption DEF PoolType
  <1> HIDE DEF h
  <1>6. Custody'
    BY <1>1, <1>2, <1>3, <1>4, <1>5 DEF Custody
  <1>7. ASSUME NEW y \in Object PROVE y \in alive' <=> y \in Range(idles') \/ (\E c \in Borrower : obj'[c] = y)
    <2>1. (\E c \in Borrower : obj'[c] = y) <=> (\E c \in Borrower : obj[c] = y)
      BY <1>2, <1>3, <1>4, PoolAssumption
    <2> QED
      BY <1>1, <2>1 DEF Lending
  <1>8. /\ \A c, d \in Borrower : obj'[c] = obj'[d] /\ obj'[c] # Nil => c = d
        /\ \A c \in Borrower : obj'[c] \notin Range(idles')
    BY <1>1, <1>2, <1>3, <1>4, <1>5 DEF Lending
  <1> QED
    BY <1>1, <1>6, <1>7, <1>8 DEF Lending

\* Put gives the object back to the idle ones.
LEMMA PutIdleStep ==
    ASSUME PoolType, Custody, Lending, NEW b \in Borrower, PutIdle(b)
    PROVE  Custody' /\ Lending'
  <1>1. /\ pc[b] = "has" /\ obj[b] # Nil
        /\ idles' = Append(idles, obj[b]) /\ UNCHANGED <<waitingReqs, alive>>
    BY DEF PutIdle, Custody
  <1>2. obj[b] \in Object /\ obj[b] \notin Range(idles)
    BY <1>1 DEF PoolType, TypeOK, Lending
  <1>3. Range(idles') = Range(idles) \cup {obj[b]} /\ IsInjective(idles')
    BY <1>1, <1>2, Sent DEF PoolType, Lending
  <1>4. /\ \A c \in Borrower : obj'[c] = IF c = b THEN Nil ELSE obj[c]
        /\ \A c \in Borrower : pc'[c] = IF c = b THEN "out" ELSE pc[c]
    BY DEF PutIdle, Goto, Take, PoolType, TypeOK
  <1>5. Range(waitingReqs) \subseteq Borrower /\ Nil \notin Range(idles)
    BY InSeq, PoolAssumption DEF PoolType
  <1>6. Custody'
    BY <1>1, <1>4, <1>5 DEF Custody
  <1>7. ASSUME NEW y \in Object PROVE y \in alive' <=> y \in Range(idles') \/ (\E c \in Borrower : obj'[c] = y)
    <2>1. y # Nil
      BY PoolAssumption
    <2> QED
      BY <1>1, <1>3, <1>4, <2>1 DEF Lending
  <1>8. /\ \A c, d \in Borrower : obj'[c] = obj'[d] /\ obj'[c] # Nil => c = d
        /\ \A c \in Borrower : obj'[c] \notin Range(idles')
    BY <1>1, <1>2, <1>3, <1>4, <1>5 DEF Lending
  <1> QED
    BY <1>3, <1>6, <1>7, <1>8 DEF Lending

\* Close finalizes what is idle.
LEMMA DrainStep ==
    ASSUME PoolType, Custody, Lending, Drain
    PROVE  Custody' /\ Lending'
  <1>1. UNCHANGED <<pc, obj, waitingReqs>>
    BY DEF Drain
  <1>2. Custody'
    BY <1>1 DEF Custody
  <1>3. CASE UNCHANGED <<idles, alive>>
    BY <1>1, <1>2, <1>3 DEF Lending
  <1>4. CASE idles # <<>> /\ alive' = alive \ {Head(idles)} /\ idles' = Tail(idles)
    <2>1. /\ Range(idles) = Range(idles') \cup {Head(idles)}
          /\ IsInjective(idles') /\ Head(idles) \notin Range(idles')
      BY <1>4, Received DEF PoolType, Lending
    <2> QED
      BY <1>1, <1>2, <1>4, <2>1 DEF Lending
  <1> QED
    BY <1>3, <1>4 DEF Drain

\* Every step keeps each object in one place.
LEMMA CustodyStep ==
    ASSUME PoolType, Custody, Lending, Next
    PROVE  Custody' /\ Lending'
  <1>1. CASE Close
    BY <1>1 DEF Close, Custody, Lending
  <1> QED
    BY <1>1, PlainSteps, SelectIdleStep, QueueStep, FactoryStep, FinalizeStep, HandOverStep, PutIdleStep, DrainStep
       DEF Next, Step, Put

-----------------------------------------------------------------------------
(* The limit *)

\* A count within the width does not wrap.
LEMMA NoWrap == \A x \in 0 .. Word - 1 : x % Word = x
  BY PoolAssumption

\* A step that neither counts nor creates, nor finalizes.
LEMMA SameCount ==
    ASSUME PoolType, Counted, NEW b \in Borrower, NEW l, Goto(b, l), UNCHANGED <<alive, activeCount, torn>>,
           l \in {"create", "giveBack"} <=> pc[b] \in {"create", "giveBack"},
           \A c \in Borrower : c # b => loaded'[c] = loaded[c],
           l = "hold" => loaded'[b] < MaxActive
    PROVE  Counted'
  <1>1. \A c \in Borrower : pc'[c] = IF c = b THEN l ELSE pc[c]
    BY DEF Goto, PoolType, TypeOK
  <1>2. Creators' = Creators
    BY <1>1 DEF Creators
  <1>3. \A c \in Borrower : pc'[c] = "hold" => loaded'[c] < MaxActive
    BY <1>1 DEF Counted
  <1> QED
    BY <1>2, <1>3 DEF Counted

\* A goroutine begins to have a place without an object, or ends.
LEMMA CreatorsStep ==
    ASSUME PoolType, Counted, NEW b \in Borrower, NEW l, Goto(b, l)
    PROVE  /\ Cardinality(Creators) \in Nat
           /\ l \in {"create", "giveBack"} /\ b \notin Creators
                => IsFiniteSet(Creators') /\ Cardinality(Creators') = Cardinality(Creators) + 1
           /\ l \notin {"create", "giveBack"} /\ b \in Creators
                => IsFiniteSet(Creators') /\ Cardinality(Creators') = Cardinality(Creators) - 1
  <1>1. \A c \in Borrower : pc'[c] = IF c = b THEN l ELSE pc[c]
    BY DEF Goto, PoolType, TypeOK
  <1>2. l \in {"create", "giveBack"} /\ b \notin Creators => Creators' = Creators \cup {b}
    BY <1>1 DEF Creators
  <1>3. l \notin {"create", "giveBack"} /\ b \in Creators => Creators' = Creators \ {b}
    BY <1>1 DEF Creators
  <1>4. IsFiniteSet(Creators)
    BY DEF Counted
  <1> QED
    BY <1>2, <1>3, <1>4, FS_CardinalityType, FS_AddElement, FS_RemoveElement

\* An object is created, or finalized.
LEMMA AliveStep ==
    ASSUME PoolType, Counted, NEW x
    PROVE  /\ Cardinality(alive) \in Nat
           /\ alive' = alive \cup {x} /\ x \notin alive
                => IsFiniteSet(alive') /\ Cardinality(alive') = Cardinality(alive) + 1
           /\ alive' = alive \ {x} /\ x \in alive
                => IsFiniteSet(alive') /\ Cardinality(alive') = Cardinality(alive) - 1
  <1>1. IsFiniteSet(alive)
    BY DEF Counted
  <1> QED
    BY <1>1, FS_CardinalityType, FS_AddElement, FS_RemoveElement

\* The steps of Get and Put that keep the count.
LEMMA QuietCount ==
    ASSUME PoolType, Counted, NEW b \in Borrower,
           Get(b) \/ SelectIdle(b) \/ WrongType(b) \/ getOnNoIdle(b) \/ factoryFails(b) \/ Receive(b)
           \/ PutWaiting(b) \/ PutIdle(b) \/ PutFull(b) \/ LoadCount(b)
    PROVE  Counted'
  <1>1. UNCHANGED <<alive, activeCount, torn>>
    BY DEF Get, SelectIdle, WrongType, getOnNoIdle, factoryFails, Receive, PutWaiting, PutIdle, PutFull, LoadCount
  <1>2. \A c \in Borrower : c # b => loaded'[c] = loaded[c]
    BY DEF Get, SelectIdle, WrongType, getOnNoIdle, factoryFails, Receive, PutWaiting, PutIdle, PutFull, LoadCount,
           Load, PoolType
  <1>3. CASE factoryFails(b)
    BY <1>1, <1>2, <1>3, SameCount DEF factoryFails
  <1>4. CASE getOnNoIdle(b)
    <2>1. pc[b] = "noIdle"
      BY <1>4 DEF getOnNoIdle
    <2>2. CASE Goto(b, "waiting")
      BY <1>1, <1>2, <2>1, <2>2, SameCount
    <2>3. CASE Goto(b, "hold") /\ Load(b) /\ ~(activeCount >= MaxActive)
      <3>1. loaded'[b] < MaxActive
        BY <2>3, PoolAssumption DEF Load, PoolType, TypeOK
      <3> QED
        BY <1>1, <1>2, <2>1, <2>3, <3>1, SameCount
    <2> QED
      BY <1>4, <2>2, <2>3 DEF getOnNoIdle
  <1>5. CASE Get(b) \/ SelectIdle(b) \/ WrongType(b) \/ Receive(b) \/ PutWaiting(b) \/ PutIdle(b) \/ PutFull(b)
               \/ LoadCount(b)
    <2>1. pc[b] \notin {"create", "giveBack"}
      BY <1>5 DEF Get, SelectIdle, WrongType, Receive, PutWaiting, PutIdle, PutFull, LoadCount
    <2>2. \/ Goto(b, "select") \/ Goto(b, "has") \/ Goto(b, "nil") \/ Goto(b, "noIdle") \/ Goto(b, "out")
          \/ Goto(b, "load") \/ Goto(b, "store")
      BY <1>5 DEF Get, SelectIdle, WrongType, Receive, PutWaiting, PutIdle, PutFull, LoadCount
    <2> QED
      BY <1>1, <1>2, <2>1, <2>2, SameCount
  <1> QED
    BY <1>3, <1>4, <1>5

\* A place is held or given back, with or without an object.
LEMMA StoreStep ==
    ASSUME PoolType, Counted, NEW b \in Borrower, NEW d \in {-1, 1}, Store(b, d), ~torn',
           activeCount + d \in 0 .. Word - 1
    PROVE  ~torn /\ activeCount' = activeCount + d /\ activeCount = loaded[b]
  <1>1. ~torn /\ activeCount = loaded[b]
    BY DEF Store
  <1>2. activeCount' = (activeCount + d) % Word
    BY <1>1 DEF Store
  <1> QED
    BY <1>1, <1>2, NoWrap

\* Nobody else comes to hold a place.
LEMMA OthersHold ==
    ASSUME PoolType, Counted, NEW b \in Borrower, NEW l, Goto(b, l), l # "hold",
           \A c \in Borrower : c # b => loaded'[c] = loaded[c]
    PROVE  \A c \in Borrower : pc'[c] = "hold" => loaded'[c] < MaxActive
  BY DEF Goto, PoolType, TypeOK, Counted

\* getOnNoIdle counts the object it is about to create.
LEMMA HoldCount ==
    ASSUME PoolType, Counted, NEW b \in Borrower, HoldPlace(b)
    PROVE  Counted'
  <1>1. /\ pc[b] = "hold" /\ Goto(b, "create") /\ alive' = alive /\ Store(b, 1) /\ b \notin Creators
        /\ \A c \in Borrower : c # b => loaded'[c] = loaded[c]
    BY DEF HoldPlace, Store, PoolType, Creators
  <1>2. IsFiniteSet(Creators') /\ Cardinality(Creators') = Cardinality(Creators) + 1 /\ Cardinality(Creators) \in Nat
    BY <1>1, CreatorsStep
  <1>3. \A c \in Borrower : pc'[c] = "hold" => loaded'[c] < MaxActive
    BY <1>1, OthersHold
  <1>4. loaded[b] < MaxActive /\ loaded[b] \in 0 .. Word - 1 /\ activeCount \in 0 .. Word - 1
    BY <1>1 DEF Counted, PoolType, TypeOK
  <1>5. ASSUME ~torn' PROVE Cardinality(alive') + Cardinality(Creators') <= activeCount' /\ activeCount' <= MaxActive
    <2>1. activeCount = loaded[b]
      BY <1>1, <1>5 DEF Store
    <2>2. activeCount + 1 \in 0 .. Word - 1 /\ activeCount + 1 <= MaxActive
      BY <1>4, <2>1, PoolAssumption
    <2>3. ~torn /\ activeCount' = activeCount + 1
      BY <1>1, <1>5, <2>2, StoreStep
    <2>4. Cardinality(alive) \in Nat /\ Cardinality(alive) + Cardinality(Creators) <= activeCount
      BY <2>3, FS_CardinalityType DEF Counted
    <2> QED
      BY <1>1, <1>2, <1>4, <2>2, <2>3, <2>4
  <1> QED
    BY <1>1, <1>2, <1>3, <1>5 DEF Counted

\* getOnNoIdle takes the count back when the factory fails.
LEMMA GiveBackCount ==
    ASSUME PoolType, Counted, NEW b \in Borrower, GiveBack(b)
    PROVE  Counted'
  <1>1. /\ pc[b] = "giveBack" /\ Goto(b, "out") /\ alive' = alive /\ Store(b, -1) /\ b \in Creators
        /\ \A c \in Borrower : c # b => loaded'[c] = loaded[c]
    BY DEF GiveBack, Store, PoolType, Creators
  <1>2. IsFiniteSet(Creators') /\ Cardinality(Creators') = Cardinality(Creators) - 1 /\ Cardinality(Creators) \in Nat
    BY <1>1, CreatorsStep, SMTT(30)
  <1>3. \A c \in Borrower : pc'[c] = "hold" => loaded'[c] < MaxActive
    BY <1>1, OthersHold
  <1>4. activeCount \in 0 .. Word - 1 /\ Cardinality(alive) \in Nat /\ Cardinality(Creators') \in Nat
    BY <1>2, FS_CardinalityType DEF PoolType, TypeOK, Counted
  <1>5. ASSUME ~torn' PROVE Cardinality(alive') + Cardinality(Creators') <= activeCount' /\ activeCount' <= MaxActive
    <2>1. ~torn
      BY <1>1, <1>5 DEF Store
    <2>2. Cardinality(alive) + Cardinality(Creators) <= activeCount /\ activeCount <= MaxActive
      BY <2>1 DEF Counted
    <2>3. activeCount + (-1) \in 0 .. Word - 1
      BY <1>2, <1>4, <2>2, PoolAssumption
    <2>4. activeCount' = activeCount + (-1)
      BY <1>1, <1>5, <2>3, StoreStep
    <2> QED
      BY <1>1, <1>2, <1>4, <2>2, <2>4, PoolAssumption
  <1> QED
    BY <1>1, <1>2, <1>3, <1>5 DEF Counted

\* The factory makes the object that has been counted.
LEMMA FactoryCount ==
    ASSUME PoolType, Counted, NEW b \in Borrower, factory(b)
    PROVE  Counted'
  <1>1. PICK x : x \notin alive /\ alive' = alive \cup {x}
    BY DEF factory, Fresh
  <1>2. /\ pc[b] = "create" /\ Goto(b, "has") /\ UNCHANGED <<activeCount, torn, loaded>> /\ b \in Creators
    BY DEF factory, Creators
  <1>3. IsFiniteSet(Creators') /\ Cardinality(Creators') = Cardinality(Creators) - 1 /\ Cardinality(Creators) \in Nat
    BY <1>2, CreatorsStep
  <1>4. IsFiniteSet(alive') /\ Cardinality(alive') = Cardinality(alive) + 1 /\ Cardinality(alive) \in Nat
    BY <1>1, AliveStep
  <1>5. \A c \in Borrower : pc'[c] = "hold" => loaded'[c] < MaxActive
    BY <1>2, OthersHold
  <1>6. Cardinality(alive') + Cardinality(Creators') = Cardinality(alive) + Cardinality(Creators)
    BY <1>3, <1>4
  <1> QED
    BY <1>2, <1>3, <1>4, <1>5, <1>6 DEF Counted

\* Put finalizes an object before it is taken from the count.
LEMMA FinalizeCount ==
    ASSUME PoolType, Custody, Lending, Counted, NEW b \in Borrower, PutClosed(b) \/ StoreCount(b)
    PROVE  Counted'
  <1>1. /\ pc[b] \in {"has", "store"} /\ Goto(b, "out") /\ alive' = alive \ {obj[b]}
        /\ obj[b] \in alive
        /\ \A c \in Borrower : c # b => loaded'[c] = loaded[c]
    <2>1. pc[b] \in {"has", "store"} /\ Goto(b, "out") /\ alive' = alive \ {obj[b]}
      BY DEF PutClosed, StoreCount
    <2>2. obj[b] \in Object
      BY <2>1 DEF Custody, PoolType, TypeOK
    <2>3. obj[b] \in alive
      BY <2>2 DEF Lending
    <2> QED
      BY <2>1, <2>3 DEF PutClosed, StoreCount, Store, PoolType
  <1>2. Creators' = Creators
    BY <1>1 DEF Creators, Goto, PoolType, TypeOK
  <1>3. IsFiniteSet(alive') /\ Cardinality(alive') = Cardinality(alive) - 1 /\ Cardinality(alive) \in Nat
    BY <1>1, AliveStep
  <1>4. \A c \in Borrower : pc'[c] = "hold" => loaded'[c] < MaxActive
    BY <1>1, OthersHold
  <1>5. activeCount \in 0 .. Word - 1 /\ Cardinality(Creators) \in Nat /\ Cardinality(alive') \in Nat
    BY <1>3, FS_CardinalityType DEF PoolType, TypeOK, Counted
  <1>6. ASSUME ~torn' PROVE Cardinality(alive') + Cardinality(Creators) <= activeCount' /\ activeCount' <= MaxActive
    <2>1. ~torn
      BY <1>6 DEF PutClosed, StoreCount, Store
    <2>2. Cardinality(alive) + Cardinality(Creators) <= activeCount /\ activeCount <= MaxActive
      BY <2>1 DEF Counted
    <2>3. CASE PutClosed(b)
      BY <1>3, <1>5, <2>2, <2>3 DEF PutClosed
    <2>4. CASE StoreCount(b)
      <3>1. activeCount + (-1) \in 0 .. Word - 1
        BY <1>3, <1>5, <2>2, PoolAssumption
      <3>2. activeCount' = activeCount + (-1)
        BY <1>6, <2>4, <3>1, StoreStep DEF StoreCount
      <3> QED
        BY <1>3, <1>5, <2>2, <3>2, PoolAssumption
    <2> QED
      BY <2>3, <2>4
  <1> QED
    BY <1>2, <1>3, <1>4, <1>6 DEF Counted

\* Close finalizes the idle objects.
LEMMA CloseCount ==
    ASSUME PoolType, Lending, Counted, Close \/ Drain
    PROVE  Counted'
  <1>1. UNCHANGED <<pc, loaded, activeCount, torn>>
    BY DEF Close, Drain
  <1>2. Creators' = Creators
    BY <1>1 DEF Creators
  <1>3. CASE alive' = alive
    BY <1>1, <1>2, <1>3 DEF Counted
  <1>4. CASE idles # <<>> /\ alive' = alive \ {Head(idles)}
    <2>1. Head(idles) \in alive
      BY <1>4, Received DEF PoolType, Lending
    <2>2. IsFiniteSet(alive') /\ Cardinality(alive') = Cardinality(alive) - 1 /\ Cardinality(alive) \in Nat
      BY <1>4, <2>1, AliveStep
    <2>3. activeCount \in 0 .. Word - 1 /\ Cardinality(Creators) \in Nat
      BY FS_CardinalityType DEF PoolType, TypeOK, Counted
    <2>4. ~torn => Cardinality(alive') + Cardinality(Creators) <= activeCount
      BY <2>2, <2>3, PoolAssumption DEF Counted
    <2> QED
      BY <1>1, <1>2, <2>2, <2>4 DEF Counted
  <1> QED
    BY <1>3, <1>4 DEF Close, Drain

\* Every step keeps the objects within the count, and the count within maxActive.
LEMMA CountStep ==
    ASSUME PoolType, Custody, Lending, Counted, Next
    PROVE  Counted'
  BY QuietCount, HoldCount, GiveBackCount, FactoryCount, FinalizeCount, CloseCount DEF Next, Step, Put

-----------------------------------------------------------------------------
\* PoolInv holds of a new pool.
LEMMA PoolInit == Init => PoolInv
  <1> SUFFICES ASSUME Init PROVE PoolInv
    OBVIOUS
  <1>1. 0 \in 0 .. Word - 1 /\ 0 <= MaxIdle
    BY PoolAssumption
  <1>2. PoolType
    <2>1. idles \in Seq(Object) /\ waitingReqs \in Seq(Borrower) /\ Len(idles) <= MaxIdle
      BY <1>1 DEF Init
    <2>2. loaded \in [Borrower -> 0 .. Word - 1] /\ activeCount \in 0 .. Word - 1
      BY <1>1 DEF Init
    <2>3. /\ pc \in [Borrower -> {"out", "select", "nil", "noIdle", "hold", "create", "giveBack",
                                "waiting", "has", "load", "store"}]
          /\ obj \in [Borrower -> Object \cup {Nil}] /\ alive \subseteq Object
          /\ closed \in BOOLEAN /\ closing \in BOOLEAN /\ torn \in BOOLEAN
      BY DEF Init
    <2> QED
      BY <2>1, <2>2, <2>3 DEF PoolType, TypeOK
  <1>3. Custody
    BY DEF Init, Custody, IsInjective, Range
  <1>4. Lending
    BY PoolAssumption DEF Init, Lending, IsInjective, Range
  <1>5. Creators = {}
    BY DEF Init, Creators
  <1>6. Counted
    BY <1>5, FS_EmptySet, PoolAssumption DEF Init, Counted
  <1> QED
    BY <1>2, <1>3, <1>4, <1>6 DEF PoolInv

\* PoolInv is inductive.
LEMMA PoolNext == PoolInv /\ [Next]_vars => PoolInv'
  <1> SUFFICES ASSUME PoolInv, [Next]_vars PROVE PoolInv'
    OBVIOUS
  <1>1. CASE Next
    BY <1>1, TypeStep, CustodyStep, CountStep DEF PoolInv
  <1>2. CASE UNCHANGED vars
    BY <1>2 DEF vars, PoolInv, PoolType, TypeOK, Custody, Lending, Counted, Creators
  <1> QED
    BY <1>1, <1>2

\* PoolInv is strong enough: an object is in one place, and maxActive bounds them.
LEMMA PoolSafe == PoolInv => Exclusive /\ WithinLimit
  <1> SUFFICES ASSUME PoolInv PROVE WithinLimit
    BY LendingExcludes DEF PoolInv
  <1>1. IsFiniteSet(alive) /\ IsFiniteSet(Creators) /\ activeCount \in 0 .. Word - 1
    BY DEF PoolInv, PoolType, TypeOK, Counted
  <1>2. Cardinality(alive) \in Nat /\ Cardinality(Creators) \in Nat
    BY <1>1, FS_CardinalityType
  <1>3. ~torn => Cardinality(alive) + Cardinality(Creators) <= MaxActive
    BY <1>1, <1>2, PoolAssumption DEF PoolInv, Counted
  <1> QED
    BY <1>3 DEF WithinLimit, Creators

-----------------------------------------------------------------------------
(* The two parts together *)

\* The pool goes on as it does alone, or rests.
LEMMA PoolPart == [PeersNext]_PeersVars => [Next]_vars
  BY DEF PeersNext, PeersVars

\* An object of the pool is in one place and maxActive bounds the objects, in every
\* pool (Get, Put, getOnNoIdle, Close of pool.go).
THEOREM PoolIsSound == PeersSpec => []PoolSound
  <1>1. PeersInit => PoolInv
    BY PoolInit DEF PeersInit
  <1>2. PoolInv /\ [PeersNext]_PeersVars => PoolInv'
    BY PoolPart, PoolNext
  <1>3. PoolInv => PoolSound
    BY PoolSafe DEF PoolSound
  <1> QED
    BY <1>1, <1>2, <1>3, PTL DEF PeersSpec

C == INSTANCE ClientProofs WITH pc <- spc

\* The client of the proofs is the client of the composition.
LEMMA SameClient ==
    /\ Cli!Init <=> C!Init
    /\ Cli!Next <=> C!Next
    /\ Cli!RepliesMatch <=> C!RepliesMatch
  <1>1. Cli!Init <=> C!Init
    BY DEF Cli!Init, C!Init, Cli!Chan, C!Chan, Cli!Conn, C!Conn, Cli!None, C!None, Cli!Request, C!Request
  <1>2. Cli!Next <=> C!Next
    BY DEF Cli!Next, C!Next, Cli!SendStart, C!SendStart, Cli!Send, C!Send, Cli!Push, C!Push,
       Cli!SendReturns, C!SendReturns, Cli!Timeout, C!Timeout, Cli!handleWrite, C!handleWrite,
       Cli!handleRead, C!handleRead, Cli!Answer, C!Answer, Cli!Break, C!Break, Cli!Close, C!Close,
       Cli!CloseEnd, C!CloseEnd, Cli!TakePending, C!TakePending, Cli!Write, C!Write, Cli!Queue,
       C!Queue, Cli!Read, C!Read, Cli!finishRequest, C!finishRequest, Cli!ReadError, C!ReadError,
       Cli!reconnect, C!reconnect, Cli!Dial, C!Dial, Cli!FailWaiting, C!FailWaiting,
       Cli!ReplaceWaiting, C!ReplaceWaiting, Cli!ReaderClose, C!ReaderClose, Cli!ReaderCloseEnd,
       C!ReaderCloseEnd, Cli!StopRequests, C!StopRequests, Cli!Clean, C!Clean, Cli!Panic, C!Panic,
       Cli!Working, C!Working, Cli!channels, C!channels, Cli!senders, C!senders, Cli!threads,
       C!threads, Cli!Error, C!Error, Cli!None, C!None, Cli!Chan, C!Chan, Cli!Conn, C!Conn,
       Cli!Request, C!Request, Cli!Current, C!Current, Cli!Range, C!Range, Cli!Cardinality,
       C!Cardinality
  <1>3. Cli!RepliesMatch <=> C!RepliesMatch
    BY DEF Cli!RepliesMatch, C!RepliesMatch, Cli!TypeOK, C!TypeOK, Cli!IsInjective, C!IsInjective,
       Cli!Request, C!Request, Cli!None, C!None, Cli!Error, C!Error
  <1> QED
    BY <1>1, <1>2, <1>3

\* The client goes on as it does alone, or rests.
LEMMA ClientPart == [PeersNext]_PeersVars => [C!Next]_C!vars
  BY SameClient DEF PeersNext, PeersVars, cliVars, C!vars

\* A reply goes to the request it answers, in every client and however often its
\* connection breaks (doRequest, finishRequest, reconnect of client.go).
THEOREM RepliesAreMatched == PeersSpec => []RepliesMatch
  <1>1. PeersInit => C!ClientInv
    BY SameClient, ClientAssumption, C!ClientInit DEF PeersInit, Cli!Bounds, C!Bounds
  <1>2. C!ClientInv /\ [PeersNext]_PeersVars => C!ClientInv'
    BY ClientPart, C!ClientNext
  <1>3. C!ClientInv => RepliesMatch
    BY SameClient, C!ClientSafe DEF RepliesMatch
  <1> QED
    BY <1>1, <1>2, <1>3, PTL DEF PeersSpec
=============================================================================
