------------------------- MODULE SlaveControlProofs -------------------------
(***************************************************************************)
(* For any masters, goroutines and numbers of commands, reconnections and  *)
(* updates: data comes from the configured master only, and after one      *)
(* SLAVEOF one goroutine at a time receives the updates.                   *)
(***************************************************************************)
EXTENDS SlaveControl, FiniteSetTheorems, TLAPS

\* The mutex, the wait group and the identifiers of the stream change; or the
\* connection is given up.
StatusKept(s, t) == t.version = s.version /\ t.host = s.host /\ t.conn \in {s.conn, None}

\* A goroutine goes on and does not begin to follow a master.
GoesOn(x, y) ==
    /\ y.ver = x.ver /\ y.addr = x.addr
    /\ x.pc \notin Unconnected => y.pc \notin Unconnected
    /\ y.pc \in Following => x.pc \in Following
    /\ y.pc \in Reading => x.pc \in Reading

\* Steps that leave configuration and addresses alone keep the invariant.
LEMMA Kept ==
    ASSUME SlaveInv, SlaveType', StatusKept(st, st'), \A q \in Procs : GoesOn(g[q], g'[q])
    PROVE  Configured'
  <1>1. \A q \in Procs : g'[q].ver \in Nat /\ st.version \in Nat
    BY DEF SlaveInv, SlaveType
  <1>2. st'.conn # None => st'.conn = st.conn /\ st.conn \in Procs
    BY DEF SlaveInv, SlaveType, StatusKept
  <1> QED
    BY <1>1, <1>2 DEF SlaveInv, Configured, StatusKept, GoesOn

\* A new configuration is nobody's yet.
LEMMA Bumped ==
    ASSUME SlaveInv, SlaveType', st'.version = st.version + 1, st'.conn = st.conn,
           \A q \in Procs : g'[q].ver = g[q].ver /\ (g[q].pc \notin Unconnected => g'[q].pc \notin Unconnected)
    PROVE  Configured'
  <1>1. st.version \in Nat /\ \A q \in Procs : g[q].ver \in Nat /\ g[q].ver <= st.version
    BY DEF SlaveInv, SlaveType, Configured
  <1>2. \A q \in Procs : g'[q].ver < st'.version /\ g'[q].ver <= st'.version /\ g'[q].ver # st'.version
    BY <1>1
  <1>3. st.conn # None => st.conn \in Procs /\ g[st.conn].pc \notin Unconnected
    BY DEF SlaveInv, SlaveType, Configured
  <1> QED
    BY <1>2, <1>3 DEF Configured

\* The types of slaveStatus and of the goroutines.
Status == [mutex : Procs \cup {None, Client, Cron}, version : Nat, host : Hosts \cup {None},
           replId : Hosts \cup {None}, cancel : Procs \cup {None}, conn : Procs \cup {None}, running : Int]

Places == Unconnected \cup Following \cup Leaving
Goroutines == [Procs -> [pc : Places, ver : Nat, addr : Hosts \cup {None}]]

LEMMA Types == SlaveType <=> st \in Status /\ g \in Goroutines
  BY DEF SlaveType, Status, Goroutines, Places

\* A goroutine moves to another place, maybe with another version or address.
AtPlace(G, p, l) == [G EXCEPT ![p].pc = l]
WithVersion(G, p, l, v) == [G EXCEPT ![p].pc = l, ![p].ver = v]
WithAddress(G, p, l, a) == [G EXCEPT ![p].pc = l, ![p].addr = a]

LEMMA MovedTo ==
    ASSUME NEW G \in Goroutines, NEW p \in Procs, NEW l \in Places
    PROVE  /\ AtPlace(G, p, l) \in Goroutines
           /\ AtPlace(G, p, l)[p].pc = l /\ AtPlace(G, p, l)[p].ver = G[p].ver /\ AtPlace(G, p, l)[p].addr = G[p].addr
           /\ \A q \in Procs : q # p => AtPlace(G, p, l)[q] = G[q]
  <1>1. AtPlace(G, p, l) \in Goroutines
    BY Zenon DEF Goroutines, AtPlace
  <1>2. AtPlace(G, p, l)[p].pc = l /\ AtPlace(G, p, l)[p].ver = G[p].ver /\ AtPlace(G, p, l)[p].addr = G[p].addr
    BY SMT DEF Goroutines, AtPlace
  <1>3. \A q \in Procs : q # p => AtPlace(G, p, l)[q] = G[q]
    BY SMT DEF Goroutines, AtPlace
  <1> QED
    BY <1>1, <1>2, <1>3

LEMMA MovedWith ==
    ASSUME NEW G \in Goroutines, NEW p \in Procs, NEW l \in Places, NEW v \in Nat
    PROVE  /\ WithVersion(G, p, l, v) \in Goroutines
           /\ WithVersion(G, p, l, v)[p].pc = l /\ WithVersion(G, p, l, v)[p].ver = v /\ WithVersion(G, p, l, v)[p].addr = G[p].addr
           /\ \A q \in Procs : q # p => WithVersion(G, p, l, v)[q] = G[q]
  <1>1. WithVersion(G, p, l, v) \in Goroutines
    BY Zenon DEF Goroutines, WithVersion
  <1>2. WithVersion(G, p, l, v)[p].pc = l /\ WithVersion(G, p, l, v)[p].ver = v /\ WithVersion(G, p, l, v)[p].addr = G[p].addr
    BY SMT DEF Goroutines, WithVersion
  <1>3. \A q \in Procs : q # p => WithVersion(G, p, l, v)[q] = G[q]
    BY SMT DEF Goroutines, WithVersion
  <1> QED
    BY <1>1, <1>2, <1>3

LEMMA MovedFrom ==
    ASSUME NEW G \in Goroutines, NEW p \in Procs, NEW l \in Places, NEW a \in Hosts \cup {None}
    PROVE  /\ WithAddress(G, p, l, a) \in Goroutines
           /\ WithAddress(G, p, l, a)[p].pc = l /\ WithAddress(G, p, l, a)[p].ver = G[p].ver /\ WithAddress(G, p, l, a)[p].addr = a
           /\ \A q \in Procs : q # p => WithAddress(G, p, l, a)[q] = G[q]
  <1>1. WithAddress(G, p, l, a) \in Goroutines
    BY Zenon DEF Goroutines, WithAddress
  <1>2. WithAddress(G, p, l, a)[p].pc = l /\ WithAddress(G, p, l, a)[p].ver = G[p].ver /\ WithAddress(G, p, l, a)[p].addr = a
    BY SMT DEF Goroutines, WithAddress
  <1>3. \A q \in Procs : q # p => WithAddress(G, p, l, a)[q] = G[q]
    BY SMT DEF Goroutines, WithAddress
  <1> QED
    BY <1>1, <1>2, <1>3

\* slaveStatus stops: the version is raised, or the connection forgotten.
LEMMA Stops ==
    ASSUME SlaveType, NEW a \in Procs \cup {None, Client, Cron}
    PROVE  /\ StopBegin(a, st).version = st.version + 1 /\ StopBegin(a, st).conn = st.conn
           /\ StopBegin(a, Forget(st)).version = st.version + 1 /\ StopBegin(a, Forget(st)).conn = st.conn
           /\ StopEnd(st).version = st.version /\ StopEnd(st).host = st.host /\ StopEnd(st).conn = None
  BY DEF SlaveType, StopBegin, StopEnd, Forget

LEMMA StopsType ==
    ASSUME SlaveType, NEW a \in Procs \cup {None, Client, Cron}
    PROVE  StopBegin(a, st) \in Status /\ StopBegin(a, Forget(st)) \in Status /\ StopEnd(st) \in Status
  <1>1. st \in Status /\ st.version + 1 \in Nat
    BY DEF SlaveType, Status
  <1> QED
    BY <1>1 DEF Status, StopBegin, StopEnd, Forget

-----------------------------------------------------------------------------
(* One lemma per kind of step *)

\* Commands, the cron and goroutines that give up raise the version.
LEMMA BumpInv ==
    ASSUME SlaveInv,
           (\E h \in Hosts : execSlaveOf(h)) \/ ClientSlaveOfNone \/ reconnectWithMaster
    PROVE  SlaveInv'
  <1> USE DEF SlaveInv
  <1>1. CASE \E h \in Hosts : execSlaveOf(h)
    <2>1. PICK h \in Hosts, p \in Fresh : st' = [st EXCEPT !.host = h, !.version = @ + 1] /\ Go(p)
      BY <1>1 DEF execSlaveOf
    <2>2. p \in Procs /\ g[p].pc = "new" /\ g' = AtPlace(g, p, "setup")
      BY <2>1 DEF Fresh, Go, AtPlace
    <2>3. /\ g' \in Goroutines
          /\ g'[p].pc = "setup" /\ g'[p].ver = g[p].ver /\ g'[p].addr = g[p].addr
          /\ \A q \in Procs : q # p => g'[q] = g[q]
      <3>1. "setup" \in Places /\ g \in Goroutines
        BY Types DEF Places, Unconnected
      <3> QED
        BY <2>2, <3>1, MovedTo
    <2>4. st'.version = st.version + 1 /\ st'.conn = st.conn
      BY <2>1 DEF SlaveType
    <2>5. st' \in Status
      <3>1. st \in Status /\ st.version + 1 \in Nat /\ h \in Hosts \cup {None}
        BY DEF SlaveType, Status
      <3> QED
        BY <2>1, <3>1, Zenon DEF Status
    <2>6. SlaveType'
      BY <2>3, <2>5 DEF SlaveType, Status, Goroutines, Places
    <2> QED
      BY <2>2, <2>3, <2>4, <2>6, Bumped DEF Unconnected
  <1>2. CASE ClientSlaveOfNone \/ reconnectWithMaster
    <2>1. g' = g /\ (st' = StopBegin(Client, Forget(st)) \/ st' = StopBegin(Cron, st))
      BY <1>2 DEF ClientSlaveOfNone, reconnectWithMaster
    <2>2. SlaveType'
      BY <2>1, StopsType DEF SlaveType, Status
    <2>3. st'.version = st.version + 1 /\ st'.conn = st.conn
      BY <2>1, Stops
    <2> QED
      BY <2>1, <2>2, <2>3, Bumped
  <1> QED
    BY <1>1, <1>2

LEMMA AbortInv ==
    ASSUME SlaveInv, NEW p \in Procs, Abort(p)
    PROVE  SlaveInv'
  <1>1. SlaveType /\ g \in Goroutines /\ st' = StopBegin(p, Forget(st))
    BY Types DEF SlaveInv, Abort
  <1>2. PICK l \in Leaving : g' = AtPlace(g, p, l)
    BY DEF Abort, Move, AtPlace, Leaving
  <1>3. l \in Places /\ l \notin Unconnected
    BY DEF Places, Leaving, Unconnected
  <1>4. /\ g' \in Goroutines
        /\ g'[p].pc = l /\ g'[p].ver = g[p].ver /\ g'[p].addr = g[p].addr
        /\ \A q \in Procs : q # p => g'[q] = g[q]
    BY <1>1, <1>2, <1>3, MovedTo
  <1>5. SlaveType'
    BY <1>1, <1>4, StopsType DEF SlaveType, Status, Goroutines, Places
  <1>6. st'.version = st.version + 1 /\ st'.conn = st.conn
    BY <1>1, Stops
  <1>7. \A q \in Procs : g'[q].ver = g[q].ver /\ (g[q].pc \notin Unconnected => g'[q].pc \notin Unconnected)
    BY <1>3, <1>4
  <1> QED
    BY <1>5, <1>6, <1>7, Bumped DEF SlaveInv

\* A goroutine that goes on with the configuration it has.
LEMMA MoveInv ==
    ASSUME SlaveInv, NEW p \in Procs, NEW l \in Following \cup Leaving, g' = AtPlace(g, p, l),
           g[p].pc # "new",
           l \in Following => g[p].pc \in Following, l \in Reading => g[p].pc \in Reading,
           st' \in Status, StatusKept(st, st')
    PROVE  SlaveInv'
  <1>1. SlaveType
    BY DEF SlaveInv
  <1>2. /\ g' \in Goroutines
        /\ g'[p].pc = l /\ g'[p].ver = g[p].ver /\ g'[p].addr = g[p].addr
        /\ \A q \in Procs : q # p => g'[q] = g[q]
    <2>1. l \in Places /\ g \in Goroutines
      BY <1>1, Types DEF Places
    <2> QED
      BY <2>1, MovedTo
  <1>3. SlaveType'
    BY <1>2 DEF SlaveType, Status, Goroutines, Places
  <1>4. l \notin Unconnected
    BY DEF Unconnected, Following, Reading, Leaving
  <1>5. \A q \in Procs : GoesOn(g[q], g'[q])
    BY <1>2, <1>4 DEF GoesOn
  <1> QED
    BY <1>3, <1>5, Kept DEF SlaveInv

\* A stop that has ended forgets the connection; the cron's starts a goroutine.
LEMMA StopEndInv ==
    ASSUME SlaveInv, ClientStopped \/ CronStopped \/ \E p \in Procs : AbortEnd(p)
    PROVE  SlaveInv'
  <1>1. SlaveType /\ st' = StopEnd(st)
    BY DEF SlaveInv, ClientStopped, CronStopped, AbortEnd
  <1>2. st' \in Status /\ StatusKept(st, st')
    BY <1>1, Stops, StopsType DEF StatusKept
  <1>3. CASE ClientStopped
    <2>1. g' = g
      BY <1>3 DEF ClientStopped
    <2>2. SlaveType' /\ \A q \in Procs : GoesOn(g[q], g'[q])
      BY <1>1, <1>2, <2>1 DEF SlaveType, Status, GoesOn
    <2> QED
      BY <1>2, <2>2, Kept DEF SlaveInv
  <1>4. CASE CronStopped
    <2>1. PICK p \in Procs : g[p].pc = "new" /\ g' = AtPlace(g, p, "setup")
      BY <1>4 DEF CronStopped, Fresh, Go, AtPlace
    <2>2. /\ g' \in Goroutines
          /\ g'[p].pc = "setup" /\ g'[p].ver = g[p].ver /\ g'[p].addr = g[p].addr
          /\ \A q \in Procs : q # p => g'[q] = g[q]
      <3>1. "setup" \in Places /\ g \in Goroutines
        BY <1>1, Types DEF Places, Unconnected
      <3> QED
        BY <2>1, <3>1, MovedTo
    <2>3. SlaveType' /\ \A q \in Procs : GoesOn(g[q], g'[q])
      BY <1>2, <2>1, <2>2 DEF SlaveType, Status, Goroutines, Places, GoesOn, Unconnected, Following, Reading
    <2> QED
      BY <1>2, <2>3, Kept DEF SlaveInv
  <1>5. CASE \E p \in Procs : AbortEnd(p)
    <2>1. PICK p \in Procs : AbortEnd(p)
      BY <1>5
    <2>2. PICK l \in {"end", "abort"} : g' = AtPlace(g, p, l)
      BY <2>1 DEF AbortEnd, Move, AtPlace
    <2>3. g[p].pc # "new" /\ l \in Leaving /\ l \notin Following /\ l \notin Reading
      BY <2>1 DEF AbortEnd, Leaving, Following, Reading
    <2> QED
      BY <1>2, <2>2, <2>3, MoveInv
  <1> QED
    BY <1>3, <1>4, <1>5

\* A goroutine remembers the version of the configuration.
LEMMA SetupInv ==
    ASSUME SlaveInv, NEW p \in Procs, Setup(p)
    PROVE  SlaveInv'
  <1>1. SlaveType /\ g[p].pc = "setup" /\ st' = [st EXCEPT !.cancel = p]
    BY DEF SlaveInv, Setup, At
  <1>2. g' = WithVersion(g, p, "host", st.version) /\ "host" \in Places
    BY DEF Setup, Places, Unconnected, WithVersion
  <1>3. st.version \in Nat /\ g \in Goroutines
    BY <1>1, Types DEF SlaveType
  <1>4. /\ g' \in Goroutines
        /\ g'[p].pc = "host" /\ g'[p].ver = st.version /\ g'[p].addr = g[p].addr
        /\ \A q \in Procs : q # p => g'[q] = g[q]
    BY <1>2, <1>3, MovedWith
  <1>5. st' \in Status /\ st'.version = st.version /\ st'.host = st.host /\ st'.conn = st.conn
    BY <1>1 DEF SlaveType, Status
  <1>6. SlaveType'
    BY <1>4, <1>5 DEF SlaveType, Status, Goroutines, Places
  <1>7. st.conn # None => st.conn \in Procs /\ st.conn # p
    BY <1>1 DEF SlaveInv, Configured, SlaveType, Unconnected
  <1>8. "host" \notin Following /\ "host" \notin Reading
    BY DEF Following, Reading
  <1> QED
    BY <1>3, <1>4, <1>5, <1>6, <1>7, <1>8 DEF SlaveInv, Configured

\* The address is read after the version: if the version is still the current
\* one, it is the address of that configuration.
LEMMA DialInv ==
    ASSUME SlaveInv, NEW p \in Procs, Dial(p)
    PROVE  SlaveInv'
  <1>1. SlaveType /\ g[p].pc = "host" /\ st' = st
    BY DEF SlaveInv, Dial, At
  <1>2. st' \in Status /\ StatusKept(st, st') /\ st.host \in Hosts \cup {None} /\ g \in Goroutines
    BY <1>1, Types DEF SlaveType, StatusKept
  <1>3. CASE g' = WithAddress(g, p, "dialled", st.host)
    <2>1. "dialled" \in Places /\ "dialled" \notin Reading /\ "dialled" \notin Unconnected
      BY DEF Places, Following, Reading, Unconnected
    <2>2. /\ g' \in Goroutines
          /\ g'[p].pc = "dialled" /\ g'[p].ver = g[p].ver /\ g'[p].addr = st.host
          /\ \A q \in Procs : q # p => g'[q] = g[q]
      BY <1>2, <1>3, <2>1, MovedFrom
    <2>3. SlaveType'
      BY <1>2, <2>2 DEF SlaveType, Status, Goroutines, Places
    <2>4. st.conn # None => st.conn \in Procs /\ st.conn # p
      BY <1>1 DEF SlaveInv, Configured, SlaveType, Unconnected
    <2> QED
      BY <1>1, <2>1, <2>2, <2>3, <2>4 DEF SlaveInv, Configured
  <1>4. CASE Move(p, "abort twice")
    <2>1. "abort twice" \in Leaving /\ "abort twice" \notin Following /\ "abort twice" \notin Reading
      BY DEF Leaving, Following, Reading
    <2> QED
      BY <1>1, <1>2, <1>4, <2>1, MoveInv DEF Move, AtPlace
  <1> QED
    BY <1>3, <1>4 DEF Dial, WithAddress

\* The connection is set for the current version only.
LEMMA HandshakeInv ==
    ASSUME SlaveInv, NEW p \in Procs, Handshake(p)
    PROVE  SlaveInv'
  <1>1. SlaveType /\ g[p].pc = "dialled" /\ g \in Goroutines
    BY Types DEF SlaveInv, Handshake, At
  <1>2. CASE st' = st /\ Move(p, "abort")
    <2>1. "abort" \in Leaving /\ "abort" \notin Following /\ "abort" \notin Reading
      BY DEF Leaving, Following, Reading
    <2>2. st' \in Status /\ StatusKept(st, st')
      BY <1>1, <1>2, Types DEF StatusKept
    <2> QED
      BY <1>1, <1>2, <2>1, <2>2, MoveInv DEF Move, AtPlace
  <1>3. CASE st.version = g[p].ver /\ st' = [st EXCEPT !.mutex = p, !.conn = p] /\ Move(p, "psync")
    <2>1. "psync" \in Places /\ "psync" \notin Unconnected /\ g[p].pc \in Following
      BY <1>1 DEF Places, Following, Reading, Unconnected
    <2>2. /\ g' \in Goroutines
          /\ g'[p].pc = "psync" /\ g'[p].ver = g[p].ver /\ g'[p].addr = g[p].addr
          /\ \A q \in Procs : q # p => g'[q] = g[q]
      <3>1. g' = AtPlace(g, p, "psync")
        BY <1>3 DEF Move, AtPlace
      <3> QED
        BY <1>1, <2>1, <3>1, MovedTo
    <2>3. st' \in Status /\ st'.version = st.version /\ st'.host = st.host /\ st'.conn = p
      BY <1>1, <1>3 DEF SlaveType, Status
    <2>4. SlaveType'
      BY <2>2, <2>3 DEF SlaveType, Status, Goroutines, Places
    <2>5. g[p].addr = st.host
      BY <1>3, <2>1 DEF SlaveInv, Configured
    <2> QED
      BY <1>3, <2>1, <2>2, <2>3, <2>4, <2>5 DEF SlaveInv, Configured
  <1> QED
    BY <1>2, <1>3 DEF Handshake

\* The RDB comes from the current connection.
LEMMA DownloadInv ==
    ASSUME SlaveInv, NEW p \in Procs, DownloadRDB(p)
    PROVE  SlaveInv'
  <1>1. SlaveType /\ g[p].pc = "load" /\ st' = st /\ g \in Goroutines
    BY Types DEF SlaveInv, DownloadRDB, At
  <1>2. st' \in Status /\ StatusKept(st, st')
    BY <1>1, Types DEF StatusKept
  <1>3. CASE st.conn # None /\ g' = WithAddress(g, p, "loaded", g[st.conn].addr)
    <2>1. /\ "loaded" \in Places /\ "loaded" \notin Unconnected /\ "loaded" \notin Reading
          /\ g[p].pc \in Reading
      BY <1>1 DEF Places, Following, Reading, Unconnected
    <2>2. st.conn \in Procs /\ g[st.conn].addr \in Hosts \cup {None}
      BY <1>1, <1>3 DEF SlaveType
    <2>3. /\ g' \in Goroutines
          /\ g'[p].pc = "loaded" /\ g'[p].ver = g[p].ver /\ g'[p].addr = g[st.conn].addr
          /\ \A q \in Procs : q # p => g'[q] = g[q]
      BY <1>1, <1>3, <2>1, <2>2, MovedFrom
    <2>4. SlaveType'
      BY <1>2, <2>3 DEF SlaveType, Status, Goroutines, Places
    <2>5. g[p].ver = st.version => g[st.conn].addr = st.host
      BY <1>3, <2>1 DEF SlaveInv, Configured
    <2>6. g'[st.conn].addr = g[st.conn].addr /\ g'[st.conn].ver = g[st.conn].ver
      BY <2>2, <2>3
    <2>7. \A q \in Procs : g'[q].ver = g[q].ver
      BY <2>3
    <2> QED
      BY <1>1, <2>1, <2>2, <2>3, <2>4, <2>5, <2>6, <2>7 DEF SlaveInv, Configured
  <1>4. CASE Move(p, "abort") \/ Move(p, "blocked")
    <2>1. PICK l \in {"abort", "blocked"} : g' = AtPlace(g, p, l)
      BY <1>4 DEF Move, AtPlace
    <2>2. l \in Leaving /\ l \notin Following /\ l \notin Reading
      BY DEF Leaving, Following, Reading
    <2> QED
      BY <1>1, <1>2, <2>1, <2>2, MoveInv
  <1> QED
    BY <1>3, <1>4 DEF DownloadRDB, WithAddress

\* The mutex is released or kept, an identifier of the stream noted, the wait
\* group counted.
Freed(s) == [s EXCEPT !.mutex = None]
Resynced(s, a) == [s EXCEPT !.mutex = None, !.replId = a]
Counted(s, n) == [s EXCEPT !.running = n]
KeptLocked(s, p, n) == [s EXCEPT !.mutex = p, !.running = n]

LEMMA StatusType ==
    ASSUME NEW s \in Status, NEW p \in Procs, NEW a \in Hosts \cup {None}, NEW n \in Int
    PROVE  /\ Freed(s) \in Status /\ StatusKept(s, Freed(s))
           /\ Resynced(s, a) \in Status /\ StatusKept(s, Resynced(s, a))
           /\ Counted(s, n) \in Status /\ StatusKept(s, Counted(s, n))
           /\ KeptLocked(s, p, n) \in Status /\ StatusKept(s, KeptLocked(s, p, n))
  <1>1. Freed(s) \in Status /\ Counted(s, n) \in Status
    BY DEF Status, Freed, Counted
  <1>2. Resynced(s, a) \in Status /\ KeptLocked(s, p, n) \in Status
    BY Zenon DEF Status, Resynced, KeptLocked
  <1>3. StatusKept(s, Freed(s)) /\ StatusKept(s, Counted(s, n))
    BY DEF Status, StatusKept, Freed, Counted
  <1>4. StatusKept(s, Resynced(s, a)) /\ StatusKept(s, KeptLocked(s, p, n))
    BY DEF Status, StatusKept, Resynced, KeptLocked
  <1> QED
    BY <1>1, <1>2, <1>3, <1>4

\* A goroutine that follows a master goes on with it, or leaves.
LEMMA FollowInv ==
    ASSUME SlaveInv, NEW p \in Procs,
           parsePsyncHandshake(p) \/ loadMasterRDB(p) \/ ReceiveStart(p) \/ Select(p) \/ ReceivePayload(p)
    PROVE  SlaveInv'
  <1>1. /\ st \in Status /\ g[p].addr \in Hosts \cup {None}
        /\ st.running + 1 \in Int /\ st.running - 1 \in Int
    BY Types DEF SlaveInv, SlaveType
  <1>2. /\ "load" \in Reading /\ "psync" \in Reading
        /\ {"load", "loaded", "receive aof", "receive", "payload", "psync"} \subseteq Following
        /\ {"abort", "end"} \subseteq Leaving
        /\ \A l \in {"receive aof", "receive", "payload", "abort", "end"} : l \notin Reading
        /\ \A l \in {"abort", "end"} : l \notin Following
    BY DEF Following, Reading, Leaving
  <1>3. StatusKept(st, st)
    BY DEF StatusKept
  <1>4. CASE parsePsyncHandshake(p)
    <2>1. g[p].pc = "psync"
      BY <1>4 DEF parsePsyncHandshake, At
    <2>2. PICK l \in {"load", "receive aof", "abort"} : g' = AtPlace(g, p, l)
      BY <1>4 DEF parsePsyncHandshake, Move, AtPlace
    <2>3. st' = Resynced(st, g[p].addr) \/ st' = Freed(st)
      BY <1>4 DEF parsePsyncHandshake, Resynced, Freed
    <2>4. st' \in Status /\ StatusKept(st, st')
      BY <1>1, <2>3, StatusType
    <2> QED
      BY <1>2, <2>1, <2>2, <2>4, MoveInv
  <1>5. CASE loadMasterRDB(p)
    <2>1. g[p].pc = "loaded" /\ st' = st
      BY <1>5 DEF loadMasterRDB, At
    <2>2. PICK l \in {"receive aof", "abort"} : g' = AtPlace(g, p, l)
      BY <1>5 DEF loadMasterRDB, Move, AtPlace
    <2> QED
      BY <1>1, <1>2, <1>3, <2>1, <2>2, MoveInv
  <1>6. CASE ReceiveStart(p)
    <2>1. /\ g[p].pc = "receive aof" /\ st' = Counted(st, st.running + 1)
          /\ g' = AtPlace(g, p, "receive")
      BY <1>6 DEF ReceiveStart, At, Move, AtPlace, Counted
    <2>2. st' \in Status /\ StatusKept(st, st')
      BY <1>1, <2>1, StatusType
    <2> QED
      BY <1>2, <2>1, <2>2, MoveInv
  <1>7. CASE Select(p)
    <2>1. g[p].pc = "receive" /\ (st' = st \/ st' = Counted(st, st.running - 1))
      BY <1>7 DEF Select, At, Counted
    <2>2. PICK l \in {"payload", "end"} : g' = AtPlace(g, p, l)
      BY <1>7 DEF Select, Move, AtPlace
    <2>3. st' \in Status /\ StatusKept(st, st')
      BY <1>1, <1>3, <2>1, StatusType
    <2> QED
      BY <1>2, <2>1, <2>2, <2>3, MoveInv
  <1>8. CASE ReceivePayload(p)
    <2>1. g[p].pc = "payload" /\ (st' = st \/ st' = KeptLocked(st, p, st.running - 1))
      BY <1>8 DEF ReceivePayload, At, KeptLocked
    <2>2. PICK l \in {"receive", "end"} : g' = AtPlace(g, p, l)
      BY <1>8 DEF ReceivePayload, Move, AtPlace
    <2>3. st' \in Status /\ StatusKept(st, st')
      BY <1>1, <1>3, <2>1, StatusType
    <2> QED
      BY <1>2, <2>1, <2>2, <2>3, MoveInv
  <1> QED
    BY <1>4, <1>5, <1>6, <1>7, <1>8

-----------------------------------------------------------------------------
(* The invariant and the theorem *)

LEMMA InitInv == Init => SlaveInv
  <1> SUFFICES ASSUME Init PROVE SlaveInv
    OBVIOUS
  <1>1. SlaveType
    BY DEF Init, SlaveType, Unconnected
  <1>2. Configured
    <2>1. st.conn = None /\ st.version = 0 /\ \A p \in Procs : g[p].ver = 0 /\ g[p].pc = "new"
      BY DEF Init
    <2>2. "new" \notin Following /\ "new" \notin Reading
      BY DEF Following, Reading
    <2> QED
      BY <2>1, <2>2 DEF Configured
  <1> QED
    BY <1>1, <1>2 DEF SlaveInv

LEMMA NextInv == SlaveInv /\ [Next]_vars => SlaveInv'
  <1> SUFFICES ASSUME SlaveInv, [Next]_vars PROVE SlaveInv'
    OBVIOUS
  <1>1. CASE UNCHANGED vars
    BY <1>1 DEF vars, SlaveInv, SlaveType, Configured
  <1>2. CASE (\E h \in Hosts : execSlaveOf(h)) \/ ClientSlaveOfNone \/ reconnectWithMaster
    BY <1>2, BumpInv
  <1>3. CASE ClientStopped \/ CronStopped
    BY <1>3, StopEndInv
  <1>4. ASSUME NEW p \in Procs, setupMaster(p) PROVE SlaveInv'
    BY <1>4, AbortInv, StopEndInv, SetupInv, DialInv, HandshakeInv, DownloadInv, FollowInv DEF setupMaster
  <1> QED
    BY <1>1, <1>2, <1>3, <1>4 DEF Next, Work

\* A step that changes the data is of a goroutine that follows the master in the
\* version of now.
LEMMA DataStep ==
    ASSUME SlaveInv, [Next]_vars, data' # data, NEW p \in Procs, g'[p] # g[p]
    PROVE  g[p].addr = st.host
  <1>1. PICK q \in Procs : loadMasterRDB(q) \/ ReceivePayload(q)
    BY DEF Next, Work, setupMaster, vars, execSlaveOf, ClientSlaveOfNone, reconnectWithMaster,
           ClientStopped, CronStopped, Setup, Dial, Handshake, parsePsyncHandshake, DownloadRDB,
           ReceiveStart, Select, Abort, AbortEnd
  <1>2. g[q].ver = st.version /\ g[q].pc \in {"loaded", "payload"}
    BY <1>1 DEF loadMasterRDB, ReceivePayload, At
  <1>3. g[q].addr = st.host
    BY <1>2 DEF SlaveInv, Configured, Following
  <1>4. PICK l : g' = [g EXCEPT ![q].pc = l]
    BY <1>1 DEF loadMasterRDB, ReceivePayload, Move, AtPlace
  <1>5. p = q
    BY <1>4 DEF SlaveInv, SlaveType
  <1> QED
    BY <1>3, <1>5

(* Data comes from the configured master only: when loadMasterRDB replaces the
   database or receiveAOF executes an update, the goroutine had dialled the
   master slaveStatus names at that moment, for any number of SLAVEOF commands,
   reconnections and goroutines. *)
THEOREM DataFromMaster == Spec => SourceIsMaster
  <1>1. SlaveInv /\ [Next]_vars
          => [\A p \in Procs : (data' # data /\ g'[p] # g[p]) => g[p].addr = st.host]_vars
    BY DataStep
  <1> QED
    BY <1>1, InitInv, NextInv, PTL DEF Spec, SourceIsMaster
-----------------------------------------------------------------------------
(* One receiver *)

\* A step of a goroutine: it has begun, it is not set up again, and unless it was
\* being set up it does not become a candidate.
Proceeds(p) ==
    /\ g[p].pc # "new" /\ g'[p].pc \notin {"new", "setup"}
    /\ g'[p].pc \in Following \cup {"host"} =>
         \/ g[p].pc = "setup"
         \/ g[p].pc \in Following \cup {"host"} /\ g'[p].ver = g[p].ver
    /\ \A q \in Procs : q # p => g'[q] = g[q]

LEMMA ProceedsTo ==
    ASSUME SlaveInv, NEW p \in Procs, NEW l \in Places, g[p].pc # "new", l \notin {"new", "setup"},
           \/ g' = AtPlace(g, p, l)
           \/ \E a \in Hosts \cup {None} : g' = WithAddress(g, p, l, a),
           l \in Following \cup {"host"} => g[p].pc \in Following \cup {"host"}
    PROVE  Proceeds(p) /\ g'[p].pc = l
  <1>1. g \in Goroutines
    BY Types DEF SlaveInv
  <1> QED
    BY <1>1, MovedTo, MovedFrom DEF Proceeds

\* What the goroutines do, in these terms.
LEMMA SetupProceeds ==
    ASSUME SlaveInv, NEW p \in Procs, setupMaster(p)
    PROVE  Proceeds(p)
  <1>1. SlaveType /\ g \in Goroutines /\ st.version \in Nat
    BY Types DEF SlaveInv, SlaveType
  <1>2. /\ {"dialled", "loaded", "receive aof", "receive", "payload", "psync", "load"} = Following
        /\ {"blocked", "abort", "abort twice", "stopping", "stopping twice", "end"} = Leaving
        /\ Unconnected = {"new", "setup", "host"}
        /\ Places = Unconnected \cup Following \cup Leaving
    BY DEF Following, Reading, Leaving, Unconnected, Places
  <1>3. CASE Setup(p)
    <2>1. g[p].pc = "setup" /\ g' = WithVersion(g, p, "host", st.version) /\ "host" \in Places
      BY <1>2, <1>3 DEF Setup, At, WithVersion
    <2> QED
      BY <1>1, <2>1, MovedWith DEF Proceeds
  <1>4. CASE Dial(p)
    <2>1. g[p].pc = "host" /\ st.host \in Hosts \cup {None}
      BY <1>1, <1>4 DEF Dial, At, SlaveType
    <2>2. g' = WithAddress(g, p, "dialled", st.host) \/ g' = AtPlace(g, p, "abort twice")
      BY <1>4 DEF Dial, Move, AtPlace, WithAddress
    <2>3. "dialled" \in Places /\ "abort twice" \in Places /\ "abort twice" \notin Following \cup {"host"}
      BY <1>2
    <2>4. CASE g' = WithAddress(g, p, "dialled", st.host)
      BY <2>1, <2>3, <2>4, ProceedsTo
    <2>5. CASE g' = AtPlace(g, p, "abort twice")
      BY <2>1, <2>3, <2>5, ProceedsTo
    <2> QED
      BY <2>2, <2>4, <2>5
  <1>5. CASE Handshake(p) \/ parsePsyncHandshake(p) \/ loadMasterRDB(p) \/ ReceiveStart(p) \/ Select(p)
               \/ ReceivePayload(p)
    <2>1. g[p].pc \in Following
      BY <1>2, <1>5 DEF Handshake, parsePsyncHandshake, loadMasterRDB, ReceiveStart, Select, ReceivePayload, At
    <2>2. PICK l \in Following \cup Leaving : g' = AtPlace(g, p, l)
      BY <1>2, <1>5 DEF Handshake, parsePsyncHandshake, loadMasterRDB, ReceiveStart, Select, ReceivePayload,
                        Move, AtPlace
    <2> QED
      BY <1>2, <2>1, <2>2, ProceedsTo
  <1>6. CASE DownloadRDB(p)
    <2>1. g[p].pc = "load"
      BY <1>6 DEF DownloadRDB, At
    <2>2. st.conn # None => g[st.conn].addr \in Hosts \cup {None}
      BY <1>1 DEF SlaveType
    <2>3. \/ st.conn # None /\ g' = WithAddress(g, p, "loaded", g[st.conn].addr)
          \/ g' = AtPlace(g, p, "abort") \/ g' = AtPlace(g, p, "blocked")
      BY <1>6 DEF DownloadRDB, Move, AtPlace, WithAddress
    <2>4. "loaded" \in Places /\ g[p].pc \in Following
          /\ \A l \in {"abort", "blocked"} : l \in Places /\ l \notin Following \cup {"host"}
      BY <1>2, <2>1
    <2>5. CASE st.conn # None /\ g' = WithAddress(g, p, "loaded", g[st.conn].addr)
      BY <2>1, <2>2, <2>4, <2>5, ProceedsTo
    <2>6. CASE g' = AtPlace(g, p, "abort") \/ g' = AtPlace(g, p, "blocked")
      BY <2>1, <2>4, <2>6, ProceedsTo
    <2> QED
      BY <2>3, <2>5, <2>6
  <1>7. CASE Abort(p) \/ AbortEnd(p)
    <2>1. g[p].pc \in Leaving
      BY <1>2, <1>7 DEF Abort, AbortEnd
    <2>2. PICK l \in Leaving : g' = AtPlace(g, p, l)
      BY <1>2, <1>7 DEF Abort, AbortEnd, Move, AtPlace
    <2> QED
      BY <1>2, <2>1, <2>2, ProceedsTo
  <1> QED
    BY <1>3, <1>4, <1>5, <1>6, <1>7 DEF setupMaster

\* The configuration in a step of a goroutine: the version may be raised, and the
\* connection is given up, or made by a candidate.
LEMMA SetupStatus ==
    ASSUME SlaveInv, NEW p \in Procs, setupMaster(p)
    PROVE  /\ st'.version \in {st.version, st.version + 1}
           /\ \/ st'.conn \in {st.conn, None}
              \/ g[p].pc = "dialled" /\ g[p].ver = st.version
           /\ op' = op /\ cnt' = cnt
  <1>1. SlaveType
    BY DEF SlaveInv
  <1>2. op' = op /\ cnt' = cnt
    BY DEF setupMaster, Setup, Dial, Handshake, parsePsyncHandshake, DownloadRDB, loadMasterRDB, ReceiveStart,
           Select, ReceivePayload, Abort, AbortEnd
  <1>3. CASE Abort(p) \/ AbortEnd(p)
    <2>1. st' = StopBegin(p, Forget(st)) \/ st' = StopEnd(st)
      BY <1>3 DEF Abort, AbortEnd
    <2> QED
      BY <1>1, <1>2, <2>1, Stops
  <1>4. CASE Handshake(p)
    <2>1. \/ st' = st
          \/ g[p].pc = "dialled" /\ g[p].ver = st.version /\ st' = [st EXCEPT !.mutex = p, !.conn = p]
      BY <1>4 DEF Handshake, At
    <2> QED
      BY <1>1, <1>2, <2>1 DEF SlaveType
  <1>5. CASE Setup(p) \/ Dial(p) \/ parsePsyncHandshake(p) \/ DownloadRDB(p) \/ loadMasterRDB(p) \/ ReceiveStart(p)
               \/ Select(p) \/ ReceivePayload(p)
    <2>1. /\ st \in Status /\ g[p].addr \in Hosts \cup {None}
          /\ st.running + 1 \in Int /\ st.running - 1 \in Int
      BY Types DEF SlaveInv, SlaveType
    <2>2. \/ st' = st \/ st' = [st EXCEPT !.cancel = p]
          \/ st' = Freed(st) \/ st' = Resynced(st, g[p].addr)
          \/ st' = Counted(st, st.running + 1) \/ st' = Counted(st, st.running - 1)
          \/ st' = KeptLocked(st, p, st.running - 1)
      BY <1>5 DEF Setup, Dial, parsePsyncHandshake, DownloadRDB, loadMasterRDB, ReceiveStart, Select,
                  ReceivePayload, Freed, Resynced, Counted, KeptLocked
    <2>3. StatusKept(st, st')
      <3>1. CASE st' = [st EXCEPT !.cancel = p]
        BY <2>1, <3>1 DEF Status, StatusKept
      <3>2. CASE st' = st
        BY <3>2 DEF StatusKept
      <3> QED
        BY <2>1, <2>2, <3>1, <3>2, StatusType
    <2> QED
      BY <1>2, <2>3 DEF StatusKept
  <1> QED
    BY <1>3, <1>4, <1>5 DEF setupMaster

\* A goroutine's step keeps the candidates few.
LEMMA SetupSingle ==
    ASSUME SlaveInv, Single, cnt.commands \in Nat, NEW p \in Procs, setupMaster(p)
    PROVE  Single'
  <1>1. Proceeds(p)
    BY SetupProceeds
  <1>2. /\ st'.version \in {st.version, st.version + 1}
        /\ st'.conn \in {st.conn, None} \/ (g[p].pc = "dialled" /\ g[p].ver = st.version)
        /\ op' = op /\ cnt' = cnt
    BY SetupStatus
  <1>3. st.version \in Nat /\ \A q \in Procs : g[q].ver \in Nat /\ g[q].ver <= st.version
    BY DEF SlaveInv, SlaveType, Configured
  <1>4. \A q \in Procs : q \in Candidates' => q \in Candidates
    <2> SUFFICES ASSUME NEW q \in Procs, q \in Candidates' PROVE q \in Candidates
      OBVIOUS
    <2>1. CASE q = p
      BY <1>1, <1>2, <1>3, <2>1 DEF Proceeds, Candidates, At
    <2>2. CASE q # p
      BY <1>1, <1>2, <1>3, <2>2 DEF Proceeds, Candidates, At
    <2> QED
      BY <2>1, <2>2
  <1>5. cnt'.commands # 0
    BY <1>1, <1>2 DEF Single, At, Proceeds
  <1>6. cnt'.commands = 1 => (st'.conn # None => \A q \in Procs : ~At(q, "setup")')
    <2> SUFFICES ASSUME cnt'.commands = 1, st'.conn # None, NEW q \in Procs, g'[q].pc = "setup" PROVE FALSE
      BY DEF At
    <2>1. q # p /\ g[q].pc = "setup" /\ q \in Candidates
      BY <1>1 DEF Proceeds, Candidates, At
    <2>2. g[p].pc = "dialled" /\ g[p].ver = st.version => p \in Candidates
      BY DEF Candidates, Following
    <2> QED
      BY <1>2, <2>1, <2>2 DEF Single, At
  <1>7. Candidates' \subseteq Candidates
    BY <1>4 DEF Candidates
  <1> QED
    BY <1>2, <1>5, <1>6, <1>7 DEF Single

\* So do commands, the cron, and what it starts.
LEMMA CommandSingle ==
    ASSUME SlaveInv, Counting, Single, SlaveType',
           \/ \E h \in Hosts : execSlaveOf(h)
           \/ ClientSlaveOfNone \/ reconnectWithMaster \/ ClientStopped \/ CronStopped
    PROVE  Single'
  <1>1. st.version \in Nat /\ \A q \in Procs : g[q].ver \in Nat /\ g[q].ver <= st.version /\ g[q].ver # st.version + 1
    BY DEF SlaveInv, SlaveType, Configured
  <1>2. SlaveType /\ g \in Goroutines /\ "setup" \in Places /\ cnt.commands \in Nat /\ Client # Cron
    BY Types DEF SlaveInv, Places, Unconnected, Counting, Client, Cron
  <1>3. CASE \E h \in Hosts : execSlaveOf(h)
    <2>1. PICK h \in Hosts, p \in Fresh : /\ st' = [st EXCEPT !.host = h, !.version = @ + 1] /\ Go(p)
                                         /\ cnt' = [cnt EXCEPT !.commands = @ + 1] /\ op' = op
      BY <1>3 DEF execSlaveOf
    <2>2. p \in Procs /\ g' = AtPlace(g, p, "setup")
      BY <2>1 DEF Fresh, Go, AtPlace
    <2>3. g'[p].pc = "setup" /\ \A q \in Procs : q # p => g'[q] = g[q]
      BY <1>2, <2>2, MovedTo
    <2>4. st'.version = st.version + 1 /\ st'.conn = st.conn /\ cnt'.commands = cnt.commands + 1
      BY <1>2, <2>1 DEF SlaveType, Counting
    <2>5. cnt.commands = 0 => \A q \in Procs : q \in Candidates' => q = p
      BY <1>1, <2>3, <2>4 DEF Single, Candidates, At, Following, Reading
    <2> QED
      BY <1>2, <2>1, <2>4, <2>5 DEF Single, Candidates
  <1>4. CASE ClientSlaveOfNone
    <2>1. st'.version = st.version + 1 /\ st'.conn = st.conn /\ g' = g
      BY <1>2, <1>4, Stops DEF ClientSlaveOfNone
    <2>2. cnt'.commands = cnt.commands + 1 /\ op'[Cron] = op[Cron]
      BY <1>2, <1>4 DEF ClientSlaveOfNone, Counting
    <2>3. cnt.commands = 0 => Candidates' = {}
      BY <2>1 DEF Single, Candidates, At, Following, Reading
    <2> QED
      BY <1>2, <2>1, <2>2, <2>3 DEF Single
  <1>5. CASE reconnectWithMaster
    <2>1. st'.version = st.version + 1 /\ st'.conn = st.conn /\ g' = g /\ st.conn # None
      BY <1>2, <1>5, Stops DEF reconnectWithMaster
    <2>2. cnt'.commands = cnt.commands
      BY <1>5 DEF reconnectWithMaster, Counting
    <2>3. cnt.commands = 1 => Candidates' = {} /\ \A q \in Procs : ~At(q, "setup")'
      BY <1>1, <2>1 DEF Single, Candidates, At
    <2> QED
      BY <2>1, <2>2, <2>3 DEF Single
  <1>6. CASE ClientStopped
    <2>1. st'.version = st.version /\ st'.conn = None /\ g' = g /\ cnt' = cnt
      BY <1>2, <1>6, Stops DEF ClientStopped
    <2>2. op'[Cron] = op[Cron]
      BY <1>2, <1>6 DEF ClientStopped, Counting
    <2>3. Candidates' = Candidates
      BY <2>1 DEF Candidates, At
    <2> QED
      BY <2>1, <2>2, <2>3 DEF Single, At
  <1>7. CASE CronStopped
    <2>1. st'.version = st.version /\ st'.conn = None /\ cnt' = cnt /\ op[Cron] = "wait"
      BY <1>2, <1>7, Stops DEF CronStopped
    <2>2. op'[Cron] = "idle"
      BY <1>7 DEF CronStopped, Counting
    <2>3. PICK p \in Procs : g' = AtPlace(g, p, "setup")
      BY <1>7 DEF CronStopped, Fresh, Go, AtPlace
    <2>4. g'[p].pc = "setup" /\ \A q \in Procs : q # p => g'[q] = g[q]
      BY <1>2, <2>3, MovedTo
    <2>5. cnt.commands = 1 => \A q \in Procs : q \in Candidates' => q = p
      BY <2>1, <2>4 DEF Single, Candidates, At
    <2> QED
      BY <2>1, <2>2, <2>5 DEF Single, Candidates
  <1> QED
    BY <1>3, <1>4, <1>5, <1>6, <1>7

-----------------------------------------------------------------------------
(* The wait group *)

\* A goroutine moves into the loop of receiveAOF, out of it, or neither.
LEMMA ReceiversMove ==
    ASSUME SlaveInv, NEW p \in Procs, Proceeds(p), NEW n \in Nat, n = Cardinality(Receivers)
    PROVE  /\ p \in Receivers /\ p \notin Receivers' => n - 1 \in Nat /\ Cardinality(Receivers') = n - 1
           /\ p \notin Receivers /\ p \in Receivers' => Cardinality(Receivers') = n + 1
           /\ (p \in Receivers <=> p \in Receivers') => Cardinality(Receivers') = n
  <1>1. IsFiniteSet(Receivers)
    BY FiniteProcs, FS_Subset DEF Receivers
  <1>2. p \in Receivers /\ p \notin Receivers' => Receivers' = Receivers \ {p}
    BY DEF Proceeds, Receivers
  <1>3. p \notin Receivers /\ p \in Receivers' => Receivers' = Receivers \cup {p}
    BY DEF Proceeds, Receivers
  <1>4. (p \in Receivers <=> p \in Receivers') => Receivers' = Receivers
    BY DEF Proceeds, Receivers
  <1>5. p \in Receivers => n - 1 \in Nat
    BY <1>1, FS_EmptySet, FS_CardinalityType
  <1> QED
    BY <1>1, <1>2, <1>3, <1>4, <1>5, FS_AddElement, FS_RemoveElement

\* ReceiveStart counts a goroutine (running.Add), the returns of receiveAOF count
\* it down (running.Done).
LEMMA SetupRunning ==
    ASSUME SlaveInv, Counting, NEW p \in Procs, setupMaster(p)
    PROVE  st'.running = Cardinality(Receivers')
  <1>1. Proceeds(p) /\ SlaveType /\ st \in Status
    BY SetupProceeds, Types DEF SlaveInv
  <1>2. IsFiniteSet(Receivers) /\ st.running \in Nat /\ st.running = Cardinality(Receivers)
    BY FiniteProcs, FS_Subset, FS_CardinalityType DEF Receivers, Counting
  <1>3. /\ p \in Receivers /\ p \notin Receivers' => Cardinality(Receivers') = st.running - 1
        /\ p \notin Receivers /\ p \in Receivers' => Cardinality(Receivers') = st.running + 1
        /\ (p \in Receivers <=> p \in Receivers') => Cardinality(Receivers') = st.running
    BY <1>1, <1>2, ReceiversMove
  <1>4. g \in Goroutines /\ \A l : l \in Following \cup Leaving \cup Unconnected => l \in Places
    BY <1>1, Types DEF Places
  <1>5. CASE ReceiveStart(p)
    <2>1. g[p].pc = "receive aof" /\ g' = AtPlace(g, p, "receive") /\ "receive" \in Places
      BY <1>4, <1>5 DEF ReceiveStart, At, Move, AtPlace, Following
    <2>2. g'[p].pc = "receive"
      BY <1>4, <2>1, MovedTo
    <2>3. st'.running = st.running + 1
      BY <1>1, <1>5 DEF ReceiveStart, Status
    <2> QED
      BY <1>3, <2>1, <2>2, <2>3 DEF Receivers
  <1>6. CASE Select(p)
    <2>1. /\ g[p].pc = "receive"
          /\ \/ g' = AtPlace(g, p, "payload") /\ st' = st
             \/ g' = AtPlace(g, p, "end") /\ st' = Counted(st, st.running - 1)
      BY <1>6 DEF Select, At, Move, AtPlace, Counted
    <2>2. "payload" \in Places /\ "end" \in Places
      BY <1>4 DEF Following, Leaving
    <2>3. CASE g' = AtPlace(g, p, "payload") /\ st' = st
      BY <1>3, <1>4, <2>1, <2>2, <2>3, MovedTo DEF Receivers
    <2>4. CASE g' = AtPlace(g, p, "end") /\ st' = Counted(st, st.running - 1)
      <3>1. g'[p].pc = "end"
        BY <1>4, <2>2, <2>4, MovedTo
      <3>2. st'.running = st.running - 1
        BY <1>1, <2>4 DEF Counted, Status
      <3> QED
        BY <1>3, <2>1, <3>1, <3>2 DEF Receivers
    <2> QED
      BY <2>1, <2>3, <2>4
  <1>7. CASE ReceivePayload(p)
    <2>1. /\ g[p].pc = "payload"
          /\ \/ g' = AtPlace(g, p, "receive") /\ st' = st
             \/ g' = AtPlace(g, p, "end") /\ st' = KeptLocked(st, p, st.running - 1)
      BY <1>7 DEF ReceivePayload, At, Move, AtPlace, KeptLocked
    <2>2. "receive" \in Places /\ "end" \in Places
      BY <1>4 DEF Following, Leaving
    <2>3. CASE g' = AtPlace(g, p, "receive") /\ st' = st
      BY <1>3, <1>4, <2>1, <2>2, <2>3, MovedTo DEF Receivers
    <2>4. CASE g' = AtPlace(g, p, "end") /\ st' = KeptLocked(st, p, st.running - 1)
      <3>1. g'[p].pc = "end"
        BY <1>4, <2>2, <2>4, MovedTo
      <3>2. st'.running = st.running - 1
        BY <1>1, <2>4 DEF KeptLocked, Status
      <3> QED
        BY <1>3, <2>1, <3>1, <3>2 DEF Receivers
    <2> QED
      BY <2>1, <2>3, <2>4
  <1>8. CASE Setup(p) \/ Dial(p) \/ Handshake(p) \/ parsePsyncHandshake(p) \/ DownloadRDB(p) \/ loadMasterRDB(p)
               \/ Abort(p) \/ AbortEnd(p)
    <2>1. st'.running = st.running
      BY <1>1, <1>8 DEF Setup, Dial, Handshake, parsePsyncHandshake, DownloadRDB, loadMasterRDB, Abort, AbortEnd,
                        StopBegin, StopEnd, Forget, Status
    <2>2. g[p].pc \notin {"receive", "payload"}
      BY <1>8 DEF Setup, Dial, Handshake, parsePsyncHandshake, DownloadRDB, loadMasterRDB, Abort, AbortEnd, At
    <2>3. g'[p].pc \notin {"receive", "payload"}
      <3>1. CASE Setup(p)
        <4>1. g' = WithVersion(g, p, "host", st.version) /\ "host" \in Places /\ st.version \in Nat
          BY <1>1, <1>4, <3>1 DEF Setup, WithVersion, Unconnected, SlaveType
        <4> QED
          BY <1>4, <4>1, MovedWith
      <3>2. CASE \E l \in {"dialled", "loaded"}, a \in Hosts \cup {None} : g' = WithAddress(g, p, l, a)
        <4>1. {"dialled", "loaded"} \subseteq Places
          BY <1>4 DEF Following
        <4> QED
          BY <1>4, <3>2, <4>1, MovedFrom
      <3>3. CASE \E l \in {"psync", "load", "receive aof"} \cup Leaving : g' = AtPlace(g, p, l)
        <4>1. {"psync", "load", "receive aof"} \cup Leaving \subseteq Places \ {"receive", "payload"}
          BY <1>4 DEF Following, Reading, Leaving
        <4>2. PICK l \in {"psync", "load", "receive aof"} \cup Leaving : g' = AtPlace(g, p, l)
          BY <3>3
        <4>3. l \in Places /\ l \notin {"receive", "payload"}
          BY <4>1
        <4> QED
          BY <1>4, <4>2, <4>3, MovedTo
      <3>4. CASE DownloadRDB(p)
        <4>1. \/ g' = AtPlace(g, p, "abort") \/ g' = AtPlace(g, p, "blocked")
              \/ st.conn # None /\ g' = WithAddress(g, p, "loaded", g[st.conn].addr)
          BY <3>4 DEF DownloadRDB, Move, AtPlace, WithAddress
        <4>2. st.conn # None => g[st.conn].addr \in Hosts \cup {None}
          BY <1>1 DEF SlaveType
        <4> QED
          BY <3>2, <3>3, <4>1, <4>2 DEF Leaving
      <3>5. CASE Dial(p)
        <4>1. g' = AtPlace(g, p, "abort twice") \/ g' = WithAddress(g, p, "dialled", st.host)
          BY <3>5 DEF Dial, Move, AtPlace, WithAddress
        <4>2. st.host \in Hosts \cup {None}
          BY <1>1 DEF SlaveType
        <4> QED
          BY <3>2, <3>3, <4>1, <4>2 DEF Leaving
      <3>6. CASE Handshake(p) \/ parsePsyncHandshake(p) \/ loadMasterRDB(p) \/ Abort(p) \/ AbortEnd(p)
        BY <3>3, <3>6 DEF Handshake, parsePsyncHandshake, loadMasterRDB, Abort, AbortEnd, Move, AtPlace, Leaving
      <3> QED
        BY <1>8, <3>1, <3>4, <3>5, <3>6
    <2> QED
      BY <1>3, <2>1, <2>2, <2>3 DEF Receivers
  <1> QED
    BY <1>5, <1>6, <1>7, <1>8 DEF setupMaster

LEMMA NextCounting == SlaveInv /\ Counting /\ [Next]_vars => Counting'
  <1> SUFFICES ASSUME SlaveInv, Counting, [Next]_vars PROVE Counting'
    OBVIOUS
  <1>1. SlaveType /\ st \in Status /\ g \in Goroutines
    BY Types DEF SlaveInv
  <1>2. role' \in {"master", "slave"}
    BY DEF Counting, Next, Work, vars, setupMaster, execSlaveOf, ClientSlaveOfNone, reconnectWithMaster,
           ClientStopped, CronStopped, Setup, Dial, Handshake, parsePsyncHandshake, DownloadRDB, loadMasterRDB,
           ReceiveStart, Select, ReceivePayload, Abort, AbortEnd
  <1>3. done' \subseteq Procs
    <2>1. done' = done \/ done' = Cancelled
      BY DEF Next, Work, vars, setupMaster, execSlaveOf, ClientSlaveOfNone, reconnectWithMaster,
             ClientStopped, CronStopped, Setup, Dial, Handshake, parsePsyncHandshake, DownloadRDB, loadMasterRDB,
             ReceiveStart, Select, ReceivePayload, Abort, AbortEnd
    <2> QED
      BY <1>1, <2>1 DEF Counting, Cancelled, SlaveType
  <1>4. data' \in [from : Hosts \cup {None}, n : Nat]
    <2>1. \/ data' = data
          \/ \E p \in Procs : data' = [data EXCEPT !.from = g[p].addr]
          \/ data' = [data EXCEPT !.n = @ + 1]
      BY DEF Next, Work, vars, setupMaster, execSlaveOf, ClientSlaveOfNone, reconnectWithMaster,
             ClientStopped, CronStopped, Setup, Dial, Handshake, parsePsyncHandshake, DownloadRDB, loadMasterRDB,
             ReceiveStart, Select, ReceivePayload, Abort, AbortEnd
    <2> QED
      BY <1>1, <2>1 DEF Counting, SlaveType
  <1>5. op' \in [{Client, Cron} -> {"idle", "wait"}]
    BY DEF Counting, Next, Work, vars, setupMaster, execSlaveOf, ClientSlaveOfNone, reconnectWithMaster,
           ClientStopped, CronStopped, Setup, Dial, Handshake, parsePsyncHandshake, DownloadRDB, loadMasterRDB,
           ReceiveStart, Select, ReceivePayload, Abort, AbortEnd
  <1>6. cnt' \in [commands : Nat, timeouts : Nat]
    <2>1. \/ cnt' = cnt
          \/ cnt' = [cnt EXCEPT !.commands = @ + 1] \/ cnt' = [cnt EXCEPT !.timeouts = @ + 1]
      BY DEF Next, Work, vars, setupMaster, execSlaveOf, ClientSlaveOfNone, reconnectWithMaster,
             ClientStopped, CronStopped, Setup, Dial, Handshake, parsePsyncHandshake, DownloadRDB, loadMasterRDB,
             ReceiveStart, Select, ReceivePayload, Abort, AbortEnd
    <2> QED
      BY <2>1 DEF Counting
  <1>7. st'.running = Cardinality(Receivers')
    <2>1. CASE \E p \in Procs : setupMaster(p)
      BY <2>1, SetupRunning
    <2>2. CASE (\E h \in Hosts : execSlaveOf(h)) \/ CronStopped
      <3>1. st'.running = st.running
        BY <1>1, <2>2 DEF execSlaveOf, CronStopped, StopEnd, Status
      <3>2. PICK p \in Procs : g[p].pc = "new" /\ g' = AtPlace(g, p, "setup")
        BY <2>2 DEF execSlaveOf, CronStopped, Fresh, Go, AtPlace
      <3>3. "setup" \in Places
        BY DEF Places, Unconnected
      <3>4. g'[p].pc = "setup" /\ \A q \in Procs : q # p => g'[q] = g[q]
        BY <1>1, <3>2, <3>3, MovedTo
      <3>5. Receivers' = Receivers
        BY <3>2, <3>4 DEF Receivers
      <3> QED
        BY <3>1, <3>5 DEF Counting
    <2>3. CASE ClientSlaveOfNone \/ reconnectWithMaster \/ ClientStopped \/ UNCHANGED vars
      <3>1. g' = g /\ st'.running = st.running
        BY <1>1, <2>3 DEF ClientSlaveOfNone, reconnectWithMaster, ClientStopped, vars, StopBegin, StopEnd, Forget,
                          Status
      <3> QED
        BY <3>1 DEF Counting, Receivers
    <2> QED
      BY <2>1, <2>2, <2>3 DEF Next, Work
  <1> QED
    BY <1>2, <1>3, <1>4, <1>5, <1>6, <1>7 DEF Counting

LEMMA NextSingle == SlaveInv /\ SlaveType' /\ Counting /\ Single /\ [Next]_vars => Single'
  <1> SUFFICES ASSUME SlaveInv, SlaveType', Counting, Single, [Next]_vars PROVE Single'
    OBVIOUS
  <1>1. CASE UNCHANGED vars
    BY <1>1 DEF vars, Single, Candidates, At
  <1>2. CASE \E p \in Procs : setupMaster(p)
    BY <1>2, SetupSingle DEF Counting
  <1> QED
    BY <1>1, <1>2, CommandSingle DEF Next, Work

LEMMA InitSingle == Init => Counting /\ Single
  <1> SUFFICES ASSUME Init PROVE Counting /\ Single
    OBVIOUS
  <1>1. Receivers = {} /\ Cardinality({}) = 0
    BY FS_EmptySet DEF Init, Receivers
  <1> QED
    BY <1>1 DEF Init, Counting, Single, At

(* Updates keep their order: after one SLAVEOF no two goroutines are in the loop of
   receiveAOF for the current version, through any number of reconnections of the
   cron and of failed set-ups; and the wait group counts those in the loop. *)
THEOREM UpdatesHaveOneReceiver == Spec => []OneReceiver
  <1>1. SlaveInv /\ Counting /\ Single => OneReceiver
    <2> SUFFICES ASSUME SlaveInv, Counting, Single PROVE OneReceiver
      OBVIOUS
    <2>1. Cardinality(Receivers) \in 0..Cardinality(Procs)
      BY FiniteProcs, FS_Subset, FS_CardinalityType DEF Receivers
    <2>2. TypeOK
      BY <2>1 DEF SlaveInv, SlaveType, Counting, TypeOK
    <2>3. {r \in Procs : g[r].pc \in {"receive", "payload"} /\ g[r].ver = st.version} \subseteq Candidates
      BY DEF Candidates, Following
    <2> QED
      BY <2>2, <2>3 DEF OneReceiver, Single
  <1>2. SlaveInv /\ Counting /\ Single /\ [Next]_vars => (SlaveInv /\ Counting /\ Single)'
    BY NextInv, NextCounting, NextSingle DEF SlaveInv
  <1> QED
    BY <1>1, <1>2, InitInv, InitSingle, PTL DEF Spec
=============================================================================
