------------------------------- MODULE Server -------------------------------
(***************************************************************************)
(* The databases of a server behind SELECT, FLUSHDB, FLUSHALL and COPY     *)
(* (database/server.go, execCopy in database/keys.go), and what the AOF    *)
(* and the RDB file rebuild of them (database/persistence.go).             *)
(*                                                                         *)
(* A command loads the pointer of the selected database and runs in that   *)
(* database later; the commands of the server itself change the array of   *)
(* databases under no lock.  store is what the array holds, replay what    *)
(* LoadAof would rebuild from the lines saved so far.  COPY stores the     *)
(* pointer of the entity, so a key knows the keys it shares its value      *)
(* with; SET stands for the commands that store a new entity and RPUSH for *)
(* those that change an entity in place.                                   *)
(***************************************************************************)
EXTENDS Integers, FiniteSets

CONSTANTS Client, Index, Key,
          MaxVal            \* bound: how often a value is changed in place

VARIABLES store, replay,    \* [Slot -> [val, ttl, with]]
          cl,               \* [Client -> the command under way]
          raced             \* the log and the databases are known to differ

vars == <<store, replay, cl, raced>>

Slot == Index \X Key

Absent == [val |-> 0, ttl |-> FALSE, with |-> {}]
Idle(i) == [pc |-> "idle", index |-> i, line |-> <<>>, stale |-> FALSE, done |-> {}]

Exists(st, s) == st[s].val > 0

-----------------------------------------------------------------------------
(* What the commands do to a set of databases.                             *)

(* The slot no longer holds its entity; the others that share it do.       *)
Drop(st, S) == [x \in Slot |-> IF x \in S THEN Absent ELSE [st[x] EXCEPT !.with = @ \ S]]

PutNew(st, s) == [Drop(st, {s}) EXCEPT ![s] = [val |-> 1, ttl |-> FALSE, with |-> {s}]]

Push(st, s) ==
  IF ~Exists(st, s) THEN PutNew(st, s)
  ELSE [x \in Slot |-> IF x \in st[s].with THEN [st[x] EXCEPT !.val = @ + 1] ELSE st[x]]

flushDB(st, i) == Drop(st, {i} \X Key)

flushAll(st) == Drop(st, Slot)

(* execCopy: nothing without a source, or over a destination without       *)
(* REPLACE; PutEntity stores the same entity and keeps the destination's   *)
(* expiration, which the source's replaces.                                *)
CanCopy(st, from, to, replace) ==
  from # to /\ Exists(st, from) /\ (Exists(st, to) => replace)

execCopy(st, from, to, replace) ==
  IF ~CanCopy(st, from, to, replace) THEN st
  ELSE LET ttl   == st[to].ttl \/ st[from].ttl
           group == st[from].with \cup {to}
           freed == Drop(st, {to})
       IN  [x \in Slot |->
              IF x = to THEN [val |-> st[from].val, ttl |-> ttl, with |-> group]
              ELSE IF x \in group THEN [freed[x] EXCEPT !.with = group] ELSE freed[x]]

(* Running a line, for a client or for LoadAof.                            *)
Run(st, line) ==
  CASE line[1] = "set"      -> PutNew(st, line[2])
    [] line[1] = "rpush"    -> Push(st, line[2])
    [] line[1] = "del"      -> Drop(st, {line[2]})
    [] line[1] = "expire"   -> IF Exists(st, line[2]) THEN [st EXCEPT ![line[2]].ttl = TRUE] ELSE st
    [] line[1] = "copy"     -> execCopy(st, line[2], line[3], line[4])
    [] line[1] = "flushdb"  -> flushDB(st, line[2])
    [] line[1] = "flushall" -> flushAll(st)

Save(line) == replay' = Run(replay, line)

-----------------------------------------------------------------------------
(* The server's own commands that others see half done: FLUSHDB between    *)
(* its line and the swap, FLUSHALL between the swaps and its line, COPY    *)
(* between its change and its line.                                        *)
Half(d) == CASE cl[d].pc = "flush"  -> {cl[d].index}
             [] cl[d].pc = "all"    -> cl[d].done
             [] cl[d].pc = "copied" -> {cl[d].line[2][1], cl[d].line[3][1]}
             [] OTHER -> {}

Races(c, I) == \E d \in Client \ {c} : Half(d) \cap I # {}

Become(c, r) == cl' = [cl EXCEPT ![c] = r]

(* Bound: after a race nothing is started until a restart.                 *)
Starts(c) == cl[c].pc = "idle" /\ ~raced

execSelect(c, i) ==
  /\ Starts(c) /\ i # cl[c].index
  /\ Become(c, Idle(i))
  /\ UNCHANGED <<store, replay, raced>>

(* Exec of a command of the database: selectDB loads the pointer.          *)
Exec(c, name, k) ==
  /\ Starts(c)
  /\ Become(c, [Idle(cl[c].index) EXCEPT !.pc = "run", !.line = <<name, <<cl[c].index, k>>>>])
  /\ UNCHANGED <<store, replay, raced>>

(* The command runs, and saves its line, under the lock of its key, in the *)
(* database whose pointer it holds.  If that database has been replaced,   *)
(* whether there was anything to do and to save depends on the old one.    *)
RunCommand(c) ==
  /\ cl[c].pc = "run"
  /\ \E line \in {cl[c].line} :
       /\ line[1] = "rpush" => store[line[2]].val < MaxVal /\ replay[line[2]].val < MaxVal
       /\ IF cl[c].stale
          THEN UNCHANGED store /\ (Save(line) \/ UNCHANGED replay)
          ELSE /\ store' = Run(store, line)
               /\ IF line[1] \in {"del", "expire"} /\ ~Exists(store, line[2])
                  THEN UNCHANGED replay ELSE Save(line)
       /\ raced' = (raced \/ cl[c].stale \/ Races(c, {line[2][1]}))
  /\ Become(c, Idle(cl[c].index))

(* loadDB: the new database takes the index and the addAof of the old one; *)
(* commands that hold the old pointer go on with the old database.         *)
loadDB(c, i, r) ==
  /\ store' = flushDB(store, i)
  /\ cl' = [d \in Client |->
              IF d = c THEN r
              ELSE IF cl[d].pc = "run" /\ cl[d].index = i THEN [cl[d] EXCEPT !.stale = TRUE]
              ELSE cl[d]]

Copying(i) == \E d \in Client : cl[d].pc = "copied" /\ i \in Half(d)

execFlushDB(c) ==
  /\ Starts(c)
  /\ Save(<<"flushdb", cl[c].index>>)
  /\ raced' = (raced \/ Copying(cl[c].index))
  /\ Become(c, [cl[c] EXCEPT !.pc = "flush"])
  /\ UNCHANGED store

FlushSwap(c) ==
  /\ cl[c].pc = "flush"
  /\ loadDB(c, cl[c].index, Idle(cl[c].index))
  /\ UNCHANGED <<replay, raced>>

FlushAllSwap(c) ==
  /\ Starts(c) \/ cl[c].pc = "all"
  /\ cl[c].done # Index
  /\ \E i \in Index \ cl[c].done :
       /\ \A j \in Index \ cl[c].done : i <= j
       /\ loadDB(c, i, [cl[c] EXCEPT !.pc = "all", !.done = @ \cup {i}])
       /\ raced' = (raced \/ Copying(i))
  /\ UNCHANGED replay

FlushAllSave_Selected(c) ==
  /\ cl[c].pc = "all" /\ cl[c].done = Index
  /\ Save(<<"flushdb", cl[c].index>>)
  /\ Become(c, Idle(cl[c].index))
  /\ UNCHANGED <<store, raced>>

FlushAllSave(c) ==
  /\ cl[c].pc = "all" /\ cl[c].done = Index
  /\ Save(<<"flushall">>)
  /\ Become(c, Idle(cl[c].index))
  /\ UNCHANGED <<store, raced>>

(* COPY, which takes no lock: from the lookup of the source to Expire of   *)
(* the destination, and then the line.                                     *)
Copy(c, k, to, replace) ==
  /\ Starts(c)
  /\ \E from \in {<<cl[c].index, k>>} :
       /\ CanCopy(store, from, to, replace)
       /\ store' = execCopy(store, from, to, replace)
       /\ raced' = (raced \/ Races(c, {from[1], to[1]}))
       /\ Become(c, [cl[c] EXCEPT !.pc = "copied", !.line = <<"copy", from, to, replace>>])
  /\ UNCHANGED replay

CopySave(c) ==
  /\ cl[c].pc = "copied"
  /\ Save(cl[c].line)
  /\ Become(c, Idle(cl[c].index))
  /\ UNCHANGED <<store, raced>>

(* The process stops, at any point; the next one finds the AOF and loads   *)
(* it.  Connections start at database 0.                                   *)
First == CHOOSE i \in Index : \A j \in Index : i <= j

Restart ==
  /\ store' = replay
  /\ cl' = [c \in Client |-> Idle(First)]
  /\ raced' = FALSE
  /\ UNCHANGED replay

(* The first start finds an RDB file and no AOF: LoadRDB puts its keys and *)
(* expirations and saves a line for every key, but none for an expiration. *)
LoadRDB(K, T) ==
  LET loaded(ttls) == [s \in Slot |-> IF s \in K
                         THEN [val |-> 1, ttl |-> s \in ttls, with |-> {s}] ELSE Absent]
  IN  /\ store = loaded(T)
      /\ replay = loaded({})
      /\ raced = (T # {})

Init ==
  /\ \E K \in SUBSET Slot : \E T \in SUBSET K : LoadRDB(K, T)
  /\ cl = [c \in Client |-> Idle(First)]

Next ==
  \/ Restart
  \/ \E c \in Client :
       \/ RunCommand(c) \/ execFlushDB(c) \/ FlushSwap(c)
       \/ FlushAllSwap(c) \/ FlushAllSave(c) \/ CopySave(c)
       \/ \E i \in Index : execSelect(c, i)
       \/ \E k \in Key, name \in {"set", "rpush", "del", "expire"} : Exec(c, name, k)
       \/ \E k \in Key, to \in Slot, replace \in BOOLEAN : Copy(c, k, to, replace)

Spec == Init /\ [][Next]_vars

-----------------------------------------------------------------------------
TypeOK ==
  /\ store \in [Slot -> [val : 0 .. MaxVal, ttl : BOOLEAN, with : SUBSET Slot]]
  /\ \A s \in Slot : Exists(store, s) => s \in store[s].with
  /\ \A s, x \in Slot : x \in store[s].with =>
       store[x].with = store[s].with /\ store[x].val = store[s].val

(* The saved lines rebuild every database that no FLUSHDB, FLUSHALL or     *)
(* COPY is half way through changing: its keys, values, expirations and,   *)
(* when nothing is half done, which keys share an entity.  The databases   *)
(* that replace flushed ones go on saving lines, COPY and FLUSHALL replay  *)
(* into the same databases.  Excluded (raced): a command that overlaps a   *)
(* flush or a copy of its database, and expirations that came from an RDB  *)
(* file, until the next restart.                                           *)
LogRebuilds ==
  /\ TypeOK
  /\ ~raced =>
       /\ \A s \in Slot :
            (\A d \in Client : s[1] \notin Half(d)) =>
               store[s].val = replay[s].val /\ store[s].ttl = replay[s].ttl
       /\ (\A d \in Client : Half(d) = {}) => store = replay
=============================================================================
