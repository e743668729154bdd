---------------------------- MODULE AofPersister ----------------------------
(***************************************************************************)
(* The append-only file (aof/aof.go, aof/rewrite.go, aof/rdb.go): commands *)
(* are executed, queued and written by one goroutine, or written by the    *)
(* goroutine that executes them when appendfsync is "always"; rewrites     *)
(* replace the file while commands go on; the process or the machine       *)
(* stops; a restart replays the file.                                      *)
(*                                                                         *)
(* A database is the list under one key, and a command pushes its own      *)
(* number, so that a lost, repeated, reordered or misplaced line shows.    *)
(* The file is a sequence of lines; a size or an offset counts lines.      *)
(***************************************************************************)
EXTENDS Integers, SequencesExt

CONSTANTS Goroutine,     \* goroutines that execute commands
          Rewriter,      \* goroutines that run Rewrite
          Database,      \* database indexes, a set of naturals with 0 among them
          Policies,      \* the settings of appendfsync: whether it is "always"
          InitialFiles,  \* the files the server may be started on
          QueueSize,     \* capacity of aofChan
          MaxCmds,       \* bound on the commands executed
          MaxCrash       \* bound on the crashes

VARIABLES fsyncAlways,      \* appendfsync is "always"; set by the configuration
          mem,         \* the databases in memory
          job,         \* per writing goroutine: what it is executing or writing
          aofChan,     \* queued payloads
          pausingAof,  \* the holder of the mutex
          buffer,      \* the lines of the current payload, for the listeners
          currentDB,   \* the database the last line of the file is for
          file,        \* the lines of the file
          synced,      \* how many of them are on disk
          ctx,         \* per rewriter: RewriteCtx
          replica,     \* the listener: the snapshot it started from, what it was sent,
                       \* and (history) whether it started in database 0 of a
                       \* file that is not empty and no rewrite came between
          emptied,     \* (history) a rewrite has started on an empty file
          issued,      \* commands executed so far
          crashes      \* crashes so far

vars == <<fsyncAlways, mem, job, aofChan, pausingAof, buffer, currentDB, file, synced, ctx, replica, emptied, issued, crashes>>

-----------------------------------------------------------------------------
Writer == "listenCmd"

Nobody == "nobody"

Empty == [i \in Database |-> <<>>]

Select(i) == <<"select", i>>

Push(n) == <<"push", n>>

\* LoadAof: the lines executed on databases d by a connection that starts at 0.
ReplayOn(d, lines) ==
    LET Step(x, l) == IF l[1] = "select" THEN [x EXCEPT !.at = l[2]]
                      ELSE [x EXCEPT !.dbs[x.at] = Append(@, l[2])]
    IN  FoldLeft(Step, [dbs |-> d, at |-> 0], lines)

Replay(lines) == ReplayOn(Empty, lines).dbs

\* Variant: the snapshot is of whatever the file holds when it is read.
LoadPrefix_All(size) == file

\* Variant: the database is selected, but not for the next payload to know.
WriteSelect_NotSelected(w) ==
    LET line == IF job[w].db = currentDB THEN <<>> ELSE <<Select(job[w].db)>>
    IN  /\ job[w].pc = "lock" /\ pausingAof = Nobody
        /\ pausingAof' = w
        /\ file' = file \o line
        /\ buffer' = buffer \o line
        /\ job' = [job EXCEPT ![w].pc = "write"]
        /\ UNCHANGED <<fsyncAlways, emptied, mem, aofChan, currentDB, synced, ctx, replica, issued, crashes>>

\* What LoadAof(maxBytes) reads; nothing bounds the reader when maxBytes is 0.
LoadPrefix(size) == IF size > 0 THEN SubSeq(file, 1, Min({size, Len(file)})) ELSE file

\* The database a loader is left at: currentDB after LoadAof.
SelectedBy(lines) == ReplayOn(Empty, lines).at

\* generateAof: every database, each under its SELECT.
Dump(dbs) ==
    FlattenSeq([n \in 1 .. Cardinality(Database) |->
      LET i == SetToSortSeq(Database, <)[n]
      IN  <<Select(i)>> \o [j \in DOMAIN dbs[i] |-> Push(dbs[i][j])]])

NoJob == [pc |-> "idle", db |-> 0, val |-> 0]

NoCtx == [pc |-> "idle", size |-> 0, db |-> 0, tmp |-> <<>>]

NoReplica == [pc |-> "off", size |-> 0, base |-> Empty, sent |-> <<>>, clean |-> FALSE]

\* NewPersister, with load: the file is replayed before the goroutines start.
Boot(lines) ==
    /\ mem' = Replay(lines)
    /\ currentDB' = SelectedBy(lines)
    /\ file' = lines /\ synced' = Len(lines)
    /\ job' = [g \in Goroutine \union {Writer} |-> NoJob]
    /\ aofChan' = <<>> /\ buffer' = <<>> /\ pausingAof' = Nobody
    /\ ctx' = [r \in Rewriter |-> NoCtx]
    /\ replica' = NoReplica
    /\ emptied' = FALSE

Init ==
    /\ fsyncAlways \in Policies
    /\ file \in InitialFiles
    /\ mem = Replay(file) /\ currentDB = SelectedBy(file) /\ synced = Len(file)
    /\ job = [g \in Goroutine \union {Writer} |-> NoJob]
    /\ aofChan = <<>> /\ buffer = <<>> /\ pausingAof = Nobody
    /\ ctx = [r \in Rewriter |-> NoCtx]
    /\ replica = NoReplica /\ emptied = FALSE
    /\ issued = 0 /\ crashes = 0

-----------------------------------------------------------------------------
\* A command changes its key, whose lock it holds until SaveCmdLine returns.
Execute(g, i) ==
    /\ job[g] = NoJob /\ issued < MaxCmds
    /\ \A h \in Goroutine : job[h].pc # "idle" => job[h].db # i
    /\ issued' = issued + 1
    /\ mem' = [mem EXCEPT ![i] = Append(@, issued + 1)]
    /\ job' = [job EXCEPT ![g] = [pc |-> "save", db |-> i, val |-> issued + 1]]
    /\ UNCHANGED <<fsyncAlways, emptied, aofChan, pausingAof, buffer, currentDB, file, synced, ctx, replica, crashes>>

\* Variant: the last place of the queue is never used.
SaveCmdLine_OneLess(g) ==
    /\ ~fsyncAlways /\ job[g].pc = "save"
    /\ Len(aofChan) < QueueSize - 1
    /\ aofChan' = Append(aofChan, job[g])
    /\ job' = [job EXCEPT ![g] = NoJob]
    /\ UNCHANGED <<fsyncAlways, emptied, mem, pausingAof, buffer, currentDB, file, synced, ctx, replica, issued, crashes>>

SaveCmdLine(g) ==
    /\ ~fsyncAlways /\ job[g].pc = "save"
    /\ Len(aofChan) < QueueSize
    /\ aofChan' = Append(aofChan, job[g])
    /\ job' = [job EXCEPT ![g] = NoJob]
    /\ UNCHANGED <<fsyncAlways, emptied, mem, pausingAof, buffer, currentDB, file, synced, ctx, replica, issued, crashes>>

\* writeAof begins: called by listenCmd on the next payload, or by SaveCmdLine.
\* The buffer is reset before the mutex is taken.
WriteBegin(w) ==
    /\ \/ /\ ~fsyncAlways /\ w = Writer /\ job[w] = NoJob /\ aofChan # <<>>
          /\ aofChan' = Tail(aofChan)
          /\ job' = [job EXCEPT ![w] = [Head(aofChan) EXCEPT !.pc = "lock"]]
       \/ /\ fsyncAlways /\ job[w].pc = "save"
          /\ job' = [job EXCEPT ![w].pc = "lock"]
          /\ UNCHANGED aofChan
    /\ buffer' = <<>>
    /\ UNCHANGED <<fsyncAlways, emptied, mem, pausingAof, currentDB, file, synced, ctx, replica, issued, crashes>>

WriteSelect(w) ==
    LET line == IF job[w].db = currentDB THEN <<>> ELSE <<Select(job[w].db)>>
    IN  /\ job[w].pc = "lock" /\ pausingAof = Nobody
        /\ pausingAof' = w
        /\ file' = file \o line
        /\ buffer' = buffer \o line
        /\ currentDB' = job[w].db
        /\ job' = [job EXCEPT ![w].pc = "write"]
        /\ UNCHANGED <<fsyncAlways, emptied, mem, aofChan, synced, ctx, replica, issued, crashes>>

WriteCmd(w) ==
    /\ job[w].pc = "write"
    /\ file' = Append(file, Push(job[w].val))
    /\ buffer' = Append(buffer, Push(job[w].val))
    /\ job' = [job EXCEPT ![w].pc = "call"]
    /\ UNCHANGED <<fsyncAlways, emptied, mem, aofChan, pausingAof, currentDB, synced, ctx, replica, issued, crashes>>

\* Variant: nothing is synced.
WriteEnd_NoSync(w) ==
    /\ job[w].pc = "call"
    /\ replica' = IF replica.pc # "off" THEN [replica EXCEPT !.sent = @ \o buffer] ELSE replica
    /\ pausingAof' = Nobody
    /\ job' = [job EXCEPT ![w] = NoJob]
    /\ UNCHANGED <<fsyncAlways, emptied, mem, aofChan, buffer, currentDB, file, synced, ctx, issued, crashes>>

WriteEnd(w) ==
    /\ job[w].pc = "call"
    /\ replica' = IF replica.pc # "off" THEN [replica EXCEPT !.sent = @ \o buffer] ELSE replica
    /\ synced' = IF fsyncAlways THEN Len(file) ELSE synced
    /\ pausingAof' = Nobody
    /\ job' = [job EXCEPT ![w] = NoJob]
    /\ UNCHANGED <<fsyncAlways, emptied, mem, aofChan, buffer, currentDB, file, ctx, issued, crashes>>

\* fsyncEverySecond.
Fsync ==
    /\ ~fsyncAlways /\ pausingAof = Nobody /\ synced # Len(file)
    /\ synced' = Len(file)
    /\ UNCHANGED <<fsyncAlways, emptied, mem, job, aofChan, pausingAof, buffer, currentDB, file, ctx, replica, issued, crashes>>

-----------------------------------------------------------------------------
\* Variant: the rewrite does not remember the database of the lines to come.
StartRewrite_NoIndex(r) ==
    /\ ctx[r].pc = "idle" /\ pausingAof = Nobody
    /\ synced' = Len(file)
    /\ emptied' = (emptied \/ file = <<>>)
    /\ ctx' = [ctx EXCEPT ![r] = [pc |-> "started", size |-> Len(file), db |-> 0, tmp |-> <<>>]]
    /\ UNCHANGED <<fsyncAlways, mem, job, aofChan, pausingAof, buffer, currentDB, file, replica, issued, crashes>>

StartRewrite(r) ==
    /\ ctx[r].pc = "idle" /\ pausingAof = Nobody
    /\ synced' = Len(file)
    /\ emptied' = (emptied \/ file = <<>>)
    /\ ctx' = [ctx EXCEPT ![r] = [pc |-> "started", size |-> Len(file), db |-> currentDB, tmp |-> <<>>]]
    /\ UNCHANGED <<fsyncAlways, mem, job, aofChan, pausingAof, buffer, currentDB, file, replica, issued, crashes>>

\* generateAof: the file is loaded into databases of its own and dumped.
DoRewrite(r) ==
    /\ ctx[r].pc = "started"
    /\ ctx' = [ctx EXCEPT ![r].pc = "dumped", ![r].tmp = Dump(Replay(LoadPrefix(ctx[r].size)))]
    /\ UNCHANGED <<fsyncAlways, emptied, mem, job, aofChan, pausingAof, buffer, currentDB, file, synced, replica, issued, crashes>>

\* FinishRewrite up to the rename; nothing has synced the new file.
FinishCopy(r) ==
    /\ ctx[r].pc = "dumped" /\ pausingAof = Nobody
    /\ pausingAof' = r
    /\ file' = ctx[r].tmp \o <<Select(ctx[r].db)>> \o SubSeq(file, ctx[r].size + 1, Len(file))
    /\ synced' = 0
    /\ ctx' = [ctx EXCEPT ![r].pc = "renamed"]
    /\ replica' = [replica EXCEPT !.clean = @ /\ replica.pc # "started"]
    /\ UNCHANGED <<fsyncAlways, emptied, mem, job, aofChan, buffer, currentDB, issued, crashes>>

\* The file is opened again and goes on in currentDB.
FinishSelect(r) ==
    /\ ctx[r].pc = "renamed"
    /\ file' = Append(file, Select(currentDB))
    /\ pausingAof' = Nobody
    /\ ctx' = [ctx EXCEPT ![r] = NoCtx]
    /\ UNCHANGED <<fsyncAlways, emptied, mem, job, aofChan, buffer, currentDB, synced, replica, issued, crashes>>

\* GenerateRDBForReplication registers the listener, then makes the snapshot of
\* the file as it was.
StartGenerateRDB ==
    /\ replica.pc = "off" /\ pausingAof = Nobody
    /\ synced' = Len(file)
    /\ replica' = [NoReplica EXCEPT !.pc = "started", !.size = Len(file), !.clean = currentDB = 0 /\ file # <<>>]
    /\ UNCHANGED <<fsyncAlways, emptied, mem, job, aofChan, pausingAof, buffer, currentDB, file, ctx, issued, crashes>>

GenerateRDB ==
    /\ replica.pc = "started"
    /\ replica' = [replica EXCEPT !.pc = "ready", !.base = Replay(LoadPrefix(replica.size))]
    /\ UNCHANGED <<fsyncAlways, emptied, mem, job, aofChan, pausingAof, buffer, currentDB, file, synced, ctx, issued, crashes>>

\* The process stops, or the machine with it: then what was not synced may be
\* lost, from some line on.  The server starts again on what is left.
Crash ==
    /\ crashes < MaxCrash
    /\ crashes' = crashes + 1
    /\ \E n \in synced .. Len(file) : Boot(SubSeq(file, 1, n))
    /\ UNCHANGED <<fsyncAlways, issued>>

Next ==
    \/ \E g \in Goroutine : SaveCmdLine(g) \/ \E i \in Database : Execute(g, i)
    \/ \E w \in Goroutine \union {Writer} :
         WriteBegin(w) \/ WriteSelect(w) \/ WriteCmd(w) \/ WriteEnd(w)
    \/ \E r \in Rewriter : StartRewrite(r) \/ DoRewrite(r) \/ FinishCopy(r) \/ FinishSelect(r)
    \/ StartGenerateRDB \/ GenerateRDB
    \/ Fsync
    \/ Crash

Spec == Init /\ [][Next]_vars

\* What a writing goroutine does next, apart from taking the mutex.
Proceed(w) == WriteBegin(w) \/ WriteCmd(w) \/ WriteEnd(w) \/ (w \in Goroutine /\ SaveCmdLine(w))

\* Goroutines are scheduled, a rewrite ends, and a mutex that is released again
\* and again is handed over to whoever waits for it.
Fairness ==
    /\ \A w \in Goroutine \union {Writer} : WF_vars(Proceed(w)) /\ SF_vars(WriteSelect(w))
    /\ \A r \in Rewriter : WF_vars(FinishSelect(r))

LiveSpec == Spec /\ Fairness

-----------------------------------------------------------------------------
TypeOK ==
    /\ \A i \in Database : mem[i] \in Seq(Nat)
    /\ \A w \in Goroutine \union {Writer} : job[w].pc \in {"idle", "save", "lock", "write", "call"}
    /\ Len(aofChan) <= QueueSize
    /\ pausingAof \in Goroutine \union Rewriter \union {Writer, Nobody}
    /\ currentDB \in Database
    /\ synced \in 0 .. Len(file)
    /\ \A r \in Rewriter : ctx[r].pc \in {"idle", "started", "dumped", "renamed"}

\* The commands of database i that have been executed and are not in the file:
\* the payload being written, the queue, those of the goroutines.
Unwritten(i) ==
    LET held(w) == IF job[w].pc \in {"save", "lock", "write"} THEN <<job[w]>> ELSE <<>>
        all == held(Writer) \o aofChan \o FlattenSeq(SetToSeq({held(g) : g \in Goroutine}))
    IN  [n \in DOMAIN SelectSeq(all, LAMBDA p : p.db = i) |-> SelectSeq(all, LAMBDA p : p.db = i)[n].val]

\* At every moment, in the middle of a rewrite too, the file followed by what is
\* on its way to it replays to the databases in memory: writeAof, StartRewrite,
\* DoRewrite and FinishRewrite lose, repeat, reorder and misplace no command.
\* It holds unless a rewrite starts on an empty file, which it reads to its end.
Recoverable == ~emptied => \A i \in Database : Replay(file)[i] \o Unwritten(i) = mem[i]

\* "it should have the same db index with persister.currentDB" (rewrite.go): the
\* next line appended to the file is for the database the file ends in.  The
\* state is well-typed.
SameIndex == TypeOK /\ (pausingAof = Nobody => SelectedBy(file) = currentDB)

\* "call fsync() after everywrite" (example.conf): with appendfsync always, a
\* command that has returned survives a stop of the machine, except between
\* FinishRewrite's rename of a file nobody has synced and the next write.
AlwaysDurable ==
    fsyncAlways /\ synced > 0 => \A i \in Database : \A n \in ToSet(mem[i]) :
      \/ \E g \in Goroutine : job[g].pc # "idle" /\ job[g].val = n
      \/ n \in ToSet(Replay(SubSeq(file, 1, synced))[i])

\* "with a listener we can forward the updates to slave nodes" (aof.go): the
\* snapshot of the replica and the lines it was sent since make the databases
\* of the file.  It holds when one goroutine writes, and for a listener that was
\* registered when the file was in database 0 (it is sent no SELECT at first)
\* and not empty (LoadAof takes a size of 0 for no limit) and whose snapshot was
\* taken of the file it was registered on.
ListenerFollows ==
    ~fsyncAlways /\ ~emptied /\ replica.pc = "ready" /\ replica.clean /\ pausingAof = Nobody =>
      ReplayOn(replica.base, replica.sent).dbs = Replay(file)

\* A command that has been executed does not wait for ever on its way to the
\* file, whatever rewrites do with pausingAof: once no more commands come (there
\* are MaxCmds of them) the way is empty.
EventuallyWritten == []<>(\A i \in Database : Unwritten(i) = <<>>)
=============================================================================
