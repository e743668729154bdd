------------------------------- MODULE TxSpec -------------------------------
(***************************************************************************)
(* What transactions promise ("ExecMulti executes multi commands           *)
(* transaction Atomically and Isolated"): a command, or the commands of a  *)
(* transaction, take effect on the database in one step and reply what     *)
(* they find in that step; a refused command or transaction changes        *)
(* nothing.                                                                *)
(***************************************************************************)
EXTENDS Commands

CONSTANTS Client, Key,
          Cmds        \* the command lines clients send

VARIABLES db,         \* the database
          last        \* the last reply: to whom, status and values

\* The commands executed one after the other, up to the first that fails.
RunAll(d, cmds) ==
    LET Step(x, cmd) == LET r == Exec(x.db, cmd, 0)
                        IN  IF x.status # "ok" THEN x
                            ELSE [db |-> r.db, status |-> r.status, vals |-> Append(x.vals, r.val)]
    IN  FoldLeft(Step, [db |-> d, status |-> "ok", vals |-> <<>>], cmds)

Init ==
    /\ db = EmptyDB(Key)
    /\ \E c \in Client : last = [to |-> c, status |-> "err", vals |-> <<>>]

Perform(c, cmds) ==
    LET r == RunAll(db, cmds)
    IN  /\ r.status = "ok"
        /\ db' = r.db
        /\ last' = [to |-> c, status |-> "ok", vals |-> r.vals]

Refuse(c) ==
    /\ last' = [to |-> c, status |-> "err", vals |-> <<>>]
    /\ UNCHANGED db

\* A reply has one value per command.
Next ==
    \E c \in Client :
        \/ Refuse(c)
        \/ \E cmds \in [1 .. Len(last'.vals) -> Cmds] : Perform(c, cmds)

Spec == Init /\ [][Next]_<<db, last>>
=============================================================================
