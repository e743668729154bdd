------------------------------ MODULE TccSpec ------------------------------
(*****************************************************************************)
(* What the README promises of commands over several nodes of a cluster:     *)
(* MSET, MSETNX, DEL, RENAME, RENAMENX (and MGET) are "atomically executed": *)
(* a command takes effect on all its keys in one step, and replies what it   *)
(* finds in that step, or it is refused and changes nothing.                 *)
(*****************************************************************************)
CONSTANTS Key, Absent, Client

VARIABLES plan,       \* the command of each client
          store,      \* the keys of the whole cluster
          result      \* per client: none, refused, or what its command read

\* The store after a command.
Effect(cmd, s) ==
    [k \in Key |->
       CASE cmd.op \in {"mset", "msetnx"} /\ k \in cmd.keys -> cmd.val
         [] cmd.op = "del" /\ k \in cmd.keys -> Absent
         [] cmd.op \in {"rename", "renamenx"} /\ k = cmd.dst -> s[cmd.src]
         [] cmd.op \in {"rename", "renamenx"} /\ k = cmd.src -> Absent
         [] OTHER -> s[k]]

\* What a command needs to find.
Allowed(cmd, s) ==
    /\ cmd.op \in {"rename", "renamenx"} => s[cmd.src] # Absent
    /\ cmd.op = "renamenx" => s[cmd.dst] = Absent
    /\ cmd.op = "msetnx" => \A k \in cmd.keys : s[k] = Absent

Seen(cmd, s) == IF cmd.op = "mget" THEN [k \in cmd.keys |-> s[k]] ELSE <<>>

Nothing == [status |-> "none", vals |-> <<>>]

Refused == [status |-> "refused", vals |-> <<>>]

Init ==
    /\ store \in [Key -> {0, Absent}]
    /\ result = [t \in Client |-> Nothing]

Perform(t) ==
    /\ result[t] = Nothing /\ Allowed(plan[t], store)
    /\ store' = Effect(plan[t], store)
    /\ UNCHANGED plan
    /\ result' = [result EXCEPT ![t] = [status |-> "ok", vals |-> Seen(plan[t], store)]]

Refuse(t) ==
    /\ result[t] = Nothing
    /\ result' = [result EXCEPT ![t] = Refused]
    /\ UNCHANGED <<plan, store>>

Next == \E t \in Client : Refuse(t) \/ Perform(t)

Spec == Init /\ [][Next]_<<plan, store, result>>
=============================================================================
