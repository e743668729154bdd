------------------------------ MODULE LockSpec ------------------------------
(***************************************************************************)
(* What the key locks promise their callers.  DB.RWLocks returns only when *)
(* the caller may write every key of its write set and read every key of   *)
(* its read set; until the matching RWUnLocks no other goroutine is given  *)
(* a conflicting set.  The grant is one atomic step here; KeyLocks takes   *)
(* the shard mutexes one at a time and is shown to implement this module.  *)
(***************************************************************************)
CONSTANTS Client,   \* the goroutines that execute commands
          Requests  \* the pairs <<writeKeys, readKeys>> the commands ask for

VARIABLES phase,    \* of each goroutine: "idle", "asking" or "granted"
          asked     \* the pair each goroutine asked for last

vars == <<phase, asked>>

Conflict(p, q) ==
    \/ p[1] \cap (q[1] \cup q[2]) # {}
    \/ q[1] \cap (p[1] \cup p[2]) # {}

Init == /\ phase = [c \in Client |-> "idle"]
        /\ asked = [c \in Client |-> <<{}, {}>>]

Ask(c) == /\ phase[c] = "idle"
          /\ phase' = [phase EXCEPT ![c] = "asking"]
          /\ \E p \in Requests : asked' = [asked EXCEPT ![c] = p]

Grant(c) == /\ phase[c] = "asking"
            /\ \A d \in Client \ {c} :
                  phase[d] = "granted" => ~Conflict(asked[c], asked[d])
            /\ phase' = [phase EXCEPT ![c] = "granted"]
            /\ UNCHANGED asked

Release(c) == /\ phase[c] = "granted"
              /\ phase' = [phase EXCEPT ![c] = "idle"]
              /\ UNCHANGED asked

Next == \E c \in Client : Ask(c) \/ Grant(c) \/ Release(c)

Spec == Init /\ [][Next]_vars
=============================================================================
