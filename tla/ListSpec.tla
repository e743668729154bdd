------------------------------ MODULE ListSpec ------------------------------
(***************************************************************************)
(* What the operations of a list mean, on plain sequences: the reference   *)
(* for the two implementations of list.List, QuickList and LinkedList.     *)
(* Insertion, removal and replacement at an index are those of             *)
(* SequencesExt; here are the removals by value.                           *)
(***************************************************************************)
EXTENDS Integers, FiniteSets, SequencesExt

At(s, v) == {i \in 1 .. Len(s) : s[i] = v}

FirstOf(S, n) == {i \in S : Cardinality({j \in S : j <= i}) <= n}

LastOf(S, n) == {i \in S : Cardinality({j \in S : j >= i}) <= n}

(* s without the elements at the positions of Drop.                        *)
Without(s, Drop) ==
  LET keep == SetToSortSeq({i \in 1 .. Len(s) : i \notin Drop}, <)
  IN  [k \in 1 .. Len(keep) |-> s[keep[k]]]
=============================================================================
