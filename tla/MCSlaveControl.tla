--------------------------- MODULE MCSlaveControl ---------------------------
(***************************************************************************)
(* Instances of SlaveControl: two masters and up to three set-ups.          *)
(***************************************************************************)
EXTENDS SlaveControl, TLC

CONSTANTS h1, h2, p1, p2, p3

MCHosts == {h1, h2}
TwoProcs == {p1, p2}
ThreeProcs == {p1, p2, p3}

\* goroutines differ only by name
ProcSymmetry == Permutations(ThreeProcs)
=============================================================================
