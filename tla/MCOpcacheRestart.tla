-------------------------- MODULE MCOpcacheRestart --------------------------
(* Small instances of OpcacheRestart: two processes that share a script.     *)
EXTENDS OpcacheRestart, TLC

CONSTANTS p1, p2

Symmetry == Permutations({p1, p2})
=============================================================================
