----------------------------- MODULE MCAccelHash -----------------------------
(* Small instances of AccelHash: two or three files, one more name or names  *)
(* that are files and links in turn, and every hash function.  The places of *)
(* hash_table are interchangeable, so of the hash functions that differ only *)
(* in their numbering one is enough: the key is at 0 and no number is left   *)
(* out.                                                                      *)
EXTENDS AccelHash, TLC

CONSTANTS x, y, z, k

Numbered ==
    /\ \A n \in KeyNames : hash[n] = 0
    /\ \E m \in 0..(MaxEntries - 1) : {hash[n] : n \in Names} = 0..m

MCInit     == Init /\ Numbered
MCSpec     == MCInit /\ [][Next]_vars
MCFairSpec == MCSpec /\ Fairness

Symmetry == Permutations({x, y})
=============================================================================
