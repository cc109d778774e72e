------------------------------ MODULE MCZendGc ------------------------------
(* Three values: one with a destructor and two properties, two with one     *)
(* property each.                                                           *)
EXTENDS ZendGc

CONSTANTS a, b, c

TwoOne == [x \in Values |-> IF x = a THEN 2 ELSE 1]

Symmetry == Permutations({b, c})
=============================================================================
