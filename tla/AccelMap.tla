------------------------------ MODULE AccelMap ------------------------------
(***************************************************************************)
(* What the table of cached scripts (zend_accel_hash) promises its callers *)
(* in ext/opcache/ZendAccelerator.c: a file leads to its script, and an    *)
(* additional key leads to the script of the file it was linked to.  The   *)
(* script of a file is represented by the file.                            *)
(***************************************************************************)
CONSTANTS FileNames, KeyNames, NoName

VARIABLE map    \* what a lookup of each name returns

Names == FileNames \cup KeyNames

Init == map = [n \in Names |-> NoName]

\* a script enters the cache
Store(f) == map' = [map EXCEPT ![f] = f]

\* one more key for a script in the cache
Link(k, f) == map[f] = f /\ map' = [map EXCEPT ![k] = f]

\* a restart
Clean == map' = [n \in Names |-> NoName]

Next == \/ \E f \in FileNames : Store(f)
        \/ \E k \in KeyNames, f \in FileNames : Link(k, f)
        \/ Clean

Spec == Init /\ [][Next]_map
=============================================================================
