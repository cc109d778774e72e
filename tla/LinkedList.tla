----------------------------- MODULE LinkedList -----------------------------
(***************************************************************************)
(* Singly linked lists in an array of nodes, as the C code keeps them: f   *)
(* holds the field `next` of every node, 0 is NULL.                        *)
(***************************************************************************)

\* what is in S leads nowhere else
Closed(f, S) == \A n \in S : f[n] \in S \cup {0}

\* the nodes a walk from h along f visits: the least closed set with h
Reach(f, h) ==
    {n \in DOMAIN f : \A S \in SUBSET DOMAIN f :
                          Closed(f, S) /\ h \in S \cup {0} => n \in S}
=============================================================================
