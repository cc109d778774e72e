----------------------------- MODULE MCFpmMaster -----------------------------
(* Small instances of FpmMaster: one child process or two, in one pool or    *)
(* in a dynamic and an ondemand pool that share process.max.                 *)
EXTENDS FpmMaster

CONSTANTS c1, c2, c3

Dynamic(n)  == [pm |-> "dynamic", max_children |-> n, start_servers |-> 1,
                min_spare |-> 1, max_spare |-> 1]
Static(n)   == [pm |-> "static", max_children |-> n, start_servers |-> 0,
                min_spare |-> 0, max_spare |-> 0]
Ondemand(n) == [Static(n) EXCEPT !.pm = "ondemand"]

DynamicOndemand == <<Dynamic(2), Ondemand(1)>>
DynamicSingle   == <<Dynamic(1)>>
StaticPool      == <<Static(1)>>
OndemandPool    == <<Ondemand(1)>>

Symmetry == Permutations({c1, c2, c3})
=============================================================================
