--------------------------- MODULE MCZendSignal ---------------------------
(* Small instance of ZendSignal: two signals, a queue of two nodes, and the *)
(* three kinds of handler a caller of zend_sigaction passes.                *)
EXTENDS ZendSignal

MCInstalls == {[flags |-> {}, handler |-> "FN"],
               [flags |-> Flags, handler |-> "FN"],
               [flags |-> {}, handler |-> "IGN"]}

\* a build that always decrements first, and one with places of either kind
DecFirst == {{"decFirst"}}
MCBuilds == {{"decFirst"}, {"decFirst", "readFirst"}}
===========================================================================
