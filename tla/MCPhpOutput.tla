---------------------------- MODULE MCPhpOutput ----------------------------
(* A default buffer, a user handler and a chunked one; each ability is one   *)
(* that some of them have and others lack.                                   *)
EXTENDS PhpOutput

Buffer  == [user |-> FALSE, size |-> 0, can |-> {"removable"}]
Handler == [user |-> TRUE, size |-> 0, can |-> {"flushable", "removable"}]
Chunked == [user |-> TRUE, size |-> 1, can |-> {"cleanable"}]

AllKinds == {Buffer, Handler, Chunked}
=============================================================================
