----------------------------- MODULE MCUpstream ------------------------------
(* Upstream for TLC: each method, batches with distinct and repeated keys. *)
EXTENDS Upstream

CONSTANTS k1, k2

TwoKeys == {k1, k2}

SomeRequests ==
  {[op |-> "GET", keys |-> <<k1>>], [op |-> "DO", keys |-> <<k1>>],
   [op |-> "MGET", keys |-> <<k1, k2>>], [op |-> "MGET", keys |-> <<k1, k1>>]}
=============================================================================
