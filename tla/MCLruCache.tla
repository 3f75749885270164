----------------------------- MODULE MCLruCache ------------------------------
(* Small instances of LruCache for TLC. *)
EXTENDS LruCache

CONSTANTS k1, k2, k3, p1, p2

ThreeKeys == {k1, k2, k3}
OneByteKeys == [k \in Keys |-> 1]

\* One caller that meets both limits with values of every size; two callers
\* that race each other, expiry and Close, without and with stale fallback.
SmallScenarios ==
  {[keys |-> ThreeKeys, callers |-> {p1}, values |-> {1, 100, 400, 600},
    maxBytes |-> 700, maxEntries |-> 2, staleGrace |-> 0, maxTime |-> 0],
   [keys |-> {k1, k2}, callers |-> {p1, p2}, values |-> {1, 100},
    maxBytes |-> 300, maxEntries |-> 0, staleGrace |-> 0, maxTime |-> 1],
   [keys |-> {k1, k2}, callers |-> {p1, p2}, values |-> {1},
    maxBytes |-> 260, maxEntries |-> 0, staleGrace |-> 1, maxTime |-> 3]}
=============================================================================
