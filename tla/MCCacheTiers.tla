---------------------------- MODULE MCCacheTiers -----------------------------
(* Small instances of CacheTiers for TLC. *)
EXTENDS CacheTiers, TLC

CONSTANTS k1, k2, r1, r2

TwoKeys == {k1, k2}
OneByteKeys == [k \in Keys |-> 1]

\* Every way to split a budget, with values that fill it; and one key whose
\* copy ages on its way through both tiers.
SmallScenarios ==
  {[keys |-> TwoKeys, values |-> {1, 600}, pttls |-> {1}, maxTime |-> 0,
    bytes |-> b, entries |-> e, maxLocalTTL |-> 2, policyTTL |-> 2,
    maxItemBytes |-> 800, window |-> 1] : b \in {1, 700, 1200}, e \in 0 .. 3}
  \cup
  {[keys |-> {k1}, values |-> {1}, pttls |-> {-1, 0, 1, 3}, maxTime |-> 3,
    bytes |-> 1200, entries |-> 0, maxLocalTTL |-> 3, policyTTL |-> 3,
    maxItemBytes |-> 600, window |-> 2]}

ReaderSymmetry == Permutations(Readers)
=============================================================================
