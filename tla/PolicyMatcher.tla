---------------------------- MODULE PolicyMatcher ----------------------------
(***************************************************************************)
(* Which cache policy a key gets: newPolicyMatcher of internal/service and *)
(* the prefix matcher of internal/cachepolicy.  A key and a prefix are     *)
(* sequences of letters.                                                   *)
(***************************************************************************)
EXTENDS Integers, Sequences, FiniteSetsExt

\* An unknown word denies.
ParseMode(mode) == IF mode \in {"deny", "observe", "cache"} THEN mode ELSE "deny"

Decision(mode, items, ttl) ==
  IF mode = "cache" THEN [mode |-> mode, maxItemBytes |-> items, maxLocalTTL |-> ttl]
                    ELSE [mode |-> mode, maxItemBytes |-> 0, maxLocalTTL |-> 0]

\* In observe mode no rule caches.
RuleMode(global, mode) ==
  IF global = "observe" /\ ParseMode(mode) = "cache" THEN "observe" ELSE ParseMode(mode)

LengthsOf(policies) == {Len(policies[i].prefix) : i \in DOMAIN policies}

LengthsAscending(policies) ==
  CHOOSE lengths \in [1 .. Cardinality(LengthsOf(policies)) -> LengthsOf(policies)] :
    /\ {lengths[i] : i \in DOMAIN lengths} = LengthsOf(policies)
    /\ \A i, j \in DOMAIN lengths : i < j => lengths[i] < lengths[j]

\* Each length once, in descending order.
Lengths(policies) ==
  CHOOSE lengths \in [1 .. Cardinality(LengthsOf(policies)) -> LengthsOf(policies)] :
    /\ {lengths[i] : i \in DOMAIN lengths} = LengthsOf(policies)
    /\ \A i, j \in DOMAIN lengths : i < j => lengths[i] > lengths[j]

\* fallback, rules by prefix (the last of a repeated one), lengths in descending order
newPolicyMatcher(cfg) ==
  LET Rule(prefix) == CHOOSE i \in DOMAIN cfg.policies :
                        /\ cfg.policies[i].prefix = prefix
                        /\ \A j \in DOMAIN cfg.policies : cfg.policies[j].prefix = prefix => j <= i
      RuleDecision(p) == Decision(RuleMode(cfg.mode, p.mode), p.maxItemBytes, p.maxLocalTTL)
  IN  [fallback |-> Decision(ParseMode(cfg.mode), cfg.maxBytes, cfg.maxLocalTTL),
       rules    |-> [prefix \in {cfg.policies[i].prefix : i \in DOMAIN cfg.policies} |->
                       RuleDecision(cfg.policies[Rule(prefix)])],
       lengths  |-> Lengths(cfg.policies)]

\* The first length, from the longest, at which a rule has the key's prefix.
Match(matcher, key) ==
  LET hits == {i \in DOMAIN matcher.lengths :
                 /\ matcher.lengths[i] <= Len(key)
                 /\ SubSeq(key, 1, matcher.lengths[i]) \in DOMAIN matcher.rules}
      first == CHOOSE i \in hits : \A j \in hits : i <= j
  IN  IF hits = {} THEN matcher.fallback ELSE matcher.rules[SubSeq(key, 1, matcher.lengths[first])]
=============================================================================
