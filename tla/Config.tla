------------------------------- MODULE Config --------------------------------
(***************************************************************************)
(* Load of internal/config: the defaults, over them the settings of the    *)
(* file, over those the environment, and Validate on the result.  A layer  *)
(* is a record of the settings it names only.  The settings that decide    *)
(* how commands and keys are treated are kept; for all the others (the     *)
(* addresses, timeouts, hotness, privacy and logging settings, each        *)
(* checked by itself) `others' says whether they pass.                     *)
(***************************************************************************)
EXTENDS Integers, Sequences, Functions

CONSTANTS
  Default,              \* the configuration Default returns
  maxCachePolicies, maxCachePolicyPrefixBytes, maxCachePolicyTotalPrefixBytes,
  maxProxyCommandBytes, maxProxyCommandArgs,
  maxProxyMGetKeys

\* The settings a layer names over those below it.
Over(set, below) ==
  [name \in DOMAIN set \cup DOMAIN below |-> IF name \in DOMAIN set THEN set[name] ELSE below[name]]

\* rawCachePolicy: prefix and mode are required, the limits are zero when absent.
Complete(raw) == {"prefix", "mode"} \subseteq DOMAIN raw

CachePolicyConfig(raw) == Over(raw, [maxItemBytes |-> 0, maxLocalTTL |-> 0])

\* What the decoders deliver: numbers for the limits, policies in a list, their
\* prefixes texts.
WellFormed(set) ==
  /\ \A name \in {"maxBytes", "maxLocalTTL"} \cap DOMAIN set : set[name] \in Int
  /\ "policies" \in DOMAIN set =>
       /\ Len(set.policies) \in Nat /\ DOMAIN set.policies = 1 .. Len(set.policies)
       /\ \A i \in DOMAIN set.policies :
            "prefix" \in DOMAIN set.policies[i] => set.policies[i].prefix \in Seq(STRING)

\* parses: every text of the layer is TOML, a number, a duration or a boolean, as
\* its setting requires.
Readable(file) ==
  /\ file.parses
  /\ "policies" \in DOMAIN file.set =>
       /\ Len(file.set.policies) <= maxCachePolicies
       /\ \A i \in DOMAIN file.set.policies : Complete(file.set.policies[i])

applyRaw(cfg, set) ==
  IF "policies" \in DOMAIN set
  THEN Over([set EXCEPT !.policies = [i \in DOMAIN @ |-> CachePolicyConfig(@[i])]], cfg)
  ELSE Over(set, cfg)

applyEnv(cfg, set) == Over(set, cfg)

UpToArgs(cfg) == cfg.maxMGetKeys <= cfg.maxCommandArgs

BelowArgs(cfg) == cfg.maxMGetKeys < cfg.maxCommandArgs

\* Outside cache mode a policy has no limits; in it, limits within the global ones.
ValidPolicy(cfg, policy) ==
  \/ /\ policy.mode = "cache"
     /\ policy.maxItemBytes \in 1 .. cfg.maxBytes
     /\ policy.maxLocalTTL \in 1 .. cfg.maxLocalTTL
  \/ policy.mode \in {"deny", "observe"} /\ policy.maxItemBytes = 0 /\ policy.maxLocalTTL = 0

\* The code collects every error; any of them refuses the configuration.
Validate(cfg) ==
  /\ cfg.mode \in {"cache", "observe"}
  /\ cfg.others = "valid"
  /\ cfg.maxCommandBytes \in 1 .. maxProxyCommandBytes
  /\ cfg.maxCommandArgs \in 1 .. maxProxyCommandArgs
  /\ cfg.maxMGetKeys \in 1 .. maxProxyMGetKeys
  /\ BelowArgs(cfg)
  /\ cfg.maxBytes > 0
  /\ cfg.maxLocalTTL > 0
  /\ Len(cfg.policies) <= maxCachePolicies
  /\ \A i, j \in DOMAIN cfg.policies : cfg.policies[i].prefix = cfg.policies[j].prefix => i = j
  /\ \A i \in DOMAIN cfg.policies :
       Len(cfg.policies[i].prefix) <= maxCachePolicyPrefixBytes /\ ValidPolicy(cfg, cfg.policies[i])
  /\ SumFunction([i \in DOMAIN cfg.policies |-> Len(cfg.policies[i].prefix)]) <= maxCachePolicyTotalPrefixBytes

\* The configuration loaded from a file and an environment, none if it is refused.
Load(file, env) ==
  IF ~Readable(file) \/ ~env.parses THEN {}
  ELSE {cfg \in {applyEnv(applyRaw(Default, file.set), env.set)} : Validate(cfg)}
=============================================================================
