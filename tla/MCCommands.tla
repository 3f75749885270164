----------------------------- MODULE MCCommands ------------------------------
EXTENDS Commands, TLC
SomeArgs == {<<>>, <<"k1">>, <<"k2">>, <<"0">>, <<"k1", "k2">>, <<"k3", "k1">>, <<"k1", "v">>,
             <<"k2", "k1", "v">>, <<"k1", "GET">>, <<"k1", "v", "GET">>, <<"k1", "v", "NX", "GET">>,
             <<"k1", "v", "EX", "GET">>, <<"k1", "v", "PX", "9", "GET">>, <<"k1", "v", "EX">>,
             <<"k1", "v", "v", "v", "v", "v">>}
\* The name and every argument take a byte and their header another.
TwoBytesEach(name, args) == 2 * (Len(args) + 1)
ThreeKeys == [k1 |-> <<"a">>, k2 |-> <<"a", "b">>, k3 |-> <<"b">>]
ShortWords == UNION {[1 .. n -> {"a", "b"}] : n \in 0 .. 3}
SmallDefault == [mode |-> "observe", maxCommandBytes |-> 14, maxCommandArgs |-> 6, maxMGetKeys |-> 2, maxBytes |-> 2,
                 maxLocalTTL |-> 2, policies |-> <<>>, others |-> "valid"]

SomePrefixes == {<<>>, <<"a">>, <<"a", "b">>, <<"b">>, <<"b", "a">>}
Rules == {[mode |-> "deny"], [mode |-> "observe"],
          [mode |-> "cache", maxItemBytes |-> 1, maxLocalTTL |-> 2],
          [mode |-> "cache", maxItemBytes |-> 2, maxLocalTTL |-> 1]}
BadRules == {[mode |-> "other"], [mode |-> "cache"], [mode |-> "deny", maxItemBytes |-> 1],
             [mode |-> "cache", maxItemBytes |-> 3, maxLocalTTL |-> 1],
             [mode |-> "cache", maxItemBytes |-> 1, maxLocalTTL |-> 3], [maxItemBytes |-> 1]}
RawPolicies == {[prefix |-> p] @@ r : p \in SomePrefixes, r \in Rules}
               \cup {[prefix |-> <<"a">>] @@ r : r \in BadRules} \cup Rules
               \cup {[prefix |-> <<"a", "b", "a">>, mode |-> "deny"]}
PolicyFiles == {[policies |-> ps] : ps \in UNION {[1 .. n -> RawPolicies] : n \in 0 .. 2}}
               \cup {[policies |-> <<p, p, p>>] : p \in RawPolicies}
OtherFiles == {<<>>} \cup {[mode |-> m] : m \in {"deny", "cache"}}
              \cup {[maxCommandArgs |-> a, maxMGetKeys |-> g] : a \in 0 .. 7, g \in 0 .. 4}
              \cup {[maxBytes |-> b, maxLocalTTL |-> t] : b \in 0 .. 2, t \in 0 .. 2}
              \cup {[maxCommandBytes |-> b] : b \in {0, 4, 15}}
              \cup {[others |-> "invalid"]}
SomeFiles == [set : PolicyFiles \cup OtherFiles, parses : {TRUE}] \cup [set : {<<>>}, parses : {FALSE}]
SomeEnvs == [set : {<<>>} \cup {[mode |-> m] : m \in {"cache", "observe", "deny"}}
                   \cup {[maxMGetKeys |-> 3, maxCommandArgs |-> a] : a \in 3 .. 4}, parses : {TRUE}]
            \cup [set : {<<>>}, parses : {FALSE}]
=============================================================================
