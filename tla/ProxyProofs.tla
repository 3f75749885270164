----------------------------- MODULE ProxyProofs -----------------------------
(***************************************************************************)
(* Proofs about internal/proxy.  First the commands: whatever a client     *)
(* sends, under every configuration that Load accepts, no copy outlives a  *)
(* write, the policy with the longest prefix decides and the widest MGET   *)
(* is served.  Then the connections, for any number of them, any limits    *)
(* and everything the environment may do: what DrainedIsQuiet,             *)
(* ActiveCountsReservations, AdmissionEnds, ListenerNotLeaked,             *)
(* ActiveIsAdmitting and ConnectionLimit say holds in every behaviour.     *)
(***************************************************************************)
EXTENDS Commands, Proxy, FiniteSetTheorems, TLAPS

-----------------------------------------------------------------------------
(* Every command that changes a key drops its copy.                        *)

LEMMA Dropped ==
  ASSUME NEW name \in Names, NEW args \in ArgLists, NEW k \in Keys,
         Route(name, args).to = "executeWrite", k \in OriginChanges(name, args)
  PROVE  k \in Route(name, args).keys
BY DEF Route, OriginChanges, Rejected, Local, PassThrough, Read, ExecuteWrite, AllKeys

LEMMA PassedThroughChangesNothing ==
  ASSUME NEW name \in Names, NEW args \in ArgLists, Route(name, args).to = "passThrough"
  PROVE  OriginChanges(name, args) = {}
BY DEF Route, OriginChanges, Rejected, Local, PassThrough, Read, ExecuteWrite, PassedThrough

\* No command that slizend accepts leaves a copy that differs from the origin:
\* handle passes nothing through that changes a key, and ExecuteWrite gets every
\* key the origin changes.
THEOREM CommandsKeepCopies == CommandsSpec => []CopiesFollowCommands
<1>1. CommandsInit => CopiesFollowCommands
  BY DEF CommandsInit, CopiesFollowCommands
<1>2. ASSUME CopiesFollowCommands, [CommandsNext]_commandVars
      PROVE  CopiesFollowCommands'
  <2>1. CASE load
    BY <1>2, <2>1 DEF load, CopiesFollowCommands
  <2>2. CASE handle
    <3>1. PICK name \in Names, args \in ArgLists :
            cached' \in Effect(name, args, Route(name, args))
      BY <2>2 DEF handle
    <3> DEFINE route == Route(name, args)
    <3>2. route.to \in {"rejected", "local", "passThrough", "read", "executeWrite"}
      BY DEF Route, Rejected, Local, PassThrough, Read, ExecuteWrite
    <3>3. CASE route.to \in {"rejected", "local"}
      BY <1>2, <3>1, <3>3 DEF Effect, CopiesFollowCommands
    <3>4. CASE route.to = "passThrough"
      BY <1>2, <3>1, <3>4, PassedThroughChangesNothing DEF Effect, Outdated, CopiesFollowCommands
    <3>5. CASE route.to = "read"
      BY <1>2, <3>1, <3>5 DEF Effect, CopiesFollowCommands
    <3>6. CASE route.to = "executeWrite"
      BY <1>2, <3>1, <3>6, Dropped DEF Effect, Outdated, WritesThrough, CopiesFollowCommands
    <3> QED
      BY <3>2, <3>3, <3>4, <3>5, <3>6
  <2>3. CASE UNCHANGED commandVars
    BY <1>2, <2>3 DEF commandVars, CopiesFollowCommands
  <2> QED
    BY <1>2, <2>1, <2>2, <2>3 DEF CommandsNext
<1> QED
  BY <1>1, <1>2, PTL DEF CommandsSpec

-----------------------------------------------------------------------------
(* The configuration a process serves with.                                *)

\* What Validate accepted, with the types the decoders gave it.
Loaded ==
  phase = "serving" =>
    /\ Validate(cfg)
    /\ cfg.maxBytes \in Int /\ cfg.maxLocalTTL \in Int
    /\ IsFiniteSet(DOMAIN cfg.policies) /\ DOMAIN cfg.policies \subseteq Nat
    /\ \A i \in DOMAIN cfg.policies : cfg.policies[i].prefix \in Seq(STRING)

LEMMA OverSetting ==
  ASSUME NEW set, NEW below, NEW name \in DOMAIN set \cup DOMAIN below
  PROVE  /\ name \in DOMAIN Over(set, below)
         /\ Over(set, below)[name] = IF name \in DOMAIN set THEN set[name] ELSE below[name]
BY DEF Over

\* The limits of the layers are numbers, and so are those of the result.
LEMMA LimitLoaded ==
  ASSUME NEW file \in Files, NEW env \in Envs, NEW name \in {"maxBytes", "maxLocalTTL"}
  PROVE  applyEnv(applyRaw(Default, file.set), env.set)[name] \in Int
<1> DEFINE set == file.set
           raw == [set EXCEPT !.policies = [i \in DOMAIN @ |-> CachePolicyConfig(@[i])]]
<1>1. name \in DOMAIN Default /\ Default[name] \in Int
  BY SettingsAssumption DEF WellFormed
<1>2. /\ name \in DOMAIN set => set[name] \in Int
      /\ name \in DOMAIN env.set => env.set[name] \in Int
  BY SettingsAssumption DEF WellFormed
<1>3. DOMAIN raw = DOMAIN set /\ (name \in DOMAIN set => raw[name] = set[name])
  OBVIOUS
<1>4. /\ name \in DOMAIN applyRaw(Default, set)
      /\ applyRaw(Default, set)[name] \in Int
  <2>1. CASE "policies" \in DOMAIN set
    <3>1. applyRaw(Default, set) = Over(raw, Default)
      BY <2>1 DEF applyRaw
    <3> HIDE DEF raw, set
    <3> QED
      BY <1>1, <1>2, <1>3, <3>1, OverSetting
  <2>2. CASE "policies" \notin DOMAIN set
    <3>1. applyRaw(Default, set) = Over(set, Default)
      BY <2>2 DEF applyRaw
    <3> QED
      BY <1>1, <1>2, <3>1, OverSetting
  <2> QED
    BY <2>1, <2>2
<1> QED
  BY <1>2, <1>4, OverSetting DEF applyEnv

\* The policies are those of the file, each with its prefix, or the default ones.
LEMMA PoliciesLoaded ==
  ASSUME NEW file \in Files, NEW env \in Envs, Readable(file),
         NEW policies, policies = applyEnv(applyRaw(Default, file.set), env.set).policies
  PROVE  /\ IsFiniteSet(DOMAIN policies) /\ DOMAIN policies \subseteq Nat
         /\ \A i \in DOMAIN policies : policies[i].prefix \in Seq(STRING)
<1> DEFINE set == file.set
           raw == [set EXCEPT !.policies = [i \in DOMAIN @ |-> CachePolicyConfig(@[i])]]
<1>1. "policies" \in DOMAIN Default /\ "policies" \notin DOMAIN env.set
  BY SettingsAssumption
<1>2. CASE "policies" \in DOMAIN set
  <2>1. applyRaw(Default, set) = Over(raw, Default)
    BY <1>2 DEF applyRaw
  <2>2. /\ "policies" \in DOMAIN raw
        /\ raw.policies = [i \in DOMAIN set.policies |-> CachePolicyConfig(set.policies[i])]
    BY <1>2
  <2>3. WellFormed(set)
    BY SettingsAssumption
  <2>4. \A i \in DOMAIN set.policies : Complete(set.policies[i])
    BY <1>2 DEF Readable
  <2> HIDE DEF raw
  <2>5. policies = raw.policies
    <3>1. "policies" \in DOMAIN Over(raw, Default) /\ Over(raw, Default).policies = raw.policies
      BY <2>2, OverSetting
    <3> QED
      BY <1>1, <2>1, <3>1, OverSetting DEF applyEnv
  <2>6. Len(set.policies) \in Nat /\ DOMAIN policies = 1 .. Len(set.policies)
    BY <1>2, <2>2, <2>3, <2>5 DEF WellFormed
  <2>7. IsFiniteSet(DOMAIN policies) /\ DOMAIN policies \subseteq Nat
    BY <2>6, FS_Interval
  <2>8. ASSUME NEW i \in DOMAIN policies
        PROVE  policies[i].prefix \in Seq(STRING)
    <3>1. i \in DOMAIN set.policies /\ policies[i] = CachePolicyConfig(set.policies[i])
      BY <2>2, <2>5, <2>8
    <3>2. "prefix" \in DOMAIN set.policies[i]
      BY <2>4, <3>1 DEF Complete
    <3>3. policies[i].prefix = set.policies[i].prefix
      BY <3>1, <3>2, OverSetting DEF CachePolicyConfig
    <3> QED
      BY <1>2, <2>3, <3>1, <3>2, <3>3 DEF WellFormed
  <2> QED
    BY <2>7, <2>8
<1>3. CASE "policies" \notin DOMAIN set
  <2>1. applyRaw(Default, set) = Over(set, Default)
    BY <1>3 DEF applyRaw
  <2>2. policies = Default.policies
    <3>1. "policies" \in DOMAIN Over(set, Default) /\ Over(set, Default).policies = Default.policies
      BY <1>1, <1>3, OverSetting
    <3> QED
      BY <1>1, <2>1, <3>1, OverSetting DEF applyEnv
  <2>3. Len(policies) \in Nat /\ DOMAIN policies = 1 .. Len(policies)
    BY <1>1, <2>2, SettingsAssumption DEF WellFormed
  <2>4. IsFiniteSet(DOMAIN policies) /\ DOMAIN policies \subseteq Nat
    BY <2>3, FS_Interval
  <2>5. \A i \in DOMAIN policies : policies[i].prefix \in Seq(STRING)
    BY <1>1, <2>2, SettingsAssumption DEF WellFormed, Complete
  <2> QED
    BY <2>4, <2>5
<1> QED
  BY <1>2, <1>3

\* A process that serves has loaded a configuration that Validate accepted.
LEMMA AlwaysLoaded == CommandsSpec => []Loaded
<1>1. CommandsInit => Loaded
  BY DEF CommandsInit, Loaded
<1>2. ASSUME Loaded, [CommandsNext]_commandVars
      PROVE  Loaded'
  <2>1. CASE load
    <3>1. SUFFICES ASSUME phase' = "serving"
                   PROVE  Loaded'
      BY DEF Loaded
    <3>2. PICK file \in Files, env \in Envs : cfg' \in Load(file, env)
      BY <2>1, <3>1 DEF load
    <3>3. /\ cfg' = applyEnv(applyRaw(Default, file.set), env.set)
          /\ Validate(cfg') /\ Readable(file)
      BY <3>2 DEF Load
    <3>4. cfg'.maxBytes \in Int /\ cfg'.maxLocalTTL \in Int
      BY <3>3, LimitLoaded
    <3>5. /\ IsFiniteSet(DOMAIN cfg'.policies) /\ DOMAIN cfg'.policies \subseteq Nat
          /\ \A i \in DOMAIN cfg'.policies : cfg'.policies[i].prefix \in Seq(STRING)
      BY <3>3, PoliciesLoaded, Zenon
    <3> QED
      BY <3>3, <3>4, <3>5 DEF Loaded
  <2>2. CASE handle \/ UNCHANGED commandVars
    BY <1>2, <2>2 DEF handle, commandVars, Loaded
  <2> QED
    BY <1>2, <2>1, <2>2 DEF CommandsNext
<1> QED
  BY <1>1, <1>2, PTL DEF CommandsSpec

\* A client that keeps to the limits of keys and of bytes is served: Validate accepts
\* no maxMGetKeys for which the name of the command would exceed maxCommandArgs.
THEOREM WidestMGetIsServed == CommandsSpec => []WidestMGetServed
<1>1. ASSUME Loaded
      PROVE  WidestMGetServed
  <2>1. SUFFICES ASSUME phase = "serving",
                        NEW args \in ArgLists, Len(args) \in 1 .. cfg.maxMGetKeys,
                        RawBytes("MGET", args) <= cfg.maxCommandBytes
                 PROVE  Route("MGET", args).to = "read"
    BY DEF WidestMGetServed
  <2>2. /\ cfg.maxMGetKeys \in Nat /\ cfg.maxMGetKeys >= 1
        /\ cfg.maxCommandArgs \in Nat /\ cfg.maxMGetKeys < cfg.maxCommandArgs
    <3>1. /\ cfg.maxCommandArgs \in 1 .. maxProxyCommandArgs
          /\ cfg.maxMGetKeys \in 1 .. maxProxyMGetKeys
          /\ BelowArgs(cfg)
      BY <1>1, <2>1, Zenon DEF Loaded, Validate
    <3> QED
      BY <3>1 DEF BelowArgs
  <2>3. Len(args) \in Nat /\ Len(args) >= 1 /\ Len(args) <= cfg.maxMGetKeys
    BY <2>1, <2>2
  <2>4. ~commandLimitError("MGET", args)
    <3>1. RawBytes("MGET", args) \in Nat /\ cfg.maxCommandBytes \in Int
      <4>1. cfg.maxCommandBytes \in 1 .. maxProxyCommandBytes
        BY <1>1, <2>1, Zenon DEF Loaded, Validate
      <4>2. "MGET" \in Names
        BY DEF Names, ClassRead
      <4> QED
        BY <4>1, <4>2, RawBytesAssumption
    <3>2. ~commandBytesExceed("MGET", args, cfg.maxCommandBytes)
      BY <2>1, <3>1 DEF commandBytesExceed
    <3> QED
      BY <2>2, <2>3, <3>2 DEF commandLimitError
  <2>5. Arity("MGET", Len(args))
    BY <2>3, Zenon DEF Arity
  <2>6. ~isUnsafeClass("MGET") /\ ~isRejectedMutationClass("MGET")
    BY DEF isUnsafeClass, isRejectedMutationClass, ClassRejectedStateful, ClassRejectedBlocking,
           ClassRejectedMutation
  <2>7. Route("MGET", args) = Read(Range(args))
    BY <2>4, <2>5, <2>6, Zenon DEF Route, PassedThrough
  <2> QED
    BY <2>7 DEF Read
<1> QED
  BY <1>1, AlwaysLoaded, PTL

-----------------------------------------------------------------------------
(* The policy of a key.                                                    *)

\* A nonempty set of naturals has a least element.
LEMMA LeastNatural ==
  ASSUME NEW S, S \subseteq Nat, S # {}
  PROVE  \E x \in S : \A y \in S : x <= y
<1> DEFINE R == {p \in Nat \X Nat : p[1] < p[2]}
<1>1. IsWellFoundedOn(R, Nat)
  BY NatLessThanWellFounded, Zenon DEF OpToRel
<1>2. PICK x \in S : \A y \in S : <<y, x>> \notin R
  <2> HIDE DEF R
  <2> QED  BY <1>1, WFMin, Zenon
<1>3. ASSUME NEW y \in S  PROVE x <= y
  <2>1. x \in Nat /\ y \in Nat
    OBVIOUS
  <2>2. <<y, x>> \in Nat \X Nat /\ <<y, x>>[1] = y /\ <<y, x>>[2] = x
    BY <2>1
  <2>3. ~(y < x)
    BY <1>2, <2>2, Zenon
  <2> QED  BY <2>1, <2>3
<1> QED  BY <1>3

\* s lists the elements of S from the largest to the smallest.
Lists(s, S) ==
  /\ s \in [1 .. Cardinality(S) -> S]
  /\ {s[i] : i \in DOMAIN s} = S
  /\ \A i, j \in DOMAIN s : i < j => s[i] > s[j]

\* A finite set of naturals can be listed so: by induction on its cardinality.
LEMMA ListExists ==
  ASSUME NEW S, S \subseteq Nat, IsFiniteSet(S)
  PROVE  \E s : Lists(s, S)
<1> DEFINE Finite(n) == {T \in SUBSET Nat : IsFiniteSet(T) /\ Cardinality(T) = n}
           Bad == {n \in Nat : \E T \in Finite(n) : \A s : ~Lists(s, T)}
<1>1. SUFFICES ASSUME Bad # {}
               PROVE  FALSE
  <2>1. Cardinality(S) \in Nat /\ S \in Finite(Cardinality(S))
    BY FS_CardinalityType
  <2> QED  BY <2>1
<1>2. PICK n \in Bad : \A m \in Bad : n <= m
  BY <1>1, LeastNatural, Zenon
<1>3. PICK T \in Finite(n) : \A s : ~Lists(s, T)
  BY <1>2
<1>4. n \in Nat /\ T \subseteq Nat /\ IsFiniteSet(T) /\ Cardinality(T) = n
  BY <1>2, <1>3
<1>5. CASE T = {}
  <2>1. n = 0
    BY <1>4, <1>5, FS_EmptySet
  <2>2. Lists([i \in 1 .. 0 |-> 0], T)
    BY <1>4, <1>5, <2>1 DEF Lists
  <2> QED  BY <1>3, <2>2
<1>6. CASE T # {}
  <2>1. PICK x \in T : \A y \in T : x <= y
    BY <1>4, <1>6, LeastNatural, Zenon
  <2>2. IsFiniteSet(T \ {x}) /\ Cardinality(T \ {x}) = n - 1 /\ n - 1 \in Nat
    <3>1. IsFiniteSet(T \ {x}) /\ Cardinality(T \ {x}) = n - 1
      BY <1>4, <2>1, FS_RemoveElement
    <3> QED  BY <3>1, FS_CardinalityType
  <2>3. n - 1 \notin Bad
    BY <1>2, <1>4, <2>2
  <2>4. PICK t : Lists(t, T \ {x})
    <3>1. T \ {x} \in Finite(n - 1)
      BY <1>4, <2>2
    <3> QED  BY <2>2, <2>3, <3>1
  <2>5. /\ t \in [1 .. n - 1 -> T \ {x}]
        /\ {t[i] : i \in DOMAIN t} = T \ {x}
        /\ \A i, j \in DOMAIN t : i < j => t[i] > t[j]
    BY <2>2, <2>4, Zenon DEF Lists
  <2> DEFINE s == [i \in 1 .. n |-> IF i = n THEN x ELSE t[i]]
  <2>6. s \in [1 .. n -> T]
    BY <1>4, <2>1, <2>2, <2>5
  <2>7. T \subseteq {s[i] : i \in DOMAIN s}
    <3>1. n \in DOMAIN s /\ s[n] = x
      BY <2>2
    <3>2. ASSUME NEW y \in T \ {x}  PROVE \E i \in DOMAIN s : s[i] = y
      <4>1. PICK i \in DOMAIN t : t[i] = y
        BY <2>5
      <4>2. i \in 1 .. n - 1 /\ i # n /\ i \in 1 .. n
        BY <2>2, <2>5, <4>1
      <4> QED  BY <4>1, <4>2
    <3> QED  BY <3>1, <3>2
  <2>8. ASSUME NEW i \in DOMAIN s, NEW j \in DOMAIN s, i < j
        PROVE  s[i] > s[j]
    <3>1. i \in 1 .. n - 1 /\ j \in 1 .. n /\ i # n
      BY <1>4, <2>2, <2>8
    <3>2. s[i] = t[i] /\ t[i] \in T \ {x}
      BY <1>4, <2>5, <3>1
    <3>3. CASE j = n
      <4>1. s[j] = x
        BY <3>1, <3>3
      <4>2. x \in Nat /\ t[i] \in Nat /\ x <= t[i] /\ x # t[i]
        BY <1>4, <2>1, <3>2, Zenon
      <4>3. t[i] > x
        BY <4>2
      <4> QED  BY <3>2, <4>1, <4>3
    <3>4. CASE j # n
      <4>1. j \in 1 .. n - 1 /\ s[j] = t[j]
        BY <1>4, <2>2, <3>1, <3>4
      <4> QED  BY <2>5, <2>8, <3>1, <3>2, <4>1
    <3> QED  BY <3>3, <3>4
  <2>9. {s[i] : i \in DOMAIN s} = T
    BY <2>6, <2>7, Zenon
  <2>10. Lists(s, T)
    <3> HIDE DEF s
    <3>1. DOMAIN s = 1 .. n
      BY <2>6
    <3> QED  BY <1>4, <2>6, <2>8, <2>9, Zenon DEF Lists
  <2> QED  BY <1>3, <2>10
<1> QED  BY <1>5, <1>6

\* The lengths of the matcher of a loaded configuration.
LEMMA LengthsSorted ==
  ASSUME NEW policies, IsFiniteSet(DOMAIN policies),
         \A i \in DOMAIN policies : policies[i].prefix \in Seq(STRING)
  PROVE  Lists(Lengths(policies), LengthsOf(policies)) /\ LengthsOf(policies) \subseteq Nat
<1>1. LengthsOf(policies) \subseteq Nat
  BY DEF LengthsOf
<1>2. IsFiniteSet(LengthsOf(policies))
  <2> DEFINE f == [i \in DOMAIN policies |-> Len(policies[i].prefix)]
  <2>1. f \in Surjection(DOMAIN policies, LengthsOf(policies))
    BY DEF Surjection, LengthsOf
  <2> QED  BY <2>1, FS_Surjection
<1>3. \E s : Lists(s, LengthsOf(policies))
  BY <1>1, <1>2, ListExists
<1> QED
  BY <1>1, <1>3, Zenon DEF Lists, Lengths

\* The policies whose prefix a word has, and those of them with the longest one.
Fits(word) == {i \in DOMAIN cfg.policies : HasPrefix(word, cfg.policies[i].prefix)}

Longest(word, i) ==
  i \in Fits(word) /\ \A j \in Fits(word) : Len(cfg.policies[j].prefix) <= Len(cfg.policies[i].prefix)

Hits(m, word) == {i \in DOMAIN m.lengths : /\ m.lengths[i] <= Len(word)
                                            /\ SubSeq(word, 1, m.lengths[i]) \in DOMAIN m.rules}

LEMMA MatcherFields ==
  ASSUME NEW m, m = newPolicyMatcher(cfg)
  PROVE  /\ m.lengths = Lengths(cfg.policies)
         /\ DOMAIN m.rules = {cfg.policies[i].prefix : i \in DOMAIN cfg.policies}
         /\ m.fallback = Decision(ParseMode(cfg.mode), cfg.maxBytes, cfg.maxLocalTTL)
BY Zenon DEF newPolicyMatcher

\* The rule of the only policy with a prefix.
LEMMA RuleOf ==
  ASSUME NEW m, m = newPolicyMatcher(cfg), NEW i \in DOMAIN cfg.policies,
         DOMAIN cfg.policies \subseteq Nat,
         \A j \in DOMAIN cfg.policies : cfg.policies[i].prefix = cfg.policies[j].prefix => i = j
  PROVE  m.rules[cfg.policies[i].prefix]
           = Decision(RuleMode(cfg.mode, cfg.policies[i].mode), cfg.policies[i].maxItemBytes,
                      cfg.policies[i].maxLocalTTL)
<1> DEFINE P(j) == /\ cfg.policies[j].prefix = cfg.policies[i].prefix
                   /\ \A l \in DOMAIN cfg.policies : cfg.policies[l].prefix = cfg.policies[i].prefix => l <= j
<1>1. P(i)
  OBVIOUS
<1>2. (CHOOSE j \in DOMAIN cfg.policies : P(j)) = i
  <2> HIDE DEF P
  <2>1. \A j \in DOMAIN cfg.policies : P(j) => j = i
    BY DEF P
  <2> QED  BY <1>1, <2>1
<1> QED
  BY <1>2, Zenon DEF newPolicyMatcher

\* A hit of the matcher is a policy that fits, and the other way round.
LEMMA HitFits ==
  ASSUME NEW m, m = newPolicyMatcher(cfg), NEW word \in Seq(STRING),
         IsFiniteSet(DOMAIN cfg.policies),
         \A i \in DOMAIN cfg.policies : cfg.policies[i].prefix \in Seq(STRING)
  PROVE  /\ \A h \in Hits(m, word) : \E i \in Fits(word) :
              /\ cfg.policies[i].prefix = SubSeq(word, 1, m.lengths[h])
              /\ Len(cfg.policies[i].prefix) = m.lengths[h]
         /\ \A i \in Fits(word) : \E h \in Hits(m, word) :
              Len(cfg.policies[i].prefix) = m.lengths[h]
<1>1. /\ m.lengths = Lengths(cfg.policies)
      /\ DOMAIN m.rules = {cfg.policies[i].prefix : i \in DOMAIN cfg.policies}
  BY MatcherFields
<1>2. /\ m.lengths \in [1 .. Cardinality(LengthsOf(cfg.policies)) -> LengthsOf(cfg.policies)]
      /\ {m.lengths[h] : h \in DOMAIN m.lengths} = LengthsOf(cfg.policies)
      /\ LengthsOf(cfg.policies) \subseteq Nat
  BY <1>1, LengthsSorted DEF Lists
<1>3. ASSUME NEW h \in Hits(m, word)
      PROVE  \E i \in Fits(word) : /\ cfg.policies[i].prefix = SubSeq(word, 1, m.lengths[h])
                                   /\ Len(cfg.policies[i].prefix) = m.lengths[h]
  <2>1. /\ m.lengths[h] \in Nat /\ m.lengths[h] <= Len(word)
        /\ SubSeq(word, 1, m.lengths[h]) \in DOMAIN m.rules
    BY <1>2 DEF Hits
  <2>2. PICK i \in DOMAIN cfg.policies : cfg.policies[i].prefix = SubSeq(word, 1, m.lengths[h])
    BY <1>1, <2>1
  <2>3. Len(cfg.policies[i].prefix) = m.lengths[h]
    BY <2>1, <2>2
  <2>4. i \in Fits(word)
    BY <2>1, <2>2, <2>3 DEF Fits, HasPrefix
  <2> QED  BY <2>2, <2>3, <2>4, Zenon
<1>4. ASSUME NEW i \in Fits(word)
      PROVE  \E h \in Hits(m, word) : Len(cfg.policies[i].prefix) = m.lengths[h]
  <2>1. /\ i \in DOMAIN cfg.policies
        /\ Len(cfg.policies[i].prefix) <= Len(word)
        /\ cfg.policies[i].prefix = SubSeq(word, 1, Len(cfg.policies[i].prefix))
    BY DEF Fits, HasPrefix
  <2>2. Len(cfg.policies[i].prefix) \in LengthsOf(cfg.policies)
    BY <2>1 DEF LengthsOf
  <2>3. PICK h \in DOMAIN m.lengths : m.lengths[h] = Len(cfg.policies[i].prefix)
    BY <1>2, <2>2
  <2>4. cfg.policies[i].prefix \in DOMAIN m.rules
    BY <1>1, <2>1
  <2>5. h \in Hits(m, word)
    BY <2>1, <2>3, <2>4, Zenon DEF Hits
  <2> QED  BY <2>3, <2>5
<1> QED
  BY <1>3, <1>4

\* The first hit is a policy with the longest prefix.
LEMMA FirstHit ==
  ASSUME NEW m, m = newPolicyMatcher(cfg), NEW word \in Seq(STRING),
         IsFiniteSet(DOMAIN cfg.policies),
         \A i \in DOMAIN cfg.policies : cfg.policies[i].prefix \in Seq(STRING),
         Hits(m, word) # {}
  PROVE  \E i : Longest(word, i) /\ Match(m, word) = m.rules[cfg.policies[i].prefix]
<1>1. /\ m.lengths \in [1 .. Cardinality(LengthsOf(cfg.policies)) -> LengthsOf(cfg.policies)]
      /\ LengthsOf(cfg.policies) \subseteq Nat
      /\ \A i, j \in DOMAIN m.lengths : i < j => m.lengths[i] > m.lengths[j]
  BY MatcherFields, LengthsSorted, Zenon DEF Lists
<1>2. Hits(m, word) \subseteq Nat
  <2>1. DOMAIN m.lengths = 1 .. Cardinality(LengthsOf(cfg.policies))
    BY <1>1, Zenon
  <2>2. Hits(m, word) \subseteq DOMAIN m.lengths
    BY DEF Hits
  <2>3. \A n : 1 .. n \subseteq Nat
    OBVIOUS
  <2> QED  BY <2>1, <2>2, <2>3, Zenon
<1> DEFINE first == CHOOSE i \in Hits(m, word) : \A j \in Hits(m, word) : i <= j
<1>3. first \in Hits(m, word) /\ \A j \in Hits(m, word) : first <= j
  BY <1>2, LeastNatural
<1>4. Match(m, word) = m.rules[SubSeq(word, 1, m.lengths[first])]
  BY Zenon DEF Match, Hits
<1> HIDE DEF first
<1>5. PICK i \in Fits(word) : /\ cfg.policies[i].prefix = SubSeq(word, 1, m.lengths[first])
                              /\ Len(cfg.policies[i].prefix) = m.lengths[first]
  BY <1>3, HitFits
<1>6. ASSUME NEW j \in Fits(word)
      PROVE  Len(cfg.policies[j].prefix) <= Len(cfg.policies[i].prefix)
  <2>1. PICK h \in Hits(m, word) : Len(cfg.policies[j].prefix) = m.lengths[h]
    BY HitFits
  <2>2. /\ first \in Nat /\ h \in Nat /\ first <= h
        /\ first \in DOMAIN m.lengths /\ h \in DOMAIN m.lengths
        /\ m.lengths[first] \in Nat /\ m.lengths[h] \in Nat
    BY <1>1, <1>2, <1>3, <2>1, Zenon DEF Hits
  <2>3. m.lengths[h] <= m.lengths[first]
    <3>1. CASE h = first
      BY <2>2, <3>1
    <3>2. CASE h # first
      <4>1. first < h
        BY <2>2, <3>2
      <4> QED  BY <1>1, <2>2, <4>1
    <3> QED  BY <3>1, <3>2
  <2> QED  BY <1>5, <2>1, <2>3, Zenon
<1> QED
  BY <1>4, <1>5, <1>6, Zenon DEF Longest

\* The rule that decides on a word, as the property defines it.
Decisive(word) ==
  LET best == CHOOSE i \in Fits(word) : \A j \in Fits(word) :
                Len(cfg.policies[j].prefix) <= Len(cfg.policies[i].prefix)
  IN  IF Fits(word) = {} THEN cfg ELSE cfg.policies[best]

\* What LongestPrefixDecides says of one word.
Decided(word) ==
  LET got == Match(matcher, word) IN
  /\ got.mode = IF cfg.mode = "observe" /\ Decisive(word).mode = "cache" THEN "observe"
                ELSE Decisive(word).mode
  /\ got.mode = "cache" /\ Fits(word) # {} =>
       /\ got.maxItemBytes = Decisive(word).maxItemBytes
       /\ got.maxLocalTTL = Decisive(word).maxLocalTTL
  /\ got.mode = "cache" =>
       got.maxItemBytes \in 1 .. cfg.maxBytes /\ got.maxLocalTTL \in 1 .. cfg.maxLocalTTL

LEMMA Accepted ==
  ASSUME Loaded, phase = "serving"
  PROVE  /\ cfg.mode \in {"cache", "observe"}
         /\ cfg.maxBytes \in Int /\ cfg.maxLocalTTL \in Int
         /\ cfg.maxBytes > 0 /\ cfg.maxLocalTTL > 0
         /\ IsFiniteSet(DOMAIN cfg.policies) /\ DOMAIN cfg.policies \subseteq Nat
         /\ \A i \in DOMAIN cfg.policies : /\ cfg.policies[i].prefix \in Seq(STRING)
                                           /\ ValidPolicy(cfg, cfg.policies[i])
         /\ \A i, j \in DOMAIN cfg.policies : cfg.policies[i].prefix = cfg.policies[j].prefix => i = j
BY Zenon DEF Loaded, Validate

LEMMA GlobalDecides ==
  ASSUME Loaded, phase = "serving", NEW word \in Seq(STRING), Fits(word) = {}
  PROVE  Decided(word)
<1>1. Hits(matcher, word) = {}
  BY Accepted, HitFits, Zenon DEF matcher
<1>2. Match(matcher, word) = Decision(ParseMode(cfg.mode), cfg.maxBytes, cfg.maxLocalTTL)
  <2>1. Match(matcher, word) = matcher.fallback
    BY <1>1, Zenon DEF Match, Hits
  <2> QED  BY <2>1, MatcherFields DEF matcher
<1>3. Decisive(word) = cfg
  BY DEF Decisive
<1>4. ParseMode(cfg.mode) = cfg.mode
  BY Accepted DEF ParseMode
<1>5. /\ Match(matcher, word).mode = cfg.mode
      /\ cfg.mode = "cache" => /\ Match(matcher, word).maxItemBytes = cfg.maxBytes
                               /\ Match(matcher, word).maxLocalTTL = cfg.maxLocalTTL
  BY <1>2, <1>4 DEF Decision
<1>6. cfg.maxBytes \in 1 .. cfg.maxBytes /\ cfg.maxLocalTTL \in 1 .. cfg.maxLocalTTL
  BY Accepted
<1> QED
  BY <1>3, <1>5, <1>6, Zenon DEF Decided

LEMMA PolicyDecides ==
  ASSUME Loaded, phase = "serving", NEW word \in Seq(STRING), Fits(word) # {}
  PROVE  Decided(word)
<1>1. Hits(matcher, word) # {}
  BY Accepted, HitFits, Zenon DEF matcher
<1>2. PICK i : Longest(word, i) /\ Match(matcher, word) = matcher.rules[cfg.policies[i].prefix]
  BY <1>1, Accepted, FirstHit, Zenon DEF matcher
<1>3. i \in Fits(word) /\ i \in DOMAIN cfg.policies
  BY <1>2, Zenon DEF Longest, Fits
<1>4. ASSUME NEW b, Longest(word, b)
      PROVE  b = i
  <2>1. b \in Fits(word) /\ b \in DOMAIN cfg.policies
    BY <1>4 DEF Longest, Fits
  <2>2. cfg.policies[b].prefix \in Seq(STRING) /\ cfg.policies[i].prefix \in Seq(STRING)
    BY <1>3, <2>1, Accepted, Zenon
  <2>3. Len(cfg.policies[b].prefix) = Len(cfg.policies[i].prefix)
    <3>1. /\ Len(cfg.policies[b].prefix) <= Len(cfg.policies[i].prefix)
          /\ Len(cfg.policies[i].prefix) <= Len(cfg.policies[b].prefix)
      BY <1>2, <1>3, <1>4, <2>1, Zenon DEF Longest
    <3> QED  BY <2>2, <3>1
  <2>4. cfg.policies[b].prefix = cfg.policies[i].prefix
    <3>1. /\ cfg.policies[b].prefix = SubSeq(word, 1, Len(cfg.policies[b].prefix))
          /\ cfg.policies[i].prefix = SubSeq(word, 1, Len(cfg.policies[i].prefix))
      BY <1>3, <2>1, <2>2, Zenon DEF Fits, HasPrefix
    <3> QED  BY <2>3, <3>1, Zenon
  <2> QED  BY <1>3, <2>1, <2>4, Accepted, Zenon
<1>5. Decisive(word) = cfg.policies[i]
  BY <1>2, <1>4, Zenon DEF Decisive, Longest
<1>6. matcher.rules[cfg.policies[i].prefix]
        = Decision(RuleMode(cfg.mode, cfg.policies[i].mode), cfg.policies[i].maxItemBytes,
                   cfg.policies[i].maxLocalTTL)
  BY <1>3, Accepted, RuleOf, Zenon DEF matcher
<1>7. ValidPolicy(cfg, cfg.policies[i])
  BY <1>3, Accepted
<1> DEFINE policy == cfg.policies[i]
<1>8. policy.mode \in {"deny", "observe", "cache"}
  BY <1>7 DEF ValidPolicy
<1>9. RuleMode(cfg.mode, policy.mode)
        = IF cfg.mode = "observe" /\ policy.mode = "cache" THEN "observe" ELSE policy.mode
  BY <1>8 DEF RuleMode, ParseMode
<1>10. policy.mode = "cache" =>
         policy.maxItemBytes \in 1 .. cfg.maxBytes /\ policy.maxLocalTTL \in 1 .. cfg.maxLocalTTL
  BY <1>7 DEF ValidPolicy
<1> HIDE DEF policy
<1>11. Match(matcher, word)
         = Decision(RuleMode(cfg.mode, policy.mode), policy.maxItemBytes, policy.maxLocalTTL)
  BY <1>2, <1>6, Zenon DEF policy
<1>12. Decisive(word) = policy
  BY <1>5 DEF policy
<1> QED
  BY <1>8, <1>9, <1>10, <1>11, <1>12 DEF Decided, Decision

\* The policy with the longest prefix decides on a key, with its own limits, and
\* the global mode and limits where no policy fits: the matcher tries the lengths
\* from the longest and takes the rule of the first prefix it finds.
THEOREM LongestPrefixAlwaysDecides == CommandsSpec => []LongestPrefixDecides
<1>1. ASSUME Loaded
      PROVE  LongestPrefixDecides
  <2>1. ASSUME phase = "serving", NEW word \in Words
        PROVE  Decided(word)
    <3>1. word \in Seq(STRING)
      BY SettingsAssumption
    <3> QED
      BY <1>1, <2>1, <3>1, GlobalDecides, PolicyDecides
  <2> QED
    BY <2>1, Zenon DEF LongestPrefixDecides, Decided, Decisive, Fits
<1> QED
  BY <1>1, AlwaysLoaded, PTL

-----------------------------------------------------------------------------
(* The connections and the drain.                                          *)

USE Zenon

\* What the connections and the drain tracker keep: a goroutine that has not
\* left is a tracked connection, drained is closed only with admission stopped
\* and no connection left, a stopped pipeline reserves nothing, and a handler
\* that closes its connection saw the drain.
ConnInv ==
  /\ draining \in BOOLEAN /\ drained \in BOOLEAN /\ panicked \in BOOLEAN
  /\ conns \subseteq Conns
  /\ cpc \in [Conns -> ConnPC]
  /\ stopped \in [Conns -> BOOLEAN]
  /\ \A c \in Conns : cpc[c] \notin {"out", "gone"} => c \in conns
  /\ drained => draining /\ conns = {}
  /\ \A c \in Conns : stopped[c] => cpc[c] \notin {"reserve", "recheck"}
  /\ \A c \in Conns : cpc[c] \in {"shut", "complete"} => draining

Holders == {c \in Conns : cpc[c] \in Reserved}

\* What a step of Start, Close, redcon or the environment leaves to the
\* connections: it may stop admission, and nothing else.
Steady ==
  /\ UNCHANGED <<cpc, stopped, conns, active, panicked>>
  /\ draining' = draining \/ draining' = TRUE
  /\ drained' = drained \/ SignalDrained

ServerAction == \/ StartStep \/ CloseCall \/ CloseStep \/ ServeExits
                \/ CancelContext \/ DeadlinePasses \/ Stopped

ConnAction(c) == ConnStep(c) \/ Accept(c) \/ ReadCommands(c) \/ ClientLeaves(c)

\* Start, Close, redcon and the environment leave the connections alone.
LEMMA ServerActionSteady == ServerAction => Steady
<1> USE DEF Steady, drainVars, connVars, NoConnChange, StopAdmission
<1>1. CASE StartStep
  <2>1. CASE StartCall  BY <2>1 DEF StartCall
  <2>2. CASE Listen  BY <2>2 DEF Listen
  <2>3. CASE ListenerReady  BY <2>3 DEF ListenerReady
  <2>4. CASE Select  BY <2>4 DEF Select
  <2>5. CASE BeginDrain  BY <2>5 DEF BeginDrain
  <2>6. CASE TakeBatch  BY <2>6 DEF TakeBatch
  <2>7. CASE SetWakeDeadline  BY <2>7 DEF SetWakeDeadline
  <2>8. CASE WaitForDrain  BY <2>8 DEF WaitForDrain
  <2>9. CASE StartCloseListener  BY <2>9 DEF StartCloseListener
  <2>10. CASE ServeResult  BY <2>10 DEF ServeResult
  <2>11. CASE StartReturn  BY <2>11 DEF StartReturn
  <2> QED  BY <1>1, <2>1, <2>2, <2>3, <2>4, <2>5, <2>6, <2>7, <2>8, <2>9, <2>10, <2>11 DEF StartStep
<1>2. CASE CloseCall  BY <1>2 DEF CloseCall
<1>3. CASE CloseStep  BY <1>3 DEF CloseStep, CloseForce, CloseCloseListener
<1>4. CASE ServeExits  BY <1>4 DEF ServeExits
<1>5. CASE CancelContext  BY <1>5 DEF CancelContext
<1>6. CASE DeadlinePasses  BY <1>6 DEF DeadlinePasses
<1>7. CASE Stopped  BY <1>7 DEF Stopped, vars
<1> QED  BY <1>1, <1>2, <1>3, <1>4, <1>5, <1>6, <1>7 DEF ServerAction

\* The invariant of the connections: at the start, under the server's steps and
\* under a connection's own.
LEMMA ConnInvInit == Init => ConnInv
BY DEF Init, ConnInv, ConnPC

LEMMA ConnInvServer == ConnInv /\ Steady => ConnInv'
<1> SUFFICES ASSUME ConnInv, Steady PROVE ConnInv'  OBVIOUS
<1>1. draining' \in BOOLEAN /\ (draining => draining')
  <2>1. CASE draining' = draining  BY <2>1 DEF ConnInv
  <2>2. CASE draining' = TRUE  BY <2>2
  <2> QED  BY <2>1, <2>2 DEF Steady
<1>2. drained' \in BOOLEAN /\ (drained' => drained \/ (draining' /\ conns' = {}))
  <2>1. CASE drained' = drained  BY <2>1 DEF ConnInv
  <2>2. CASE SignalDrained  BY <2>2 DEF SignalDrained
  <2> QED  BY <2>1, <2>2 DEF Steady
<1>3. UNCHANGED <<cpc, stopped, conns, panicked>>  BY DEF Steady
<1> QED  BY <1>1, <1>2, <1>3 DEF ConnInv

LEMMA ConnInvConn ==
  ASSUME NEW c \in Conns, ConnInv, ConnAction(c)
  PROVE  ConnInv'
<1> USE DEF ConnInv, Goto, drainVars, ConnPC, Reserved, Admitted
<1>1. CASE Accept(c)  BY <1>1 DEF Accept
<1>2. CASE ReadCommands(c)  BY <1>2 DEF ReadCommands
<1>3. CASE ClientLeaves(c)  BY <1>3 DEF ClientLeaves
<1>4. CASE ReadFails(c)  BY <1>4 DEF ReadFails
<1>5. CASE Flush(c)  BY <1>5 DEF Flush
<1>6. CASE Dispatch(c)  BY <1>6 DEF Dispatch, DispatchStopped, Shut
<1>7. CASE Reserve(c)  BY <1>7 DEF Reserve
<1>8. CASE Recheck(c)  BY <1>8 DEF Recheck, Rechecked
<1>9. CASE Rollback(c)  BY <1>9 DEF Rollback, Decrement
<1>10. CASE Repair(c)  BY <1>10 DEF Repair, SignalDrained, Shut
<1>11. CASE Handle(c)  BY <1>11 DEF Handle, Shut
<1>12. CASE PrepareHandlerDone(c)  BY <1>12 DEF PrepareHandlerDone
<1>13. CASE SetDeadlines(c)  BY <1>13 DEF SetDeadlines
<1>14. CASE Settle(c)  BY <1>14 DEF Settle, Decrement
<1>15. CASE FinishHandler(c)  BY <1>15 DEF FinishHandler, Shut
<1>16. CASE CompleteDrainingHandler(c)
  BY <1>16 DEF CompleteDrainingHandler, Decrement, SignalDrained
<1>17. CASE ConnectionClosed(c)  BY <1>17 DEF ConnectionClosed, SignalDrained
<1> QED
  BY <1>1, <1>2, <1>3, <1>4, <1>5, <1>6, <1>7, <1>8, <1>9, <1>10, <1>11, <1>12,
     <1>13, <1>14, <1>15, <1>16, <1>17 DEF ConnAction, ConnStep

\* The reservations, the counter and the consistency checks of the tracker.
LEMMA CountServer == ActiveCountsReservations /\ Steady => ActiveCountsReservations'
BY SMT DEF ActiveCountsReservations, Steady

\* The reservations under way are finitely many.
LEMMA HoldersFinite == IsFiniteSet(Holders) /\ Cardinality(Holders) \in Nat
BY ProxyAssumption, FS_Subset, FS_CardinalityType DEF Holders

\* A connection's step adds itself to the reservations with the counter, or
\* leaves them with it, or touches neither.
LEMMA CountConn ==
  ASSUME NEW c \in Conns, ConnInv, ActiveCountsReservations, ConnAction(c)
  PROVE  ActiveCountsReservations'
<1> DEFINE H == Holders
<1>1. IsFiniteSet(H) /\ Cardinality(H) \in Nat  BY HoldersFinite
<1>2. ~panicked /\ active = Cardinality(H)  BY DEF ActiveCountsReservations, Holders
<1>3. ASSUME H' = H, UNCHANGED <<active, panicked>>  PROVE ActiveCountsReservations'
  BY <1>2, <1>3 DEF ActiveCountsReservations, Holders
<1>4. ASSUME H' = H \ {c}, c \in H, Decrement  PROVE ActiveCountsReservations'
  <2>1. Cardinality(H') = Cardinality(H) - 1 /\ Cardinality(H) > 0
    BY SMT, <1>1, <1>4, FS_RemoveElement, FS_EmptySet
  <2>2. active > 0  BY <2>1, <1>2
  <2>3. active' = active - 1 /\ UNCHANGED panicked  BY <2>2, <1>4 DEF Decrement
  <2> QED  BY <2>1, <2>3, <1>2 DEF ActiveCountsReservations, Holders
<1>5. ASSUME H' = H \cup {c}, c \notin H, active' = active + 1, UNCHANGED panicked
      PROVE ActiveCountsReservations'
  <2>1. Cardinality(H') = Cardinality(H) + 1  BY <1>1, <1>5, FS_AddElement
  <2> QED  BY <2>1, <1>2, <1>5 DEF ActiveCountsReservations, Holders
<1> HIDE DEF H
<1>6. H' = {x \in Conns : cpc'[x] \in Reserved}  BY DEF H, Holders
<1>7. H = {x \in Conns : cpc[x] \in Reserved}  BY DEF H, Holders
<1>8. cpc \in [Conns -> ConnPC]  BY DEF ConnInv
<1> USE <1>6, <1>7, <1>8 DEF Goto, drainVars, Reserved, Admitted
<1>a1. CASE Accept(c)  BY <1>a1, <1>3 DEF Accept
<1>a2. CASE ReadCommands(c)  BY <1>a2, <1>3 DEF ReadCommands
<1>a3. CASE ClientLeaves(c)  BY <1>a3, <1>3 DEF ClientLeaves
<1>a4. CASE ReadFails(c)  BY <1>a4, <1>3 DEF ReadFails
<1>a5. CASE Flush(c)  BY <1>a5, <1>3 DEF Flush
<1>a6. CASE Dispatch(c)  BY <1>a6, <1>3 DEF Dispatch
<1>a7. CASE Reserve(c)  BY <1>a7, <1>5 DEF Reserve
<1>a8. CASE Recheck(c)  BY <1>a8, <1>3 DEF Recheck, Rechecked
<1>a9. CASE Rollback(c)  BY <1>a9, <1>4 DEF Rollback
<1>a10. CASE Repair(c)  BY <1>a10, <1>3 DEF Repair
<1>a11. CASE Handle(c)  BY <1>a11, <1>3 DEF Handle
<1>a12. CASE PrepareHandlerDone(c)  BY <1>a12, <1>3 DEF PrepareHandlerDone
<1>a13. CASE SetDeadlines(c)  BY <1>a13, <1>3 DEF SetDeadlines
<1>a14. CASE Settle(c)
  <2>1. CASE draining  BY <2>1, <1>a14, <1>3 DEF Settle
  <2>2. CASE ~draining  BY <2>2, <1>a14, <1>4 DEF Settle
  <2> QED  BY <2>1, <2>2
<1>a15. CASE FinishHandler(c)  BY <1>a15, <1>3 DEF FinishHandler
<1>a16. CASE CompleteDrainingHandler(c)
  <2>1. draining  BY <1>a16 DEF CompleteDrainingHandler, ConnInv
  <2> QED  BY <2>1, <1>a16, <1>4 DEF CompleteDrainingHandler
<1>a17. CASE ConnectionClosed(c)  BY <1>a17, <1>3 DEF ConnectionClosed
<1> QED
  BY <1>a1, <1>a2, <1>a3, <1>a4, <1>a5, <1>a6, <1>a7, <1>a8, <1>a9, <1>a10, <1>a11,
     <1>a12, <1>a13, <1>a14, <1>a15, <1>a16, <1>a17 DEF ConnAction, ConnStep

\* The steps of Start between a ready listener and the end of its select or drain.
Listening == {"select", "drainStart", "wake", "setWake", "waitDrain", "blocked", "closeFlag"}

\* Who still has to close the listener, and when the service is told that the
\* proxy is active.
ServerInv ==
  /\ draining \in BOOLEAN /\ closing \in BOOLEAN /\ proxyActive \in BOOLEAN
  /\ exited \in BOOLEAN /\ listenerReady \in BOOLEAN /\ listenerClosed \in BOOLEAN
  /\ spc \in {"new", "listen"} => ln = "none" /\ serving = "no"
  /\ spc \in {"new", "listen", "ready"} => ~listenerReady /\ ~listenerClosed
  /\ lpc = "closeServer" => spc \notin {"new", "listen", "ready"}
  /\ spc \in {"new", "listen", "ready"} \cup Listening => ~finished
  /\ spc \in {"listen", "ready"} \cup Listening => started
  /\ spc \in Listening => listenerReady
  /\ serving = "done" => ln # "open"
  /\ exited => serving = "done" /\ spc \notin {"new", "listen", "ready", "select"}
  /\ listenerClosed /\ ln = "open" => spc = "closeServer" \/ lpc = "closeServer"
  /\ spc \in {"result", "return", "done"} /\ ln = "open" => lpc = "closeServer"
  /\ closing => ~proxyActive
  /\ forced => closing
  /\ lpc = "force" => closing
  /\ draining => closing \/ spc \notin {"new", "listen", "ready", "select"}
  /\ proxyActive => spc = "select" /\ ~draining

\* The invariant of Start and Close: at the start, under a connection's steps and
\* under the server's.
LEMMA ServerInvInit == Init => ServerInv
BY DEF Init, ServerInv, Listening

LEMMA ServerInvConn ==
  ASSUME NEW c \in Conns, ServerInv, ConnAction(c)
  PROVE  ServerInv'
<1>1. UNCHANGED <<draining, serverVars>>
  BY DEF ConnAction, ConnStep, Accept, ReadCommands, ClientLeaves, ReadFails, Flush,
         Dispatch, Reserve, Recheck, Rollback, Repair, Handle, PrepareHandlerDone,
         SetDeadlines, Settle, FinishHandler, CompleteDrainingHandler, ConnectionClosed,
         drainVars
<1> QED  BY <1>1 DEF ServerInv, serverVars

LEMMA ServerInvServer ==
  ASSUME ServerInv, ServerAction
  PROVE  ServerInv'
<1> USE DEF ServerInv, Listening, drainVars, NoConnChange, StopAdmission, StartFrame, SGoto,
            CloseFrame, MayClose
<1>1. CASE StartStep
  <2>1. CASE StartCall  BY <2>1 DEF StartCall
  <2>2. CASE Listen  BY <2>2 DEF Listen
  <2>3. CASE ListenerReady  BY <2>3 DEF ListenerReady, ReadyActive, AfterReady
  <2>4. CASE Select
    <3>1. /\ spc = "select" /\ ~exited /\ started /\ ~finished /\ listenerReady
          /\ UNCHANGED <<lpc, closing, forced, started, listenerReady, listenerClosed,
                         finished, ln, serving>>
      BY <2>4 DEF Select
    <3>2. CASE serving = "done" /\ exited' = TRUE /\ proxyActive' = FALSE
               /\ spc' = "drainStart" /\ draining' = draining
      BY <3>1, <3>2
    <3>3. CASE /\ proxyActive' = FALSE /\ spc' = "drainStart"
               /\ draining' = draining /\ exited' = exited
      BY <3>1, <3>3
    <3>4. CASE /\ forced /\ draining' = TRUE /\ spc' = "closeFlag"
               /\ exited' = exited /\ proxyActive' = proxyActive
      BY <3>1, <3>4
    <3> QED  BY <2>4, <3>2, <3>3, <3>4 DEF Select
  <2>5. CASE BeginDrain  BY <2>5 DEF BeginDrain
  <2>6. CASE TakeBatch  BY <2>6 DEF TakeBatch
  <2>7. CASE SetWakeDeadline  BY <2>7 DEF SetWakeDeadline
  <2>8. CASE WaitForDrain  BY <2>8 DEF WaitForDrain
  <2>9. CASE StartCloseListener  BY <2>9 DEF StartCloseListener
  <2>10. CASE ServeResult  BY <2>10 DEF ServeResult
  <2>11. CASE StartReturn  BY <2>11 DEF StartReturn
  <2> QED  BY <1>1, <2>1, <2>2, <2>3, <2>4, <2>5, <2>6, <2>7, <2>8, <2>9, <2>10, <2>11 DEF StartStep
<1>2. CASE CloseCall  BY <1>2 DEF CloseCall
<1>3. CASE CloseForce  BY <1>3 DEF CloseForce
<1>4. CASE CloseCloseListener  BY <1>4 DEF CloseCloseListener
<1>5. CASE ServeExits  BY <1>5 DEF ServeExits
<1>6. CASE CancelContext  BY <1>6 DEF CancelContext
<1>7. CASE DeadlinePasses  BY <1>7 DEF DeadlinePasses
<1>8. CASE Stopped  BY <1>8 DEF Stopped, vars, serverVars
<1> QED  BY <1>1, <1>2, <1>3, <1>4, <1>5, <1>6, <1>7, <1>8 DEF ServerAction, CloseStep

\* accept adds a connection only below the limit.
LEMMA LimitInv ==
  ASSUME scene \in Scenarios, ConnInv, ConnectionLimit,
         Next, UNCHANGED scene
  PROVE  ConnectionLimit'
<1>1. IsFiniteSet(conns) /\ Cardinality(conns) \in Nat
  BY ProxyAssumption, FS_Subset, FS_CardinalityType DEF ConnInv
<1>2. MaxConnections \in Nat  BY ProxyAssumption DEF MaxConnections
<1>3. MaxConnections' = MaxConnections  BY DEF MaxConnections
<1>4. CASE ServerAction
  BY <1>3, <1>4, ServerActionSteady DEF Steady, ConnectionLimit
<1>5. ASSUME NEW c \in Conns, ConnAction(c)  PROVE ConnectionLimit'
  <2>1. CASE conns' = conns  BY <2>1, <1>3 DEF ConnectionLimit
  <2>2. CASE conns' = conns \ {c}
    <3>1. Cardinality(conns') <= Cardinality(conns)  BY <2>2, <1>1, FS_Subset
    <3>2. Cardinality(conns') \in Nat  BY <2>2, <1>1, FS_Subset, FS_CardinalityType
    <3> QED  BY SMT, <3>1, <3>2, <1>1, <1>2, <1>3 DEF ConnectionLimit
  <2>3. CASE conns' = conns \cup {c} /\ ~AtLimit
    <3>1. /\ IsFiniteSet(conns \cup {c})
          /\ Cardinality(conns \cup {c}) =
               IF c \in conns THEN Cardinality(conns) ELSE Cardinality(conns) + 1
      BY <1>1, FS_AddElement
    <3>2. IsFiniteSet(conns')  BY <3>1, <2>3
    <3>3. Cardinality(conns') \in Nat  BY <3>2, FS_CardinalityType
    <3> QED  BY SMT, <3>1, <3>3, <2>3, <1>1, <1>2, <1>3 DEF ConnectionLimit, AtLimit
  <2> QED
    BY <1>5, <2>1, <2>2, <2>3
       DEF ConnAction, ConnStep, Accept, ReadCommands, ClientLeaves, ReadFails, Flush,
           Dispatch, Reserve, Recheck, Rollback, Repair, Handle, PrepareHandlerDone,
           SetDeadlines, Settle, FinishHandler, CompleteDrainingHandler, ConnectionClosed,
           drainVars
<1> QED  BY <1>4, <1>5 DEF Next, ServerAction, ConnAction
-----------------------------------------------------------------------------
\* Together: the inductive invariant of the proxy.
IInv ==
  /\ scene \in Scenarios
  /\ ConnInv /\ ActiveCountsReservations /\ ServerInv /\ ConnectionLimit

\* Every step is the server's or a connection's.
LEMMA NextCases == Next => ServerAction \/ \E c \in Conns : ConnAction(c)
BY DEF Next, ServerAction, ConnAction

\* The invariant is inductive.
LEMMA IInvInit == Init => IInv
<1> SUFFICES ASSUME Init PROVE IInv  OBVIOUS
<1>1. {c \in Conns : cpc[c] \in Reserved} = {}  BY DEF Init, Reserved, Admitted
<1>2. ActiveCountsReservations  BY <1>1, FS_EmptySet DEF Init, ActiveCountsReservations
<1>3. ConnectionLimit
  <2>1. Cardinality(conns) = 0  BY FS_EmptySet DEF Init
  <2>2. MaxConnections \in Nat  BY ProxyAssumption DEF Init, MaxConnections
  <2> QED  BY SMT, <2>1, <2>2 DEF ConnectionLimit
<1> QED  BY <1>2, <1>3, ConnInvInit, ServerInvInit DEF IInv, Init

LEMMA IInvStep == IInv /\ [Next /\ UNCHANGED scene]_<<vars, scene>> => IInv'
<1> SUFFICES ASSUME IInv, [Next /\ UNCHANGED scene]_<<vars, scene>> PROVE IInv'  OBVIOUS
<1>1. CASE UNCHANGED <<vars, scene>>
  <2>1. ConnInv' = ConnInv /\ ServerInv' = ServerInv
    BY <1>1 DEF vars, drainVars, connVars, serverVars, ConnInv, ServerInv
  <2>2. ActiveCountsReservations' = ActiveCountsReservations
    BY <1>1 DEF vars, drainVars, connVars, serverVars, ActiveCountsReservations
  <2>3. ConnectionLimit' = ConnectionLimit
    BY <1>1 DEF vars, drainVars, connVars, serverVars, ConnectionLimit, MaxConnections
  <2> QED
    BY <1>1, <2>1, <2>2, <2>3 DEF IInv, vars, drainVars, connVars, serverVars
<1>2. CASE Next /\ UNCHANGED scene
  <2>1. ConnectionLimit'  BY <1>2, LimitInv DEF IInv
  <2>2. CASE ServerAction
    BY <2>1, <2>2, <1>2, ServerActionSteady, ConnInvServer, CountServer, ServerInvServer DEF IInv
  <2>3. CASE \E c \in Conns : ConnAction(c)
    BY <2>1, <2>3, <1>2, ConnInvConn, CountConn, ServerInvConn DEF IInv
  <2> QED  BY <1>2, <2>2, <2>3, NextCases
<1> QED  BY <1>1, <1>2

\* The invariant holds in every behaviour of the proxy.
THEOREM ProxyInvariant == Spec => []IInv
BY IInvInit, IInvStep, PTL DEF Spec

\* drained is closed only when no admitted handler runs and no connection is
\* open, and neither comes back: what drainAndClose relies on when it lets
\* Start return.
THEOREM DrainedStaysQuiet == Spec => []DrainedIsQuiet
<1>1. IInv => DrainedIsQuiet
  BY DEF IInv, ConnInv, DrainedIsQuiet, ConnPC, Reserved, Admitted
<1> QED  BY <1>1, ProxyInvariant, PTL

\* The lock-free counter of drainTracker is the number of reservations under
\* way, and the panics of the tracker are unreachable.
THEOREM CounterExact == Spec => []ActiveCountsReservations
<1>1. IInv => ActiveCountsReservations  BY DEF IInv
<1> QED  BY <1>1, ProxyInvariant, PTL

\* However Start and Close interleave, the listener is not left open.
THEOREM ListenerClosed == Spec => []ListenerNotLeaked
<1>1. IInv => ListenerNotLeaked  BY DEF IInv, ServerInv, ListenerNotLeaked
<1> QED  BY <1>1, ProxyInvariant, PTL

\* Readiness is reported only while commands are admitted.
THEOREM ActiveOnlyAdmitting == Spec => []ActiveIsAdmitting
<1>1. IInv => ActiveIsAdmitting  BY DEF IInv, ServerInv, ActiveIsAdmitting
<1> QED  BY <1>1, ProxyInvariant, PTL

\* accept never exceeds max_connections.
THEOREM WithinConnectionLimit == Spec => []ConnectionLimit
<1>1. IInv => ConnectionLimit  BY DEF IInv
<1> QED  BY <1>1, ProxyInvariant, PTL

\* After stopAdmission, and on a connection that its handler has closed, no
\* command is admitted: the second check of beginHandler and dispatchStopped.
THEOREM AdmissionStaysEnded == Spec => AdmissionEnds
<1> DEFINE A == \A c \in Conns : /\ draining \/ stopped[c]
                                 /\ cpc[c] \notin Admitted
                                 => cpc'[c] \notin Admitted
<1>1. ASSUME IInv, Next  PROVE A
  <2>1. CASE ServerAction  BY <2>1, ServerActionSteady DEF Steady
  <2>2. ASSUME NEW d \in Conns, ConnAction(d)  PROVE A
    <3>1. CASE Recheck(d)
      BY <3>1, <1>1 DEF Recheck, Rechecked, Goto, Admitted, IInv, ConnInv
    <3>2. CASE Accept(d) \/ ReadCommands(d) \/ ClientLeaves(d) \/ ReadFails(d) \/ Flush(d)
      BY <3>2, <1>1 DEF Accept, ReadCommands, ClientLeaves, ReadFails, Flush, Goto,
           Admitted, IInv, ConnInv
    <3>3. CASE Dispatch(d) \/ Reserve(d) \/ Rollback(d) \/ Repair(d) \/ Handle(d)
      BY <3>3, <1>1 DEF Dispatch, Reserve, Rollback, Repair, Handle, Goto, Admitted, IInv,
           ConnInv
    <3>4. CASE PrepareHandlerDone(d) \/ SetDeadlines(d) \/ Settle(d)
      BY <3>4, <1>1 DEF PrepareHandlerDone, SetDeadlines, Settle, Goto, Admitted, IInv, ConnInv
    <3>5. CASE FinishHandler(d) \/ CompleteDrainingHandler(d) \/ ConnectionClosed(d)
      BY <3>5, <1>1 DEF FinishHandler, CompleteDrainingHandler, ConnectionClosed, Goto,
           Admitted, IInv, ConnInv
    <3> QED  BY <2>2, <3>1, <3>2, <3>3, <3>4, <3>5 DEF ConnAction, ConnStep
  <2> QED  BY <1>1, <2>1, <2>2, NextCases
<1>2. IInv /\ [Next /\ UNCHANGED scene]_<<vars, scene>> => [A]_vars  BY <1>1
<1> QED  BY <1>2, ProxyInvariant, PTL DEF Spec, AdmissionEnds
=============================================================================
