----------------------------- MODULE CacheTiers ------------------------------
(***************************************************************************)
(* The protected and the probationary cache as one budget: how New splits  *)
(* the configured limits between them, what a fill stores where and for    *)
(* how long, and how a candidate moves from one to the other while time    *)
(* passes.  Every key has a stripe of its own here; epochs, writes and     *)
(* purges are the Service module's.  The tracker is an environment that    *)
(* follows keys, forgets them, promotes and demotes them.                  *)
(***************************************************************************)
EXTENDS Lru

CONSTANTS
  Readers,
  Configs,  \* [keys, values, pttls, maxTime, bytes, entries, maxLocalTTL,
            \*  policyTTL, maxItemBytes, window]
  None

ASSUME ConfigsAssumption ==
  \A f \in Configs :
    /\ f.keys \subseteq Keys /\ f.values \subseteq Nat /\ f.pttls \subseteq Int
    /\ f.bytes \in Nat /\ f.entries \in Int
    /\ {f.maxTime, f.maxLocalTTL, f.policyTTL, f.maxItemBytes, f.window} \subseteq Int

ASSUME NoneAssumption == None \notin Readers

VARIABLES
  config,        \* the configuration and the bounds, chosen at the start and fixed
  cache, probationary,
  time,
  status,        \* the tracker's view of each key
  demoted,       \* keys whose demotion is not applied yet
  owner,         \* who holds each key's stripe
  rd,            \* the readers
  given          \* history: the expiry the last store gave each key

tierVars == <<config, cache, probationary, time, status, demoted, owner, rd, given>>

OriginValues == config.values        \* lengths of the values at the origin
PTTLs == config.pttls                \* what PTTL answers; negative is no expiry
MaxLocalTTL == config.maxLocalTTL    \* the global cap
PolicyTTL == config.policyTTL        \* the matching policy's cap
MaxItemBytes == config.maxItemBytes  \* the policy's item bound
Window == config.window              \* hotness.window
EndOfTime == config.maxTime          \* bound on the clock

-----------------------------------------------------------------------------

probationaryCacheShare == 8

AtLeastOne(n) == IF n < 1 THEN 1 ELSE n

SplitSingleEntry(maxBytes, maxEntries) ==
  LET pb == AtLeastOne(maxBytes \div probationaryCacheShare)
      pe == IF maxEntries > 1 THEN AtLeastOne(maxEntries \div probationaryCacheShare) ELSE 0
  IN  [bytes |-> maxBytes - pb, entries |-> maxEntries - pe, pBytes |-> pb, pEntries |-> pe,
       enabled |-> maxBytes >= 2]

\* The probationary share of both limits, at least one of each; an entry limit
\* of zero, no limit, stays no limit in both tiers.
splitCacheTierLimits(maxBytes, maxEntries) ==
  LET pb == AtLeastOne(maxBytes \div probationaryCacheShare)
      pe == IF maxEntries > 1 THEN AtLeastOne(maxEntries \div probationaryCacheShare) ELSE 0
  IN  IF maxBytes < 2 \/ maxEntries = 1
      THEN [bytes |-> maxBytes, entries |-> maxEntries, pBytes |-> 0, pEntries |-> 0, enabled |-> FALSE]
      ELSE [bytes |-> maxBytes - pb, entries |-> maxEntries - pe, pBytes |-> pb, pEntries |-> pe, enabled |-> TRUE]

Limits == splitCacheTierLimits(config.bytes, config.entries)

Probation == Limits.enabled

\* combinedCacheStats.
Stats == [entries |-> Cardinality(cache.items) + Cardinality(probationary.items),
          bytes   |-> cache.bytes + probationary.bytes]

\* The smallest of the origin's remaining time and the two caps.
localTTL(upstreamTTL) ==
  LET maxTTL == Min({MaxLocalTTL, PolicyTTL}) IN
  IF PolicyTTL <= 0 \/ upstreamTTL = 0 THEN 0
  ELSE IF upstreamTTL > 0 /\ upstreamTTL < maxTTL THEN upstreamTTL ELSE maxTTL

CandidateTTL(upstreamTTL) ==
  IF Window > 0 THEN Min({Window, localTTL(upstreamTTL)}) ELSE localTTL(upstreamTTL)

\* storeLocal and the second half of storeProbationary: what is too large or
\* has no time left replaces nothing and removes what is there.
Store(tier, key, value, ttl) ==
  IF MaxItemBytes <= 0 \/ EstimateSize(key, value) > MaxItemBytes \/ ttl <= 0
  THEN removeLocked(tier, key)
  ELSE put(tier, key, value, time + ttl)

PutUntilRestarted(tier, ent, taken) == put(tier, ent.key, ent.value, time + ent.expiresAt - taken)

\* The candidate keeps its absolute expiry, however long the transfer takes.
PutUntilExpiry(tier, ent, taken) ==
  IF time >= ent.expiresAt THEN removeLocked(tier, ent.key)
  ELSE put(tier, ent.key, ent.value, ent.expiresAt)

-----------------------------------------------------------------------------

Idle == [pc |-> "idle", key |-> None]

TiersInit ==
  /\ config \in Configs
  /\ cache = New(Limits.bytes, Limits.entries)
  /\ probationary = New(Limits.pBytes, Limits.pEntries)
  /\ time = 0
  /\ status = [k \in Keys |-> "untracked"]
  /\ demoted = {}
  /\ owner = [k \in Keys |-> None]
  /\ rd = [r \in Readers |-> Idle]
  /\ given = [k \in Keys |-> 0]

NoStoreYet == UNCHANGED <<config, time, demoted, given>>

Fresh(tier, key) == Usable(tier, key, time, 0, FALSE)

Hit(r) ==
  /\ rd[r].pc = "idle"
  /\ \E k \in config.keys : /\ status[k] = "hot" /\ Fresh(cache, k)
                     /\ cache' = get(cache, k, time, 0, FALSE)
  /\ UNCHANGED <<probationary, status, owner, rd>> /\ NoStoreYet

\* Neither tier serves the key, and the lookups drop what has expired: on to the
\* origin.
Miss(r) ==
  /\ rd[r].pc = "idle"
  /\ \E k \in config.keys :
       /\ ~(status[k] = "hot" /\ Fresh(cache, k))
       /\ ~Fresh(probationary, k)
       /\ rd' = [rd EXCEPT ![r] = [pc |-> "missed", key |-> k]]
       /\ cache' = IF status[k] = "hot" THEN get(cache, k, time, 0, FALSE) ELSE cache
       /\ probationary' = get(probationary, k, time, 0, FALSE)
  /\ UNCHANGED <<status, owner>> /\ NoStoreYet

\* The promotion section up to the removal of the candidate.  A key the tracker
\* does not follow is not admitted and goes on to the origin.
TakeCandidate(r) ==
  /\ rd[r].pc = "idle" /\ Probation
  /\ \E k \in config.keys :
       /\ owner[k] = None
       /\ ~(status[k] = "hot" /\ Fresh(cache, k))
       /\ Fresh(probationary, k)
       /\ cache' = IF status[k] = "hot" THEN get(cache, k, time, 0, FALSE) ELSE cache
       /\ probationary' = removeLocked(probationary, k)
       /\ IF status[k] = "untracked"
          THEN /\ rd' = [rd EXCEPT ![r] = [pc |-> "missed", key |-> k]]
               /\ UNCHANGED <<status, owner>>
          ELSE /\ rd' = [rd EXCEPT ![r] = [pc |-> "moving", key |-> k, taken |-> time,
                                           ent |-> EntryOf(probationary, k)]]
               /\ status' = [status EXCEPT ![k] = "hot"]
               /\ owner' = [owner EXCEPT ![k] = r]
  /\ NoStoreYet

InstallCandidate(r) ==
  LET k == rd[r].key IN
  /\ rd[r].pc = "moving"
  /\ cache' = PutUntilExpiry(cache, rd[r].ent, rd[r].taken)
  /\ owner' = [owner EXCEPT ![k] = None]
  /\ rd' = [rd EXCEPT ![r] = IF k \in cache'.items THEN Idle ELSE [pc |-> "missed", key |-> k]]
  /\ UNCHANGED <<probationary, status>> /\ NoStoreYet

\* The origin answers, None for a missing key, and reports its PTTL.
Fetch(r) ==
  /\ rd[r].pc = "missed"
  /\ \E value \in OriginValues \cup {None}, pttl \in PTTLs :
       rd' = [rd EXCEPT ![r] = [pc |-> "fetched", key |-> rd[r].key, value |-> value,
                                pttl |-> pttl]]
  /\ UNCHANGED <<cache, probationary, status, owner>> /\ NoStoreYet

\* reconcileLocalIfCurrent: the other tier gives up the key first.
Reconcile(r) ==
  LET k == rd[r].key IN
  /\ rd[r].pc = "fetched" /\ owner[k] = None
  /\ owner' = [owner EXCEPT ![k] = IF rd[r].value = None THEN None ELSE r]
  /\ \/ /\ rd[r].value = None
        /\ cache' = removeLocked(cache, k)
        /\ probationary' = removeLocked(probationary, k)
        /\ rd' = [rd EXCEPT ![r] = Idle]
     \/ /\ rd[r].value # None /\ status[k] = "hot"
        /\ probationary' = removeLocked(probationary, k)
        /\ rd' = [rd EXCEPT ![r].pc = "storeLocal"]
        /\ UNCHANGED cache
     \/ /\ rd[r].value # None /\ status[k] # "hot"
        /\ cache' = removeLocked(cache, k)
        /\ rd' = [rd EXCEPT ![r].pc = "storeProbationary"]
        /\ UNCHANGED probationary
  /\ UNCHANGED status /\ NoStoreYet

Finish(r) ==
  LET k == rd[r].key IN
  /\ owner' = [owner EXCEPT ![k] = None]
  /\ rd' = [rd EXCEPT ![r] = Idle]
  /\ UNCHANGED <<config, time, status, demoted>>

StoreLocal(r) ==
  /\ rd[r].pc = "storeLocal"
  /\ cache' = Store(cache, rd[r].key, rd[r].value, localTTL(rd[r].pttl))
  /\ given' = [given EXCEPT ![rd[r].key] = time + localTTL(rd[r].pttl)]
  /\ Finish(r)
  /\ UNCHANGED probationary

\* A key the tracker has forgotten meanwhile is not retained.
StoreProbationary(r) ==
  /\ rd[r].pc = "storeProbationary"
  /\ probationary' = IF Probation /\ status[rd[r].key] # "untracked"
                     THEN Store(probationary, rd[r].key, rd[r].value, CandidateTTL(rd[r].pttl))
                     ELSE probationary
  /\ given' = [given EXCEPT ![rd[r].key] = IF probationary' = probationary THEN @
                                           ELSE time + CandidateTTL(rd[r].pttl)]
  /\ Finish(r)
  /\ UNCHANGED cache

-----------------------------------------------------------------------------

\* The tracker: only a key that is not HOT is forgotten, and every exit from
\* HOT is applied later.
Hotness ==
  /\ \E k \in config.keys :
       \/ status[k] = "untracked" /\ status' = [status EXCEPT ![k] = "tracked"] /\ UNCHANGED demoted
       \/ status[k] = "tracked" /\ status' = [status EXCEPT ![k] = "untracked"] /\ UNCHANGED demoted
       \/ status[k] = "tracked" /\ status' = [status EXCEPT ![k] = "hot"] /\ UNCHANGED demoted
       \/ /\ status[k] = "hot" /\ status' = [status EXCEPT ![k] = "tracked"]
          /\ demoted' = demoted \cup {k}
  /\ UNCHANGED <<config, cache, probationary, time, owner, rd, given>>

ApplyDemotion ==
  \E k \in demoted :
    /\ owner[k] = None
    /\ demoted' = demoted \ {k}
    /\ IF status[k] = "hot" THEN UNCHANGED <<cache, probationary>>
       ELSE /\ cache' = removeLocked(cache, k)
            /\ probationary' = removeLocked(probationary, k)
    /\ UNCHANGED <<config, time, status, owner, rd, given>>

TimePasses ==
  /\ time < EndOfTime /\ time' = time + 1
  /\ UNCHANGED <<config, cache, probationary, status, demoted, owner, rd, given>>

TiersNext ==
  \/ \E r \in Readers : \/ Hit(r) \/ Miss(r) \/ TakeCandidate(r) \/ InstallCandidate(r)
                        \/ Fetch(r)
                        \/ Reconcile(r) \/ StoreLocal(r) \/ StoreProbationary(r)
  \/ Hotness \/ ApplyDemotion \/ TimePasses

TiersSpec == TiersInit /\ [][TiersNext]_tierVars

-----------------------------------------------------------------------------

\* The two partitions together stay within the configured global budget in
\* every intermediate state of a fill or a promotion, for every configured limit.
BudgetKept ==
  /\ Stats.bytes <= config.bytes
  /\ config.entries > 0 => Stats.entries <= config.entries

\* An entry keeps the absolute expiry it was given when it was first stored: the
\* move from probation to the protected tier neither restarts nor extends it.
ExpiryPreserved ==
  \A k \in Keys : /\ k \in cache.items => EntryOf(cache, k).expiresAt <= given[k]
                  /\ k \in probationary.items => EntryOf(probationary, k).expiresAt <= given[k]
=============================================================================
