-------------------------- MODULE CacheTierProofs ---------------------------
(***************************************************************************)
(* The two tiers keep one budget and every expiry, for all limits, keys,   *)
(* values and caps.  What a lookup, a removal and a store do to one cache  *)
(* is proved in CacheProofs.                                               *)
(***************************************************************************)
EXTENDS CacheTiers, CacheProofs

LEMMA ConfigsTyped ==
  ASSUME config \in Configs
  PROVE  /\ config.keys \subseteq Keys /\ OriginValues \subseteq Nat /\ PTTLs \subseteq Int
         /\ config.bytes \in Nat /\ config.entries \in Int
         /\ MaxLocalTTL \in Int /\ PolicyTTL \in Int /\ Window \in Int
BY ConfigsAssumption, Zenon DEF OriginValues, PTTLs, MaxLocalTTL, PolicyTTL, Window

\* The two shares never exceed the whole, and a share of no entries is one of no
\* bytes: a bound of zero entries would be no bound.
LEMMA SplitWithin ==
  ASSUME NEW maxBytes \in Nat, NEW maxEntries \in Int
  PROVE  LET l == splitCacheTierLimits(maxBytes, maxEntries) IN
         /\ l.bytes \in Nat /\ l.pBytes \in Nat /\ l.entries \in Int /\ l.pEntries \in Int
         /\ l.bytes + l.pBytes <= maxBytes
         /\ maxEntries > 0 => /\ l.entries > 0 /\ l.pEntries >= 0
                              /\ l.entries + l.pEntries <= maxEntries
                              /\ l.pEntries = 0 => l.pBytes = 0
<1> DEFINE pb == AtLeastOne(maxBytes \div probationaryCacheShare)
           pe == IF maxEntries > 1 THEN AtLeastOne(maxEntries \div probationaryCacheShare) ELSE 0
           l == splitCacheTierLimits(maxBytes, maxEntries)
<1>1. maxBytes >= 2 => pb \in Nat /\ pb >= 1 /\ pb <= maxBytes
  <2> DEFINE q == maxBytes \div 8
  <2>1. q \in Nat /\ q <= maxBytes
    OBVIOUS
  <2> HIDE DEF q
  <2> QED  BY <2>1 DEF AtLeastOne, probationaryCacheShare, q
<1>2. /\ pe \in Nat
      /\ maxEntries > 1 => pe >= 1 /\ pe < maxEntries
      /\ maxEntries <= 1 => pe = 0
  <2> DEFINE q == maxEntries \div 8
  <2>1. maxEntries > 1 => q \in Nat /\ q < maxEntries
    OBVIOUS
  <2> HIDE DEF q
  <2> QED  BY <2>1 DEF AtLeastOne, probationaryCacheShare, q
<1>3. CASE maxBytes < 2 \/ maxEntries = 1
  <2>1. l = [bytes |-> maxBytes, entries |-> maxEntries, pBytes |-> 0, pEntries |-> 0, enabled |-> FALSE]
    BY <1>3, Zenon DEF splitCacheTierLimits
  <2> HIDE DEF l
  <2>2. l.bytes = maxBytes /\ l.entries = maxEntries /\ l.pBytes = 0 /\ l.pEntries = 0
    BY <2>1
  <2> QED  BY <2>2 DEF l
<1>4. CASE ~(maxBytes < 2 \/ maxEntries = 1)
  <2>1. l = [bytes |-> maxBytes - pb, entries |-> maxEntries - pe, pBytes |-> pb, pEntries |-> pe,
             enabled |-> TRUE]
    BY <1>4, Zenon DEF splitCacheTierLimits
  <2> HIDE DEF l, pb, pe
  <2>2. l.bytes = maxBytes - pb /\ l.entries = maxEntries - pe /\ l.pBytes = pb /\ l.pEntries = pe
    BY <2>1
  <2> QED  BY <1>1, <1>2, <1>4, <2>2 DEF l
<1> QED  BY <1>3, <1>4

LEMMA LesserTTL == \A a, b \in Int : Min({a, b}) \in Int
<1> TAKE a, b \in Int
<1>1. \E x \in {a, b} : \A y \in {a, b} : x <= y
  OBVIOUS
<1>2. Min({a, b}) \in {a, b}
  BY <1>1, Zenon DEF Min
<1> QED  BY <1>2

LEMMA TTLsTyped ==
  ASSUME config \in Configs, NEW ttl \in Int
  PROVE  localTTL(ttl) \in Int /\ CandidateTTL(ttl) \in Int
<1>1. MaxLocalTTL \in Int /\ PolicyTTL \in Int /\ Window \in Int
  BY ConfigsTyped
<1>2. Min({MaxLocalTTL, PolicyTTL}) \in Int
  BY <1>1, LesserTTL, Zenon
<1>3. localTTL(ttl) \in Int
  <2>1. 0 \in Int
    OBVIOUS
  <2> QED  BY <1>2, <2>1, Zenon DEF localTTL
<1>4. Min({Window, localTTL(ttl)}) \in Int
  BY <1>1, <1>3, LesserTTL, Zenon
<1> QED  BY <1>3, <1>4, Zenon DEF CandidateTTL

\* e is d after a store of the key that expires at x: the key has that expiry or
\* is gone, the other keys are as they were or gone.
Replaced(d, e, key, x) ==
  /\ Sound(e) /\ (Within(d) => Within(e)) /\ e.maxBytes = d.maxBytes /\ e.maxEntries = d.maxEntries
  /\ key \in e.items => EntryOf(e, key).expiresAt = x
  /\ \A k \in e.items \ {key} : k \in d.items /\ EntryOf(e, k) = EntryOf(d, k)

LEMMA RemoveReplaces ==
  ASSUME NEW d, Sound(d), NEW key, NEW x
  PROVE  Replaced(d, removeLocked(d, key), key, x)
<1> DEFINE e == removeLocked(d, key)
<1>1. Sound(e) /\ Less(d, e) /\ e.items = d.items \ {key}
  BY RemoveSound
<1> HIDE DEF e
<1>2. Within(d) => Within(e)
  BY <1>1, WithinLess, Zenon
<1>3. Replaced(d, e, key, x)
  BY <1>1, <1>2, Zenon DEF Replaced, Less
<1> QED  BY <1>3 DEF e

LEMMA PutReplaces ==
  ASSUME NEW d, Sound(d), NEW key \in Keys, NEW value \in Nat, NEW x \in Int
  PROVE  Replaced(d, put(d, key, value, x), key, x)
<1> DEFINE e == put(d, key, value, x)
<1>1. PutDone(d, e, key, value, x)
  BY PutSound, Zenon
<1> HIDE DEF e
<1>2. Within(d) => Within(e)
  BY <1>1, WithinLess, Zenon DEF PutDone
<1>3. key \in e.items => EntryOf(e, key).expiresAt = x
  <2>1. key \in e.items => EntryOf(e, key) = Stored(key, value, x)
    BY <1>1, Zenon DEF PutDone
  <2>2. Stored(key, value, x).expiresAt = x
    BY DEF Stored
  <2> QED  BY <2>1, <2>2, Zenon
<1>4. Replaced(d, e, key, x)
  BY <1>1, <1>2, <1>3, Zenon DEF PutDone, Replaced
<1> QED  BY <1>4 DEF e

LEMMA StoreReplaces ==
  ASSUME NEW d, Sound(d), NEW key \in Keys, NEW value \in Nat, NEW ttl \in Int, time \in Int
  PROVE  Replaced(d, Store(d, key, value, ttl), key, time + ttl)
<1>1. time + ttl \in Int
  OBVIOUS
<1> QED  BY <1>1, RemoveReplaces, PutReplaces, Zenon DEF Store

LEMMA MoveReplaces ==
  ASSUME NEW d, Sound(d), NEW ent \in Entry, NEW taken
  PROVE  Replaced(d, PutUntilExpiry(d, ent, taken), ent.key, ent.expiresAt)
<1>1. ent.key \in Keys /\ ent.value \in Nat /\ ent.expiresAt \in Int
  BY DEF Entry
<1> QED  BY <1>1, RemoveReplaces, PutReplaces, Zenon DEF PutUntilExpiry

Fits(d, bytes, entries) ==
  Sound(d) /\ Within(d) /\ d.maxBytes = bytes /\ d.maxEntries = entries

Expires(d) == \A k \in d.items : EntryOf(d, k).expiresAt <= given[k]

Fetched == [pc : {"fetched", "storeLocal", "storeProbationary"}, key : Keys,
            value : Nat \cup {None}, pttl : Int]

\* What a reader may hold, by where it is.
Reading(x) ==
  /\ x.pc \in {"idle", "missed", "moving", "fetched", "storeLocal", "storeProbationary"}
  /\ x.pc # "idle" => x.key \in Keys
  /\ x.pc = "moving" => x.ent \in Entry /\ x.ent.key = x.key
  /\ x.pc \in {"fetched", "storeLocal", "storeProbationary"} => x \in Fetched
  /\ x.pc \in {"storeLocal", "storeProbationary"} => x.value \in Nat

\* A reader between the two halves of a move or of a store holds the stripe; what
\* it moves expires no later than the key was given, and the tier that it does
\* not store in has given up the key.
Holding(r) ==
  /\ rd[r].pc \in {"moving", "storeLocal", "storeProbationary"} => owner[rd[r].key] = r
  /\ rd[r].pc = "moving" => rd[r].ent.expiresAt <= given[rd[r].key]
  /\ rd[r].pc = "storeLocal" => rd[r].key \notin probationary.items
  /\ rd[r].pc = "storeProbationary" => rd[r].key \notin cache.items

TiersInv ==
  /\ config \in Configs
  /\ Fits(cache, Limits.bytes, Limits.entries)
  /\ Fits(probationary, Limits.pBytes, Limits.pEntries)
  /\ Expires(cache) /\ Expires(probationary)
  /\ time \in Int /\ given \in [Keys -> Int] /\ owner \in [Keys -> Readers \cup {None}]
  /\ demoted \subseteq Keys
  /\ rd = [r \in Readers |-> rd[r]]
  /\ \A r \in Readers : Reading(rd[r]) /\ Holding(r)

\* e has the limits of d and keeps them.
Keeps(d, e) == Sound(e) /\ Within(e) /\ e.maxBytes = d.maxBytes /\ e.maxEntries = d.maxEntries

LEMMA TiersFrom ==
  ASSUME TiersInv, UNCHANGED config, Keeps(cache, cache'), Keeps(probationary, probationary'),
         Expires(cache)', Expires(probationary)', time' \in Int, given' \in [Keys -> Int],
         owner' \in [Keys -> Readers \cup {None}], demoted' \subseteq Keys,
         rd' = [r \in Readers |-> rd'[r]],
         \A r \in Readers : Reading(rd'[r]) /\ Holding(r)'
  PROVE  TiersInv'
<1>1. Limits' = Limits
  BY Zenon DEF Limits
<1>2. Fits(cache', Limits.bytes, Limits.entries) /\ Fits(probationary', Limits.pBytes, Limits.pEntries)
  BY Zenon DEF TiersInv, Keeps, Fits
<1>3. /\ Fits(cache, Limits.bytes, Limits.entries)'
      /\ Fits(probationary, Limits.pBytes, Limits.pEntries)'
  BY <1>1, <1>2, Zenon DEF Fits
<1>4. config' \in Configs
  BY Zenon DEF TiersInv
<1> QED  BY <1>3, <1>4, Zenon DEF TiersInv, Reading, Holding

LEMMA KeepsSame ==
  ASSUME TiersInv
  PROVE  Keeps(cache, cache) /\ Keeps(probationary, probationary) /\ Less(cache, cache)
         /\ Less(probationary, probationary) /\ Sound(cache) /\ Sound(probationary)
<1>1. Sound(cache) /\ Within(cache) /\ Sound(probationary) /\ Within(probationary)
  BY DEF TiersInv, Fits
<1>2. Less(cache, cache) /\ Less(probationary, probationary)
  BY <1>1, SoundFields DEF Less
<1> QED  BY <1>1, <1>2, Zenon DEF Keeps

\* A tier that only loses entries, while no key is given another expiry.
LEMMA ShrinkKeeps ==
  ASSUME NEW d, NEW e, Sound(d), Within(d), Sound(e), Less(d, e)
  PROVE  Keeps(d, e)
BY WithinLess, Zenon DEF Keeps, Less

LEMMA TiersShrink ==
  ASSUME TiersInv, UNCHANGED <<config, given>>,
         Sound(cache'), Less(cache, cache'), Sound(probationary'), Less(probationary, probationary'),
         time' \in Int, owner' \in [Keys -> Readers \cup {None}], demoted' \subseteq Keys,
         rd' = [r \in Readers |-> rd'[r]],
         \A r \in Readers : Reading(rd'[r]) /\ Holding(r)'
  PROVE  TiersInv'
<1>1. Keeps(cache, cache') /\ Keeps(probationary, probationary')
  BY ShrinkKeeps, Zenon DEF TiersInv, Fits
<1>2. Expires(cache)' /\ Expires(probationary)'
  BY Zenon DEF TiersInv, Expires, Less
<1>3. given' \in [Keys -> Int]
  BY Zenon DEF TiersInv
<1> QED  BY <1>1, <1>2, <1>3, TiersFrom, Zenon

\* A reader is not disturbed by what others do to keys whose stripe it does not hold.
LEMMA Undisturbed ==
  ASSUME TiersInv, NEW q \in Readers, rd'[q] = rd[q], NEW K, \A j \in K : owner[j] # q,
         \A j \in Keys \ K : owner'[j] = owner[j] /\ given'[j] = given[j],
         \A j \in cache'.items \ K : j \in cache.items,
         \A j \in probationary'.items \ K : j \in probationary.items
  PROVE  Reading(rd'[q]) /\ Holding(q)'
<1>1. Reading(rd[q]) /\ Holding(q)
  BY DEF TiersInv
<1>2. Reading(rd'[q])
  BY <1>1
<1>3. CASE rd[q].pc \in {"moving", "storeLocal", "storeProbationary"}
  <2>1. rd[q].key \in Keys
    BY <1>1, <1>3 DEF Reading
  <2>2. owner[rd[q].key] = q /\ rd[q].key \notin K
    BY <1>1, <1>3, Zenon DEF Holding
  <2>3. owner'[rd'[q].key] = q /\ given'[rd'[q].key] = given[rd[q].key]
    BY <2>1, <2>2, Zenon
  <2>4. Holding(q)'
    BY <1>1, <2>2, <2>3, Zenon DEF Holding
  <2> QED  BY <1>2, <2>4
<1>4. CASE rd[q].pc \notin {"moving", "storeLocal", "storeProbationary"}
  BY <1>2, <1>4, Zenon DEF Holding
<1> QED  BY <1>3, <1>4

LEMMA UndisturbedAll ==
  ASSUME TiersInv, NEW r \in Readers, NEW x, rd' = [rd EXCEPT ![r] = x], Reading(x), Holding(r)',
         NEW K, \A j \in K : owner[j] = None \/ owner[j] = r,
         \A j \in Keys \ K : owner'[j] = owner[j] /\ given'[j] = given[j],
         \A j \in cache'.items \ K : j \in cache.items,
         \A j \in probationary'.items \ K : j \in probationary.items
  PROVE  /\ rd' = [q \in Readers |-> rd'[q]]
         /\ \A q \in Readers : Reading(rd'[q]) /\ Holding(q)'
<1>1. rd = [q \in Readers |-> rd[q]]
  BY DEF TiersInv
<1>2. rd' = [q \in Readers |-> rd'[q]] /\ rd'[r] = x /\ \A q \in Readers \ {r} : rd'[q] = rd[q]
  BY <1>1
<1>3. ASSUME NEW q \in Readers \ {r}  PROVE Reading(rd'[q]) /\ Holding(q)'
  <2>1. \A j \in K : owner[j] # q
    BY NoneAssumption, Zenon
  <2>2. q \in Readers /\ rd'[q] = rd[q]
    BY <1>2
  <2> QED  BY <2>1, <2>2, Undisturbed, Zenon
<1>4. Reading(rd'[r])
  BY <1>2
<1> QED  BY <1>2, <1>3, <1>4, Zenon

LEMMA TiersInitHolds == TiersInit => TiersInv
<1> SUFFICES ASSUME TiersInit PROVE TiersInv
  OBVIOUS
<1>1. /\ config \in Configs /\ cache = New(Limits.bytes, Limits.entries)
      /\ probationary = New(Limits.pBytes, Limits.pEntries)
      /\ time = 0 /\ demoted = {} /\ owner = [k \in Keys |-> None]
      /\ rd = [r \in Readers |-> Idle] /\ given = [k \in Keys |-> 0]
  BY DEF TiersInit
<1>2. /\ Limits.bytes \in Nat /\ Limits.pBytes \in Nat /\ Limits.entries \in Int /\ Limits.pEntries \in Int
  BY <1>1, ConfigsTyped, SplitWithin DEF Limits
<1>3. ASSUME NEW bytes \in Nat, NEW entries \in Int
      PROVE  LET d == New(bytes, entries) IN Fits(d, bytes, entries) /\ d.items = {}
  <2>1. Sound(New(bytes, entries)) /\ Within(New(bytes, entries))
    BY NewSound
  <2>2. /\ New(bytes, entries).maxBytes = bytes /\ New(bytes, entries).maxEntries = entries
        /\ New(bytes, entries).items = {}
    BY DEF New
  <2> QED  BY <2>1, <2>2, Zenon DEF Fits
<1>4. /\ Fits(cache, Limits.bytes, Limits.entries) /\ cache.items = {}
      /\ Fits(probationary, Limits.pBytes, Limits.pEntries) /\ probationary.items = {}
  BY <1>1, <1>2, <1>3, Zenon
<1>5. Expires(cache) /\ Expires(probationary)
  BY <1>4 DEF Expires
<1>6. ASSUME NEW r \in Readers  PROVE rd[r].pc = "idle" /\ Reading(rd[r]) /\ Holding(r)
  <2>1. rd[r].pc = "idle"
    BY <1>1 DEF Idle
  <2> QED  BY <2>1 DEF Reading, Holding
<1>7. /\ time \in Int /\ given \in [Keys -> Int] /\ owner \in [Keys -> Readers \cup {None}]
      /\ demoted \subseteq Keys /\ rd = [r \in Readers |-> rd[r]]
  BY <1>1
<1> QED  BY <1>1, <1>4, <1>5, <1>6, <1>7, Zenon DEF TiersInv

\* Steps that only lose entries, and whose reader holds nothing afterwards.
LEMMA TiersLookup ==
  ASSUME TiersInv, NEW r \in Readers, NEW x, rd' = [rd EXCEPT ![r] = x],
         x.pc \in {"idle", "missed", "fetched"}, Reading(x),
         Sound(cache'), Less(cache, cache'), Sound(probationary'), Less(probationary, probationary'),
         UNCHANGED owner \/ (\E k \in Keys : owner[k] \in {None, r} /\ owner' = [owner EXCEPT ![k] = None]),
         NoStoreYet
  PROVE  TiersInv'
<1>1. UNCHANGED <<config, time, demoted, given>>
  BY DEF NoStoreYet
<1>2. /\ owner \in [Keys -> Readers \cup {None}] /\ rd = [q \in Readers |-> rd[q]]
      /\ time \in Int /\ demoted \subseteq Keys
  BY DEF TiersInv
<1>3. Holding(r)'
  <2>1. rd'[r] = x
    BY <1>2
  <2>2. x.pc # "moving" /\ x.pc # "storeLocal" /\ x.pc # "storeProbationary"
    OBVIOUS
  <2> QED  BY <2>1, <2>2, Zenon DEF Holding
<1>4. PICK K \in SUBSET Keys : /\ \A j \in K : owner[j] = None \/ owner[j] = r
                               /\ \A j \in Keys \ K : owner'[j] = owner[j]
  <2>1. CASE UNCHANGED owner
    <3>1. /\ {} \in SUBSET Keys /\ \A j \in {} : owner[j] = None \/ owner[j] = r
          /\ \A j \in Keys \ {} : owner'[j] = owner[j]
      BY <2>1, Zenon
    <3> QED  BY <3>1, Zenon
  <2>2. ASSUME NEW k \in Keys, owner[k] \in {None, r}, owner' = [owner EXCEPT ![k] = None]
        PROVE  /\ {k} \in SUBSET Keys
               /\ \A j \in {k} : owner[j] = None \/ owner[j] = r
               /\ \A j \in Keys \ {k} : owner'[j] = owner[j]
    BY <1>2, <2>2
  <2> QED  BY <2>1, <2>2, Zenon
<1>5. owner' \in [Keys -> Readers \cup {None}]
  BY <1>2
<1>6. /\ \A j \in cache'.items \ K : j \in cache.items
      /\ \A j \in probationary'.items \ K : j \in probationary.items
  BY Zenon DEF Less
<1>7. \A j \in Keys \ K : owner'[j] = owner[j] /\ given'[j] = given[j]
  BY <1>1, <1>4, Zenon
<1>8. /\ rd' = [q \in Readers |-> rd'[q]]
      /\ \A q \in Readers : Reading(rd'[q]) /\ Holding(q)'
  BY <1>3, <1>4, <1>6, <1>7, UndisturbedAll, Zenon
<1>9. time' \in Int /\ demoted' \subseteq Keys
  BY <1>1, <1>2, Zenon
<1> QED  BY <1>1, <1>5, <1>8, <1>9, TiersShrink, Zenon

LEMMA MissedReads ==
  ASSUME NEW k \in Keys
  PROVE  /\ Reading([pc |-> "missed", key |-> k]) /\ [pc |-> "missed", key |-> k].pc = "missed"
         /\ Reading(Idle) /\ Idle.pc = "idle"
BY DEF Reading, Idle

\* The steps of which the tiers know nothing new.
LEMMA TiersQuiet ==
  ASSUME TiersInv, UNCHANGED <<config, rd, owner, given>>, time' \in Int, demoted' \subseteq Keys,
         Sound(cache'), Less(cache, cache'), Sound(probationary'), Less(probationary, probationary')
  PROVE  TiersInv'
<1>1. \A q \in Readers : Reading(rd'[q]) /\ Holding(q)'
  <2> TAKE q \in Readers
  <2> DEFINE K == {}
  <2>1. /\ \A j \in cache'.items \ K : j \in cache.items
        /\ \A j \in probationary'.items \ K : j \in probationary.items
    BY Zenon DEF Less
  <2>2. rd'[q] = rd[q] /\ \A j \in Keys \ K : owner'[j] = owner[j] /\ given'[j] = given[j]
    BY Zenon
  <2>3. \A j \in K : owner[j] # q
    BY Zenon
  <2> HIDE DEF K
  <2> QED  BY <2>1, <2>2, <2>3, Undisturbed, Zenon
<1>2. owner' \in [Keys -> Readers \cup {None}] /\ rd' = [r \in Readers |-> rd'[r]]
  BY Zenon DEF TiersInv
<1> QED  BY <1>1, <1>2, TiersShrink, Zenon

\* A lookup in a tier, or none.
LEMMA TierLooked ==
  ASSUME TiersInv, NEW d \in {cache, probationary}, NEW k, NEW b
  PROVE  LET e == IF b THEN get(d, k, time, 0, FALSE) ELSE d IN Sound(e) /\ Less(d, e)
<1>1. Sound(d) /\ Less(d, d)
  BY KeepsSame, Zenon
<1>2. Sound(get(d, k, time, 0, FALSE)) /\ Less(d, get(d, k, time, 0, FALSE))
  BY <1>1, GetSound, Zenon DEF Looked
<1> QED  BY <1>1, <1>2, Zenon

LEMMA HitKept ==
  ASSUME TiersInv, NEW r \in Readers, Hit(r)
  PROVE  TiersInv'
<1>1. PICK k : cache' = get(cache, k, time, 0, FALSE)
  BY Zenon DEF Hit
<1>2. UNCHANGED <<config, rd, owner, given, time, demoted, probationary>>
  BY DEF Hit, NoStoreYet
<1>3. Sound(cache') /\ Less(cache, cache')
  BY <1>1, TierLooked, Zenon
<1>4. Sound(probationary') /\ Less(probationary, probationary')
  BY <1>2, KeepsSame, Zenon
<1>5. time' \in Int /\ demoted' \subseteq Keys
  BY <1>2, Zenon DEF TiersInv
<1> QED  BY <1>2, <1>3, <1>4, <1>5, TiersQuiet, Zenon

LEMMA MissKept ==
  ASSUME TiersInv, NEW r \in Readers, Miss(r)
  PROVE  TiersInv'
<1>1. PICK k \in config.keys :
             /\ rd' = [rd EXCEPT ![r] = [pc |-> "missed", key |-> k]]
             /\ cache' = IF status[k] = "hot" THEN get(cache, k, time, 0, FALSE) ELSE cache
             /\ probationary' = get(probationary, k, time, 0, FALSE)
  BY Zenon DEF Miss
<1>2. UNCHANGED owner /\ NoStoreYet
  BY DEF Miss
<1>3. Sound(cache') /\ Less(cache, cache')
  BY <1>1, TierLooked, Zenon
<1>4. Sound(probationary') /\ Less(probationary, probationary')
  BY <1>1, TierLooked, Zenon
<1>5. k \in Keys
  BY ConfigsTyped DEF TiersInv
<1> DEFINE x == [pc |-> "missed", key |-> k]
<1>6. Reading(x) /\ x.pc \in {"idle", "missed", "fetched"}
  BY <1>5, MissedReads, Zenon
<1> HIDE DEF x
<1>7. rd' = [rd EXCEPT ![r] = x]
  BY <1>1 DEF x
<1> QED  BY <1>2, <1>3, <1>4, <1>6, <1>7, TiersLookup, Zenon

LEMMA FetchKept ==
  ASSUME TiersInv, NEW r \in Readers, Fetch(r)
  PROVE  TiersInv'
<1>1. PICK value \in OriginValues \cup {None}, pttl \in PTTLs :
             rd' = [rd EXCEPT ![r] = [pc |-> "fetched", key |-> rd[r].key, value |-> value,
                                      pttl |-> pttl]]
  BY Zenon DEF Fetch
<1>2. UNCHANGED <<cache, probationary, owner>> /\ NoStoreYet /\ rd[r].pc = "missed"
  BY DEF Fetch
<1>3. rd[r].key \in Keys
  BY <1>2 DEF TiersInv, Reading
<1>4. OriginValues \subseteq Nat /\ PTTLs \subseteq Int
  BY ConfigsTyped DEF TiersInv
<1> DEFINE x == [pc |-> "fetched", key |-> rd[r].key, value |-> value, pttl |-> pttl]
<1>5. Reading(x) /\ x.pc \in {"idle", "missed", "fetched"}
  BY <1>3, <1>4, Zenon DEF Reading, Fetched
<1> HIDE DEF x
<1>6. rd' = [rd EXCEPT ![r] = x]
  BY <1>1 DEF x
<1>7. Sound(cache') /\ Less(cache, cache') /\ Sound(probationary') /\ Less(probationary, probationary')
  BY <1>2, KeepsSame, Zenon
<1> QED  BY <1>2, <1>5, <1>6, <1>7, TiersLookup, Zenon

LEMMA TakeKept ==
  ASSUME TiersInv, NEW r \in Readers, TakeCandidate(r)
  PROVE  TiersInv'
<1>1. PICK k \in config.keys :
             /\ owner[k] = None /\ Fresh(probationary, k)
             /\ cache' = IF status[k] = "hot" THEN get(cache, k, time, 0, FALSE) ELSE cache
             /\ probationary' = removeLocked(probationary, k)
             /\ IF status[k] = "untracked"
                THEN /\ rd' = [rd EXCEPT ![r] = [pc |-> "missed", key |-> k]]
                     /\ UNCHANGED <<status, owner>>
                ELSE /\ rd' = [rd EXCEPT ![r] = [pc |-> "moving", key |-> k, taken |-> time,
                                                 ent |-> EntryOf(probationary, k)]]
                     /\ status' = [status EXCEPT ![k] = "hot"]
                     /\ owner' = [owner EXCEPT ![k] = r]
  BY Zenon DEF TakeCandidate
<1>2. NoStoreYet /\ UNCHANGED <<config, time, demoted, given>>
  BY DEF TakeCandidate, NoStoreYet
<1>3. Sound(cache') /\ Less(cache, cache')
  BY <1>1, TierLooked, Zenon
<1>4. Sound(probationary') /\ Less(probationary, probationary')
  BY <1>1, KeepsSame, RemoveSound, Zenon
<1>5. k \in Keys
  BY ConfigsTyped DEF TiersInv
<1>6. CASE status[k] = "untracked"
  <2> DEFINE x == [pc |-> "missed", key |-> k]
  <2>1. Reading(x) /\ x.pc \in {"idle", "missed", "fetched"}
    BY <1>5, MissedReads, Zenon
  <2> HIDE DEF x
  <2>2. rd' = [rd EXCEPT ![r] = x] /\ UNCHANGED owner
    BY <1>1, <1>6, Zenon DEF x
  <2> QED  BY <1>2, <1>3, <1>4, <2>1, <2>2, TiersLookup, Zenon
<1>7. CASE status[k] # "untracked"
  <2> DEFINE ent == EntryOf(probationary, k)
             x == [pc |-> "moving", key |-> k, taken |-> time, ent |-> ent]
  <2>1. k \in probationary.items
    BY <1>1, Zenon DEF Fresh, Usable
  <2>2. ent \in Entry /\ ent.key = k
    BY <2>1, KeepsSame, PositionIs, Zenon
  <2>3. ent.expiresAt <= given[k]
    BY <2>1, Zenon DEF TiersInv, Expires
  <2>4. rd' = [rd EXCEPT ![r] = x] /\ owner' = [owner EXCEPT ![k] = r]
    BY <1>1, <1>7, Zenon
  <2> HIDE DEF ent
  <2>5. Reading(x) /\ x.pc = "moving" /\ x.key = k /\ x.ent = ent
    BY <1>5, <2>2 DEF Reading
  <2> HIDE DEF x
  <2>6. owner \in [Keys -> Readers \cup {None}] /\ rd = [q \in Readers |-> rd[q]]
    BY DEF TiersInv
  <2>7. owner' \in [Keys -> Readers \cup {None}] /\ owner'[k] = r
        /\ \A j \in Keys \ {k} : owner'[j] = owner[j]
    BY SMTT(30), <1>5, <2>4, <2>6
  <2>8. rd'[r] = x
    BY SMTT(30), <2>4, <2>6
  <2>9. Holding(r)'
    BY SMTT(30), <1>2, <2>3, <2>5, <2>7, <2>8 DEF Holding
  <2>10. /\ \A j \in cache'.items \ {k} : j \in cache.items
         /\ \A j \in probationary'.items \ {k} : j \in probationary.items
         /\ \A j \in {k} : owner[j] = None \/ owner[j] = r
         /\ \A j \in Keys \ {k} : owner'[j] = owner[j] /\ given'[j] = given[j]
    BY <1>1, <1>2, <1>3, <1>4, <2>7, Zenon DEF Less
  <2>11. /\ rd' = [q \in Readers |-> rd'[q]]
         /\ \A q \in Readers : Reading(rd'[q]) /\ Holding(q)'
    <3> DEFINE K == {k}
    <3>1. /\ \A j \in cache'.items \ K : j \in cache.items
          /\ \A j \in probationary'.items \ K : j \in probationary.items
          /\ \A j \in K : owner[j] = None \/ owner[j] = r
          /\ \A j \in Keys \ K : owner'[j] = owner[j] /\ given'[j] = given[j]
      BY <2>10
    <3> HIDE DEF K
    <3> QED  BY <2>4, <2>5, <2>9, <3>1, UndisturbedAll, Zenon
  <2>12. time' \in Int /\ demoted' \subseteq Keys
    BY <1>2, Zenon DEF TiersInv
  <2> QED  BY <1>2, <1>3, <1>4, <2>7, <2>11, <2>12, TiersShrink, Zenon
<1> QED  BY <1>6, <1>7

\* A tier after a store, against the expiries given then.
LEMMA ReplacedExpires ==
  ASSUME NEW d, NEW e, NEW key \in Keys, NEW x \in Int, NEW old \in [Keys -> Int],
         NEW new \in [Keys -> Int], Sound(d), Replaced(d, e, key, x), x <= new[key],
         \A k \in Keys \ {key} : new[k] = old[k],
         \A k \in d.items : EntryOf(d, k).expiresAt <= old[k]
  PROVE  \A k \in e.items : EntryOf(e, k).expiresAt <= new[k]
<1> SUFFICES ASSUME NEW k \in e.items PROVE EntryOf(e, k).expiresAt <= new[k]
  OBVIOUS
<1>1. CASE k = key
  BY <1>1, Zenon DEF Replaced
<1>2. CASE k # key
  <2>1. k \in d.items /\ EntryOf(e, k) = EntryOf(d, k)
    BY <1>2, Zenon DEF Replaced
  <2>2. k \in Keys
    BY <2>1, SoundFields
  <2> QED  BY <1>2, <2>1, <2>2, Zenon
<1> QED  BY <1>1, <1>2

\* The last half of a move or of a store: it ends the reader's hold of the stripe.
LEMMA TiersRelease ==
  ASSUME TiersInv, NEW r \in Readers, NEW k \in Keys, owner[k] = r,
         owner' = [owner EXCEPT ![k] = None],
         NEW x, rd' = [rd EXCEPT ![r] = x], x.pc \in {"idle", "missed"}, Reading(x),
         \A j \in Keys \ {k} : given'[j] = given[j],
         \A j \in cache'.items \ {k} : j \in cache.items,
         \A j \in probationary'.items \ {k} : j \in probationary.items,
         UNCHANGED <<config, time, demoted>>, given' \in [Keys -> Int],
         Keeps(cache, cache'), Keeps(probationary, probationary'),
         Expires(cache)', Expires(probationary)'
  PROVE  TiersInv'
<1>1. owner \in [Keys -> Readers \cup {None}] /\ rd = [q \in Readers |-> rd[q]]
  BY DEF TiersInv
<1>2. owner' \in [Keys -> Readers \cup {None}] /\ \A j \in Keys \ {k} : owner'[j] = owner[j]
  BY <1>1
<1>3. Holding(r)'
  <2>1. rd'[r] = x
    BY <1>1
  <2>2. x.pc # "moving" /\ x.pc # "storeLocal" /\ x.pc # "storeProbationary"
    OBVIOUS
  <2> QED  BY <2>1, <2>2, Zenon DEF Holding
<1>4. /\ rd' = [q \in Readers |-> rd'[q]]
      /\ \A q \in Readers : Reading(rd'[q]) /\ Holding(q)'
  <2> DEFINE K == {k}
  <2>1. /\ \A j \in cache'.items \ K : j \in cache.items
        /\ \A j \in probationary'.items \ K : j \in probationary.items
        /\ \A j \in K : owner[j] = None \/ owner[j] = r
        /\ \A j \in Keys \ K : owner'[j] = owner[j] /\ given'[j] = given[j]
    BY <1>2, Zenon
  <2> HIDE DEF K
  <2> QED  BY <1>3, <2>1, UndisturbedAll, Zenon
<1>5. time' \in Int /\ demoted' \subseteq Keys
  BY Zenon DEF TiersInv
<1> QED  BY <1>2, <1>4, <1>5, TiersFrom, Zenon

LEMMA ReplacedKeeps ==
  ASSUME NEW d, NEW e, NEW key, NEW x, Within(d), Replaced(d, e, key, x)
  PROVE  Keeps(d, e) /\ \A j \in e.items \ {key} : j \in d.items
BY Zenon DEF Replaced, Keeps

LEMMA InstallKept ==
  ASSUME TiersInv, NEW r \in Readers, InstallCandidate(r)
  PROVE  TiersInv'
<1> DEFINE k == rd[r].key
           ent == rd[r].ent
           x == IF k \in cache'.items THEN Idle ELSE [pc |-> "missed", key |-> k]
<1>1. /\ rd[r].pc = "moving" /\ cache' = PutUntilExpiry(cache, ent, rd[r].taken)
      /\ owner' = [owner EXCEPT ![k] = None] /\ rd' = [rd EXCEPT ![r] = x]
      /\ UNCHANGED <<probationary, config, time, demoted, given>>
  BY Zenon DEF InstallCandidate, NoStoreYet
<1>2. Reading(rd[r]) /\ Holding(r)
  BY DEF TiersInv
<1>3. k \in Keys /\ ent \in Entry /\ ent.key = k /\ ent.expiresAt \in Int
  BY <1>1, <1>2 DEF Reading, Entry
<1>4. owner[k] = r /\ ent.expiresAt <= given[k]
  BY <1>1, <1>2 DEF Holding
<1>5. Sound(cache) /\ Within(cache) /\ given \in [Keys -> Int]
  BY DEF TiersInv, Fits
<1>6. Replaced(cache, cache', k, ent.expiresAt)
  <2>1. Replaced(cache, PutUntilExpiry(cache, ent, rd[r].taken), ent.key, ent.expiresAt)
    <3> HIDE DEF ent, k
    <3> QED  BY <1>3, <1>5, MoveReplaces, Zenon
  <2> HIDE DEF ent, k
  <2> QED  BY <1>1, <1>3, <2>1, Zenon
<1>7. Keeps(cache, cache') /\ \A j \in cache'.items \ {k} : j \in cache.items
  <2> HIDE DEF k, ent
  <2> QED  BY <1>5, <1>6, ReplacedKeeps, Zenon
<1>8. Expires(cache)'
  <2>1. \A j \in cache.items : EntryOf(cache, j).expiresAt <= given[j]
    BY DEF TiersInv, Expires
  <2>2. \A j \in Keys \ {k} : given[j] = given[j]
    OBVIOUS
  <2> HIDE DEF k, ent
  <2>3. \A j \in cache'.items : EntryOf(cache', j).expiresAt <= given[j]
    BY <1>3, <1>4, <1>5, <1>6, <2>1, <2>2, ReplacedExpires, Zenon
  <2> QED  BY <1>1, <2>3, Zenon DEF Expires
<1>9. Keeps(probationary, probationary') /\ Expires(probationary)'
  BY <1>1, KeepsSame, Zenon DEF TiersInv, Expires
<1>10. x.pc \in {"idle", "missed"} /\ Reading(x)
  BY <1>3, MissedReads, Zenon
<1> HIDE DEF k, ent, x
<1>11. given' \in [Keys -> Int] /\ \A j \in Keys \ {k} : given'[j] = given[j]
  BY <1>1, <1>5, Zenon
<1>12. \A j \in probationary'.items \ {k} : j \in probationary.items
  BY <1>1, Zenon
<1>13. rd' = [rd EXCEPT ![r] = x] /\ owner' = [owner EXCEPT ![k] = None]
       /\ UNCHANGED <<config, time, demoted>> /\ k \in Keys /\ owner[k] = r
  BY <1>1, <1>3, <1>4
<1> QED  BY <1>7, <1>8, <1>9, <1>10, <1>11, <1>12, <1>13, TiersRelease, Zenon

\* What the reader of a store knows.
LEMMA Storing ==
  ASSUME TiersInv, NEW r \in Readers, rd[r].pc \in {"storeLocal", "storeProbationary"}
  PROVE  /\ rd[r].key \in Keys /\ rd[r].value \in Nat /\ owner[rd[r].key] = r
         /\ localTTL(rd[r].pttl) \in Int /\ CandidateTTL(rd[r].pttl) \in Int
         /\ time + localTTL(rd[r].pttl) \in Int /\ time + CandidateTTL(rd[r].pttl) \in Int
<1>1. Reading(rd[r]) /\ Holding(r) /\ time \in Int /\ config \in Configs
  BY DEF TiersInv
<1>2. rd[r].key \in Keys /\ rd[r].value \in Nat /\ rd[r].pttl \in Int
  BY <1>1 DEF Reading, Fetched
<1>3. owner[rd[r].key] = r
  BY <1>1 DEF Holding
<1>4. localTTL(rd[r].pttl) \in Int /\ CandidateTTL(rd[r].pttl) \in Int
  BY <1>1, <1>2, TTLsTyped, Zenon
<1>5. time + localTTL(rd[r].pttl) \in Int /\ time + CandidateTTL(rd[r].pttl) \in Int
  BY <1>1, <1>4
<1> QED  BY <1>2, <1>3, <1>4, <1>5

LEMMA StoreLocalKept ==
  ASSUME TiersInv, NEW r \in Readers, StoreLocal(r)
  PROVE  TiersInv'
<1> DEFINE k == rd[r].key
           ttl == localTTL(rd[r].pttl)
           at == time + ttl
<1>1. /\ rd[r].pc = "storeLocal" /\ cache' = Store(cache, k, rd[r].value, ttl)
      /\ given' = [given EXCEPT ![k] = at]
      /\ owner' = [owner EXCEPT ![k] = None] /\ rd' = [rd EXCEPT ![r] = Idle]
      /\ UNCHANGED <<probationary, config, time, demoted>>
  BY Zenon DEF StoreLocal, Finish
<1>2. k \in Keys /\ rd[r].value \in Nat /\ owner[k] = r /\ ttl \in Int /\ at \in Int
  <2>1. rd[r].pc \in {"storeLocal", "storeProbationary"}
    BY <1>1
  <2> QED  BY <2>1, Storing, Zenon
<1>3. k \notin probationary.items
  BY <1>1 DEF TiersInv, Holding
<1>4. Sound(cache) /\ Within(cache) /\ given \in [Keys -> Int] /\ time \in Int /\ Sound(probationary)
  BY DEF TiersInv, Fits
<1>5. Replaced(cache, cache', k, at)
  <2> HIDE DEF k, ttl
  <2> QED  BY <1>1, <1>2, <1>4, StoreReplaces, Zenon
<1> HIDE DEF k, ttl, at
<1>6. Keeps(cache, cache') /\ \A j \in cache'.items \ {k} : j \in cache.items
  BY <1>4, <1>5, ReplacedKeeps, Zenon
<1>7. /\ given' \in [Keys -> Int] /\ given'[k] = at /\ at <= given'[k]
      /\ \A j \in Keys \ {k} : given'[j] = given[j]
  BY <1>1, <1>2, <1>4
<1>8. Expires(cache)'
  <2>1. \A j \in cache.items : EntryOf(cache, j).expiresAt <= given[j]
    BY DEF TiersInv, Expires
  <2>2. \A j \in cache'.items : EntryOf(cache', j).expiresAt <= given'[j]
    <3> DEFINE e == cache'
               new == given'
    <3>1. /\ k \in Keys /\ at \in Int /\ given \in [Keys -> Int] /\ new \in [Keys -> Int]
          /\ Sound(cache) /\ Replaced(cache, e, k, at) /\ at <= new[k]
          /\ \A j \in Keys \ {k} : new[j] = given[j]
      BY <1>2, <1>4, <1>5, <1>7
    <3> HIDE DEF e, new
    <3>2. \A j \in e.items : EntryOf(e, j).expiresAt <= new[j]
      BY <2>1, <3>1, ReplacedExpires, Zenon
    <3> QED  BY <3>2 DEF e, new
  <2> QED  BY <2>2, Zenon DEF Expires
<1>9. Keeps(probationary, probationary')
  BY <1>1, KeepsSame, Zenon
<1>10. Expires(probationary)'
  <2>1. \A j \in probationary.items : j \in Keys \ {k} /\ EntryOf(probationary, j).expiresAt <= given[j]
    BY <1>3, <1>4, SoundFields DEF TiersInv, Expires
  <2> QED  BY <1>1, <1>7, <2>1, Zenon DEF Expires
<1>11. Reading(Idle) /\ Idle.pc \in {"idle", "missed"}
  BY <1>2, MissedReads, Zenon
<1>12. \A j \in probationary'.items \ {k} : j \in probationary.items
  BY <1>1, Zenon
<1>13. rd' = [rd EXCEPT ![r] = Idle] /\ owner' = [owner EXCEPT ![k] = None]
       /\ UNCHANGED <<config, time, demoted>>
  BY <1>1
<1> QED  BY <1>2, <1>6, <1>7, <1>8, <1>9, <1>10, <1>11, <1>12, <1>13, TiersRelease, Zenon

LEMMA StoreProbationaryKept ==
  ASSUME TiersInv, NEW r \in Readers, StoreProbationary(r)
  PROVE  TiersInv'
<1> DEFINE k == rd[r].key
           ttl == CandidateTTL(rd[r].pttl)
           at == time + ttl
<1>1. /\ rd[r].pc = "storeProbationary"
      /\ probationary' = IF Probation /\ status[k] # "untracked"
                         THEN Store(probationary, k, rd[r].value, ttl) ELSE probationary
      /\ given' = [given EXCEPT ![k] = IF probationary' = probationary THEN given[k] ELSE at]
      /\ owner' = [owner EXCEPT ![k] = None] /\ rd' = [rd EXCEPT ![r] = Idle]
      /\ UNCHANGED <<cache, config, time, demoted>>
  BY Zenon DEF StoreProbationary, Finish
<1>2. k \in Keys /\ rd[r].value \in Nat /\ owner[k] = r /\ ttl \in Int /\ at \in Int
  <2>1. rd[r].pc \in {"storeLocal", "storeProbationary"}
    BY <1>1
  <2> QED  BY <2>1, Storing, Zenon
<1>3. k \notin cache.items
  BY <1>1 DEF TiersInv, Holding
<1>4. /\ Sound(probationary) /\ Within(probationary) /\ given \in [Keys -> Int] /\ time \in Int
      /\ Sound(cache)
  BY DEF TiersInv, Fits
<1>5. probationary' # probationary => Replaced(probationary, probationary', k, at)
  <2> HIDE DEF k, ttl
  <2> QED  BY <1>1, <1>2, <1>4, StoreReplaces, Zenon
<1> HIDE DEF k, ttl, at
<1>6. /\ Keeps(probationary, probationary')
      /\ \A j \in probationary'.items \ {k} : j \in probationary.items
  BY <1>4, <1>5, ReplacedKeeps, KeepsSame, Zenon
<1>7. /\ given' \in [Keys -> Int] /\ \A j \in Keys \ {k} : given'[j] = given[j]
      /\ probationary' = probationary => given'[k] = given[k]
      /\ probationary' # probationary => given'[k] = at
  BY <1>1, <1>2, <1>4
<1>8. Expires(probationary)'
  <2>1. \A j \in probationary.items : EntryOf(probationary, j).expiresAt <= given[j]
    BY DEF TiersInv, Expires
  <2>2. CASE probationary' = probationary
    <3>1. \A j \in Keys : given'[j] = given[j]
      BY <1>7, <2>2, Zenon
    <3>2. \A j \in probationary.items : j \in Keys
      BY <1>4, SoundFields
    <3> QED  BY <2>1, <2>2, <3>1, <3>2, Zenon DEF Expires
  <2>3. CASE probationary' # probationary
    <3>1. at <= given'[k]
      BY <1>2, <1>7, <2>3
    <3>2. \A j \in probationary'.items : EntryOf(probationary', j).expiresAt <= given'[j]
      <4> DEFINE e == probationary'
                 new == given'
      <4>1. /\ k \in Keys /\ at \in Int /\ given \in [Keys -> Int] /\ new \in [Keys -> Int]
            /\ Sound(probationary) /\ Replaced(probationary, e, k, at) /\ at <= new[k]
            /\ \A j \in Keys \ {k} : new[j] = given[j]
        BY <1>2, <1>4, <1>5, <1>7, <2>3, <3>1
      <4> HIDE DEF e, new
      <4>2. \A j \in e.items : EntryOf(e, j).expiresAt <= new[j]
        BY <2>1, <4>1, ReplacedExpires, Zenon
      <4> QED  BY <4>2 DEF e, new
    <3> QED  BY <3>2, Zenon DEF Expires
  <2> QED  BY <2>2, <2>3
<1>9. Keeps(cache, cache')
  BY <1>1, KeepsSame, Zenon
<1>10. Expires(cache)'
  <2>1. \A j \in cache.items : j \in Keys \ {k} /\ EntryOf(cache, j).expiresAt <= given[j]
    BY <1>3, <1>4, SoundFields DEF TiersInv, Expires
  <2> QED  BY <1>1, <1>7, <2>1, Zenon DEF Expires
<1>11. Reading(Idle) /\ Idle.pc \in {"idle", "missed"}
  BY <1>2, MissedReads, Zenon
<1>12. \A j \in cache'.items \ {k} : j \in cache.items
  BY <1>1, Zenon
<1>13. rd' = [rd EXCEPT ![r] = Idle] /\ owner' = [owner EXCEPT ![k] = None]
       /\ UNCHANGED <<config, time, demoted>>
  BY <1>1
<1> QED  BY <1>2, <1>6, <1>7, <1>8, <1>9, <1>10, <1>11, <1>12, <1>13, TiersRelease, Zenon

LEMMA ReconcileKept ==
  ASSUME TiersInv, NEW r \in Readers, Reconcile(r)
  PROVE  TiersInv'
<1> DEFINE k == rd[r].key
<1>1. /\ rd[r].pc = "fetched" /\ owner[k] = None
      /\ owner' = [owner EXCEPT ![k] = IF rd[r].value = None THEN None ELSE r]
      /\ NoStoreYet /\ UNCHANGED <<config, time, demoted, given>>
  BY Zenon DEF Reconcile, NoStoreYet
<1>2. /\ owner \in [Keys -> Readers \cup {None}] /\ rd = [q \in Readers |-> rd[q]]
      /\ time' \in Int /\ demoted' \subseteq Keys
  BY <1>1, Zenon DEF TiersInv
<1>3. k \in Keys /\ rd[r] \in Fetched
  BY <1>1 DEF TiersInv, Reading
<1>4. /\ Sound(cache) /\ Less(cache, cache) /\ Sound(probationary)
      /\ Less(probationary, probationary)
  BY KeepsSame, Zenon
<1>5. /\ Sound(removeLocked(cache, k)) /\ Less(cache, removeLocked(cache, k))
      /\ Sound(removeLocked(probationary, k)) /\ Less(probationary, removeLocked(probationary, k))
      /\ k \notin removeLocked(cache, k).items /\ k \notin removeLocked(probationary, k).items
  <2>1. ASSUME NEW d, Sound(d)
        PROVE  /\ Sound(removeLocked(d, k)) /\ Less(d, removeLocked(d, k))
               /\ k \notin removeLocked(d, k).items
    BY <2>1, RemoveSound
  <2> QED  BY <1>4, <2>1, Zenon
<1>6. CASE rd[r].value = None
  <2>1. /\ cache' = removeLocked(cache, k) /\ probationary' = removeLocked(probationary, k)
        /\ rd' = [rd EXCEPT ![r] = Idle]
    BY <1>6, Zenon DEF Reconcile
  <2>2. Reading(Idle) /\ Idle.pc \in {"idle", "missed", "fetched"}
    BY <1>3, MissedReads, Zenon
  <2>3. \E j \in Keys : owner[j] \in {None, r} /\ owner' = [owner EXCEPT ![j] = None]
    BY <1>1, <1>3, <1>6, Zenon
  <2> QED  BY <1>1, <1>5, <2>1, <2>2, <2>3, TiersLookup, Zenon
<1>7. CASE rd[r].value # None
  <2>1. PICK pc \in {"storeLocal", "storeProbationary"} :
               /\ rd' = [rd EXCEPT ![r].pc = pc]
               /\ pc = "storeLocal" => cache' = cache /\ probationary' = removeLocked(probationary, k)
               /\ pc = "storeProbationary" => cache' = removeLocked(cache, k) /\ probationary' = probationary
    <3>1. CASE status[k] = "hot"
      <4>1. /\ rd' = [rd EXCEPT ![r].pc = "storeLocal"]
            /\ cache' = cache /\ probationary' = removeLocked(probationary, k)
        BY <1>7, <3>1, Zenon DEF Reconcile
      <4> QED  BY <4>1
    <3>2. CASE status[k] # "hot"
      <4>1. /\ rd' = [rd EXCEPT ![r].pc = "storeProbationary"]
            /\ cache' = removeLocked(cache, k) /\ probationary' = probationary
        BY <1>7, <3>2, Zenon DEF Reconcile
      <4> QED  BY <4>1
    <3> QED  BY <3>1, <3>2
  <2> DEFINE x == [rd[r] EXCEPT !.pc = pc]
  <2>2. rd' = [rd EXCEPT ![r] = x]
    BY <2>1, Zenon
  <2>3. Reading(x) /\ x.pc = pc /\ x.key = k
    BY <1>3, <1>7 DEF Reading, Fetched
  <2> HIDE DEF x
  <2>4. /\ owner' \in [Keys -> Readers \cup {None}] /\ owner'[k] = r
        /\ \A j \in Keys \ {k} : owner'[j] = owner[j]
    BY <1>1, <1>2, <1>3, <1>7
  <2>5. /\ Sound(cache') /\ Less(cache, cache') /\ Sound(probationary')
        /\ Less(probationary, probationary')
        /\ pc = "storeLocal" => k \notin probationary'.items
        /\ pc = "storeProbationary" => k \notin cache'.items
    <3>1. CASE pc = "storeLocal"
      <4>1. pc # "storeProbationary"
        BY <3>1
      <4> QED  BY <1>4, <1>5, <2>1, <3>1, <4>1, Zenon
    <3>2. CASE pc = "storeProbationary"
      <4>1. pc # "storeLocal"
        BY <3>2
      <4> QED  BY <1>4, <1>5, <2>1, <3>2, <4>1, Zenon
    <3> QED  BY <3>1, <3>2
  <2>6. rd'[r] = x
    BY <1>2, <2>2
  <2> HIDE DEF k
  <2>7. Holding(r)'
    <3>1. pc # "moving"
      OBVIOUS
    <3> QED  BY <2>3, <2>4, <2>5, <2>6, <3>1, Zenon DEF Holding
  <2>8. /\ rd' = [q \in Readers |-> rd'[q]]
        /\ \A q \in Readers : Reading(rd'[q]) /\ Holding(q)'
    <3> DEFINE K == {k}
    <3>1. /\ \A j \in cache'.items \ K : j \in cache.items
          /\ \A j \in probationary'.items \ K : j \in probationary.items
          /\ \A j \in K : owner[j] = None \/ owner[j] = r
          /\ \A j \in Keys \ K : owner'[j] = owner[j] /\ given'[j] = given[j]
      BY <1>1, <2>4, <2>5, Zenon DEF Less
    <3> HIDE DEF K
    <3> QED  BY <2>2, <2>3, <2>7, <3>1, UndisturbedAll, Zenon
  <2> QED  BY <1>1, <1>2, <2>4, <2>5, <2>8, TiersShrink, Zenon
<1> QED  BY <1>6, <1>7

LEMMA EnvironmentKept ==
  ASSUME TiersInv, Hotness \/ ApplyDemotion \/ TimePasses
  PROVE  TiersInv'
<1>1. /\ Sound(cache) /\ Less(cache, cache) /\ Sound(probationary) /\ Less(probationary, probationary)
      /\ time \in Int /\ demoted \subseteq Keys /\ config.keys \subseteq Keys
  BY KeepsSame, ConfigsTyped, Zenon DEF TiersInv
<1>2. UNCHANGED <<config, rd, owner, given>>
  BY Zenon DEF Hotness, ApplyDemotion, TimePasses
<1>3. CASE Hotness
  <2>1. UNCHANGED <<cache, probationary, time>>
    BY <1>3, Zenon DEF Hotness
  <2>2. demoted' \subseteq Keys
    BY <1>1, <1>3, Zenon DEF Hotness
  <2> QED  BY <1>1, <1>2, <2>1, <2>2, TiersQuiet, Zenon
<1>4. CASE ApplyDemotion
  <2>1. PICK k \in demoted :
               /\ demoted' = demoted \ {k} /\ UNCHANGED time
               /\ IF status[k] = "hot" THEN UNCHANGED <<cache, probationary>>
                  ELSE /\ cache' = removeLocked(cache, k)
                       /\ probationary' = removeLocked(probationary, k)
    BY <1>4, Zenon DEF ApplyDemotion
  <2>2. ASSUME NEW d, Sound(d)
        PROVE  Sound(removeLocked(d, k)) /\ Less(d, removeLocked(d, k))
    BY <2>2, RemoveSound
  <2>3. Sound(cache') /\ Less(cache, cache') /\ Sound(probationary') /\ Less(probationary, probationary')
    BY <1>1, <2>1, <2>2, Zenon
  <2>4. time' \in Int /\ demoted' \subseteq Keys
    BY <1>1, <2>1, Zenon
  <2> QED  BY <1>2, <2>3, <2>4, TiersQuiet, Zenon
<1>5. CASE TimePasses
  <2>1. UNCHANGED <<cache, probationary, demoted>> /\ time' = time + 1
    BY <1>5, Zenon DEF TimePasses
  <2>2. time' \in Int
    BY <1>1, <2>1
  <2> QED  BY <1>1, <1>2, <2>1, <2>2, TiersQuiet, Zenon
<1> QED  BY <1>3, <1>4, <1>5

LEMMA TiersStep == TiersInv /\ [TiersNext]_tierVars => TiersInv'
<1> SUFFICES ASSUME TiersInv, [TiersNext]_tierVars PROVE TiersInv'
  OBVIOUS
<1>1. CASE UNCHANGED tierVars
  <2>1. UNCHANGED <<config, cache, probationary, time, demoted, owner, rd, given>>
    BY <1>1, Zenon DEF tierVars
  <2>2. time' \in Int /\ demoted' \subseteq Keys
    BY <2>1, Zenon DEF TiersInv
  <2> QED  BY <2>1, <2>2, KeepsSame, TiersQuiet, Zenon
<1>2. CASE \E r \in Readers : \/ Hit(r) \/ Miss(r) \/ TakeCandidate(r) \/ InstallCandidate(r)
                              \/ Fetch(r) \/ Reconcile(r) \/ StoreLocal(r) \/ StoreProbationary(r)
  <2>1. PICK r \in Readers : \/ Hit(r) \/ Miss(r) \/ TakeCandidate(r) \/ InstallCandidate(r)
                             \/ Fetch(r) \/ Reconcile(r) \/ StoreLocal(r) \/ StoreProbationary(r)
    BY <1>2
  <2>2. CASE Hit(r)
    BY <2>2, HitKept
  <2>3. CASE Miss(r)
    BY <2>3, MissKept
  <2>4. CASE TakeCandidate(r)
    BY <2>4, TakeKept
  <2>5. CASE InstallCandidate(r)
    BY <2>5, InstallKept
  <2>6. CASE Fetch(r)
    BY <2>6, FetchKept
  <2>7. CASE Reconcile(r)
    BY <2>7, ReconcileKept
  <2>8. CASE StoreLocal(r)
    BY <2>8, StoreLocalKept
  <2>9. CASE StoreProbationary(r)
    BY <2>9, StoreProbationaryKept
  <2> QED  BY <2>1, <2>2, <2>3, <2>4, <2>5, <2>6, <2>7, <2>8, <2>9
<1>3. CASE Hotness \/ ApplyDemotion \/ TimePasses
  BY <1>3, EnvironmentKept
<1> QED  BY <1>1, <1>2, <1>3, Zenon DEF TiersNext

LEMMA TiersInvariant == TiersSpec => []TiersInv
BY TiersInitHolds, TiersStep, PTL DEF TiersSpec

\* The protected and the probationary tier never hold more, together, than the
\* configured bytes and entries: whatever the limits, and whatever readers, moves,
\* demotions and expiries interleave.
THEOREM BudgetAlwaysKept == TiersSpec => []BudgetKept
<1>1. ASSUME TiersInv PROVE BudgetKept
  <2> DEFINE l == Limits
  <2>1. /\ Sound(cache) /\ Within(cache) /\ cache.maxBytes = l.bytes /\ cache.maxEntries = l.entries
        /\ Sound(probationary) /\ Within(probationary)
        /\ probationary.maxBytes = l.pBytes /\ probationary.maxEntries = l.pEntries
    BY <1>1 DEF TiersInv, Fits
  <2>2. config.bytes \in Nat /\ config.entries \in Int
    BY <1>1, ConfigsTyped DEF TiersInv
  <2>3. /\ l.bytes \in Nat /\ l.pBytes \in Nat /\ l.entries \in Int /\ l.pEntries \in Int
        /\ l.bytes + l.pBytes <= config.bytes
        /\ config.entries > 0 => /\ l.entries > 0 /\ l.pEntries >= 0
                                 /\ l.entries + l.pEntries <= config.entries
                                 /\ l.pEntries = 0 => l.pBytes = 0
    BY <2>2, SplitWithin DEF Limits
  <2> HIDE DEF l
  <2>4. /\ cache.bytes \in Nat /\ Len(cache.lru) \in Nat
        /\ probationary.bytes \in Nat /\ Len(probationary.lru) \in Nat
    BY <2>1, SoundFields
  <2>5. /\ Cardinality(cache.items) = Len(cache.lru)
        /\ Cardinality(probationary.items) = Len(probationary.lru)
    BY <2>1, Counted, Zenon
  <2>6. Stats.bytes = cache.bytes + probationary.bytes
        /\ Stats.entries = Len(cache.lru) + Len(probationary.lru)
    BY <2>5 DEF Stats
  <2>7. cache.bytes <= l.bytes /\ probationary.bytes <= l.pBytes
        /\ (l.entries > 0 => Len(cache.lru) <= l.entries)
        /\ (l.pEntries > 0 => Len(probationary.lru) <= l.pEntries)
    BY <2>1, Zenon DEF Within
  <2>8. probationary.bytes = 0 => Len(probationary.lru) = 0
    <3>1. probationary.lru \in Seq(Entry) /\ probationary.bytes = SumSizes(probationary.lru)
      BY <2>1, SoundFields DEF Sound
    <3>2. Len(probationary.lru) > 0 => SumSizes(probationary.lru) > 0
      BY <3>1, SumFacts, Zenon
    <3> QED  BY <2>4, <3>1, <3>2
  <2>9. Stats.bytes <= config.bytes
    BY <2>2, <2>3, <2>4, <2>6, <2>7
  <2>10. config.entries > 0 => Stats.entries <= config.entries
    <3> DEFINE m == Len(cache.lru)
               n == Len(probationary.lru)
               b == probationary.bytes
               all == config.entries
    <3>1. /\ m \in Nat /\ n \in Nat /\ b \in Nat /\ all \in Int
          /\ l.entries \in Int /\ l.pEntries \in Int /\ l.pBytes \in Nat
          /\ all > 0 => /\ l.entries > 0 /\ l.pEntries >= 0 /\ l.entries + l.pEntries <= all
                        /\ l.pEntries = 0 => l.pBytes = 0
          /\ b <= l.pBytes /\ (l.entries > 0 => m <= l.entries) /\ (l.pEntries > 0 => n <= l.pEntries)
          /\ b = 0 => n = 0
      BY <2>2, <2>3, <2>4, <2>7, <2>8, Zenon
    <3> HIDE DEF m, n, b, all
    <3>2. all > 0 => m + n <= all
      BY <3>1
    <3> QED  BY <2>6, <3>2, Zenon DEF m, n, all
  <2> QED  BY <2>9, <2>10 DEF BudgetKept
<1> QED  BY <1>1, TiersInvariant, PTL

\* Whatever happens between the two halves of a move or of a store, no entry of
\* either tier expires later than the last store gave its key.
THEOREM ExpiryAlwaysPreserved == TiersSpec => []ExpiryPreserved
<1>1. ASSUME TiersInv PROVE ExpiryPreserved
  BY <1>1, Zenon DEF TiersInv, Expires, ExpiryPreserved
<1> QED  BY <1>1, TiersInvariant, PTL
=============================================================================
