------------------------------ MODULE LruCache -------------------------------
(***************************************************************************)
(* One cache.Cache shared by concurrent callers.  Put, PutUntil, Get and   *)
(* GetStale read the clock before they take c.mu, so their clock reading   *)
(* may be old by the time it is used: such a call is two steps, the first  *)
(* of which leaves the locked part in `call'.                              *)
(***************************************************************************)
EXTENDS Lru

CONSTANTS
  Callers,
  Scenarios,  \* [keys, callers, values, maxBytes, maxEntries, staleGrace, maxTime]
  Absent      \* no call, no entry

ASSUME ScenariosAssumption ==
  \A s \in Scenarios :
    /\ s.keys \subseteq Keys /\ s.callers \subseteq Callers
    /\ s.values \subseteq Nat /\ s.maxBytes \in Nat /\ s.maxEntries \in Int
    /\ s.staleGrace \in Nat /\ s.maxTime \in Nat

VARIABLES
  scene,  \* the configuration and the bounds, chosen at the start and fixed
  c,      \* the cache
  clock,
  call    \* what each caller does once it holds the lock

vars == <<c, clock, call>>

Values == scene.values          \* lengths of the values stored
MaxBytes == scene.maxBytes
MaxEntries == scene.maxEntries
StaleGrace == scene.staleGrace  \* grace of GetStale; 0 when stale fallback is off
MaxTime == scene.maxTime        \* bound on the clock

TTLs == {0, 1}                  \* durations given to Put
MaxExpiry == MaxTime + Max(TTLs)

Locked == [op : {"put"}, key : Keys, value : Values, expiresAt : 0 .. MaxExpiry]
          \cup [op : {"delete"}, key : Keys]
          \cup [op : {"get"}, key : Keys, now : 0 .. MaxTime, grace : {0, StaleGrace},
                allowStale : BOOLEAN]

Init ==
  /\ scene \in Scenarios
  /\ c = New(MaxBytes, MaxEntries)
  /\ clock = 0
  /\ call = [p \in Callers |-> Absent]

Begin(p, locked) ==
  /\ call[p] = Absent
  /\ call' = [call EXCEPT ![p] = locked]
  /\ UNCHANGED <<c, clock>>

\* A duration that is not positive returns before anything is read.
Put(p) ==
  \E key \in scene.keys, value \in Values, ttl \in TTLs :
    /\ ttl > 0
    /\ Begin(p, [op |-> "put", key |-> key, value |-> value, expiresAt |-> clock + ttl])

PutUntil(p) ==
  \E key \in scene.keys, value \in Values, expiresAt \in 0 .. MaxExpiry :
    Begin(p, IF clock >= expiresAt
             THEN [op |-> "delete", key |-> key]
             ELSE [op |-> "put", key |-> key, value |-> value, expiresAt |-> expiresAt])

Lookup(p, grace, allowStale) ==
  \E key \in scene.keys :
    Begin(p, [op |-> "get", key |-> key, now |-> clock, grace |-> grace,
              allowStale |-> allowStale])

Get(p) == StaleGrace = 0 /\ Lookup(p, 0, FALSE)

\* GetStale(key, 0) before the origin is asked, GetStale(key, grace) after it failed.
GetStale(p) == StaleGrace > 0 /\ \E grace \in {0, StaleGrace} : Lookup(p, grace, TRUE)

Outcome(req) ==
  CASE req.op = "put"    -> put(c, req.key, req.value, req.expiresAt)
    [] req.op = "delete" -> removeLocked(c, req.key)
    [] req.op = "get"    -> get(c, req.key, req.now, req.grace, req.allowStale)

RunLocked(p) ==
  /\ call[p] # Absent
  /\ c' = Outcome(call[p])
  /\ call' = [call EXCEPT ![p] = Absent]
  /\ UNCHANGED clock

Whole(cache) == c' = cache /\ UNCHANGED <<clock, call>>

Delete == \E key \in scene.keys : Whole(removeLocked(c, key))

PurgeCache == Whole(Purge(c))

CloseCache == Whole(Close(c))

Tick == clock < MaxTime /\ clock' = clock + 1 /\ UNCHANGED <<c, call>>

Next ==
  \/ \E p \in scene.callers : Put(p) \/ PutUntil(p) \/ Get(p) \/ GetStale(p) \/ RunLocked(p)
  \/ Delete \/ PurgeCache \/ CloseCache \/ Tick

Spec == Init /\ [][Next /\ UNCHANGED scene]_<<vars, scene>>

-----------------------------------------------------------------------------

KeysOf(lru) == {lru[i].key : i \in DOMAIN lru}

SumSizes(lru) ==
  LET sum[n \in 0 .. Len(lru)] == IF n = 0 THEN 0 ELSE sum[n - 1] + lru[n].estimatedSize
  IN  sum[Len(lru)]

TypeOK ==
  /\ scene \in Scenarios
  /\ c.items \subseteq Keys /\ c.bytes \in Nat /\ c.closed \in BOOLEAN
  /\ c.lru \in Seq([key : Keys, value : Values, expiresAt : 0 .. MaxExpiry, estimatedSize : Nat])
  /\ clock \in 0 .. MaxTime
  /\ call \in [Callers -> Locked \cup {Absent}]

\* The map, the list and the byte count agree after any sequence of calls: every
\* mapped key is in the list exactly once and bytes is the sum of the sizes.  No
\* caller ever finds the cache above either limit, maxEntries <= 0 being no limit
\* on entries (the comment of New).
Accounted ==
  /\ TypeOK
  /\ c.items = KeysOf(c.lru)
  /\ Len(c.lru) = Cardinality(c.items)
  /\ c.bytes = SumSizes(c.lru) /\ c.bytes <= MaxBytes
  /\ MaxEntries > 0 => Len(c.lru) <= MaxEntries

\* The call p is about to run, or has just run in the step.
Ran(p, op) == call[p] # Absent /\ call[p].op = op /\ call'[p] = Absent

\* A put that enforceLimitsLocked follows keeps the entry it has just stored, and
\* evicts others from the back only, one at a time until both limits hold.
EvictsOldestOnly ==
  [][\A p \in Callers :
       LET key  == call[p].key
           old  == Without(c, key)
           kept == Tail(c'.lru)
       IN  Ran(p, "put") /\ Admits(c, EstimateSize(key, call[p].value)) =>
             /\ c'.lru # <<>> /\ Head(c'.lru).key = key
             /\ \E n \in 0 .. Len(old) : kept = SubSeq(old, 1, n)
             /\ kept # old =>
                  OverLimit([c' EXCEPT !.items = @ \cup {old[Len(kept) + 1].key},
                                       !.bytes = @ + old[Len(kept) + 1].estimatedSize])]_vars

\* A lookup removes an entry only when nobody can be given it any more, not even
\* for stale fallback: its clock reading may be older than the entry it meets, but
\* then errs towards keeping, and a read of fresh values leaves what has expired.
LookupKeepsUsable ==
  [][\A p \in Callers : Ran(p, "get") =>
       \A k \in c.items \ c'.items : EntryOf(c, k).expiresAt + StaleGrace <= clock]_vars

\* What a call may cost the cache: a put the oldest entries, as many as the limits
\* require, and a lookup an entry that is past all use.
LossesJustified == EvictsOldestOnly /\ LookupKeepsUsable

\* The cache implements the lossy map that the Service module takes a tier to be.
Abstract == INSTANCE Tier WITH
  Entries <- UNION {s.values \X (0 .. s.maxTime + Max(TTLs)) : s \in Scenarios},
  tier <- [k \in Keys |-> IF k \in c.items THEN <<EntryOf(c, k).value, EntryOf(c, k).expiresAt>>
                                           ELSE Absent],
  shut <- c.closed

\* Every step of the cache is a step of that map, or leaves it as it is.
ImplementsTier == Abstract!Spec
=============================================================================
