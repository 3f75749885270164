--------------------------------- MODULE Lru ---------------------------------
(***************************************************************************)
(* The operations of internal/cache/cache.go, each as a function from the  *)
(* state of a Cache to its state after the section under c.mu.  A value is *)
(* abstracted to its length, a time to a natural number.  What only        *)
(* snapshots and metrics report (insertedAt, lastAccess, evictions) is     *)
(* left out.                                                               *)
(***************************************************************************)
EXTENDS Integers, Sequences, FiniteSetsExt

CONSTANTS
  Keys,    \* non-empty keys
  KeyLen   \* [Keys -> Nat], len(key)

ASSUME KeyLenAssumption == KeyLen \in [Keys -> Nat]

entryOverheadBytes == 128

EstimateSize(key, value) == KeyLen[key] + value + entryOverheadBytes

\* New: a negative byte bound becomes zero, which admits nothing.
New(maxBytes, maxEntries) ==
  [maxBytes   |-> IF maxBytes < 0 THEN 0 ELSE maxBytes,
   maxEntries |-> maxEntries,
   items      |-> {},
   lru        |-> <<>>,
   bytes      |-> 0,
   closed     |-> FALSE]

\* c.items[key], for a key of the map, and its Value; the front of lru is its head.
Position(c, key) == CHOOSE i \in DOMAIN c.lru : c.lru[i].key = key

EntryOf(c, key) == c.lru[Position(c, key)]

\* list.Remove of the i-th element.
Unlinked(lru, i) == SubSeq(lru, 1, i - 1) \o SubSeq(lru, i + 1, Len(lru))

Without(c, key) == IF key \in c.items THEN Unlinked(c.lru, Position(c, key)) ELSE c.lru

removeLockedKeepsBytes(c, key) ==
  [c EXCEPT !.items = @ \ {key}, !.lru = Without(c, key)]

removeLocked(c, key) ==
  IF key \notin c.items THEN c
  ELSE [c EXCEPT !.items = @ \ {key},
                 !.lru   = Without(c, key),
                 !.bytes = @ - EntryOf(c, key).estimatedSize]

OverLimit(c) ==
  c.bytes > c.maxBytes \/ (c.maxEntries > 0 /\ Cardinality(c.items) > c.maxEntries)

\* The back of the list, the next victim.
Oldest(c) == c.lru[Len(c.lru)]

\* after[n] is the cache after n turns of the loop.
enforceLimitsLocked(c) ==
  LET after[n \in 0 .. Len(c.lru)] ==
        IF n = 0 THEN c ELSE removeLocked(after[n - 1], Oldest(after[n - 1]).key)
      Over(n) == OverLimit(after[n]) /\ after[n].lru # <<>>
      turns == CHOOSE n \in 0 .. Len(c.lru) : ~Over(n) /\ \A m \in 0 .. n - 1 : Over(m)
  IN  after[turns]

AdmitsClosed(c, size) == c.maxBytes > 0 /\ size <= c.maxBytes

Admits(c, size) == ~c.closed /\ c.maxBytes > 0 /\ size <= c.maxBytes

\* put: the entry, new or replaced, goes to the front and the limits are
\* enforced; what cannot be stored removes the entry it was to replace.
put(c, key, value, expiresAt) ==
  LET size == EstimateSize(key, value)
      ent  == [key |-> key, value |-> value, expiresAt |-> expiresAt, estimatedSize |-> size]
      rest == removeLocked(c, key)
  IN  IF ~Admits(c, size) THEN rest
      ELSE enforceLimitsLocked([rest EXCEPT !.items = @ \cup {key},
                                            !.lru   = <<ent>> \o @,
                                            !.bytes = @ + size])

RemovesWhenNotFresh(allowStale, grace) == TRUE

\* The fresh-read path of a cache with stale fallback keeps what has expired.
RemovesExpired(allowStale, grace) == ~allowStale \/ grace # 0

\* get: is the entry usable at now, and the cache after the lookup.
Usable(c, key, now, grace, allowStale) ==
  /\ key \in c.items
  /\ now < EntryOf(c, key).expiresAt + (IF allowStale THEN grace ELSE 0)

get(c, key, now, grace, allowStale) ==
  IF key \notin c.items THEN c
  ELSE IF Usable(c, key, now, grace, allowStale)
       THEN [c EXCEPT !.lru = <<EntryOf(c, key)>> \o Without(c, key)]
       ELSE IF RemovesExpired(allowStale, grace) THEN removeLocked(c, key) ELSE c

Purge(c) == [c EXCEPT !.items = {}, !.lru = <<>>, !.bytes = 0]

Close(c) == [Purge(c) EXCEPT !.closed = TRUE]
=============================================================================
