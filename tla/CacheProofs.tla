----------------------------- MODULE CacheProofs -----------------------------
(***************************************************************************)
(* Proofs about internal/cache, for every set of keys and callers, every   *)
(* size and every limit: what the operations of Lru do to one cache, then  *)
(* its accounting, what it may lose and that it implements Tier.           *)
(***************************************************************************)
EXTENDS LruCache, FiniteSetTheorems, TLAPS

(***************************************************************************)
(* Induction and iteration.                                                *)
(***************************************************************************)

\* A nonempty set of naturals has a least element.
LEMMA LeastNatural ==
  ASSUME NEW S, S \subseteq Nat, S # {}
  PROVE  \E x \in S : \A y \in S : x <= y
<1> DEFINE R == {p \in Nat \X Nat : p[1] < p[2]}
<1>1. IsWellFoundedOn(R, Nat)
  BY NatLessThanWellFounded, Zenon DEF OpToRel
<1>2. PICK x \in S : \A y \in S : <<y, x>> \notin R
  <2> HIDE DEF R
  <2> QED  BY <1>1, WFMin, Zenon
<1>3. ASSUME NEW y \in S  PROVE x <= y
  <2>1. x \in Nat /\ y \in Nat
    OBVIOUS
  <2>2. <<y, x>> \in Nat \X Nat /\ <<y, x>>[1] = y /\ <<y, x>>[2] = x
    BY <2>1
  <2>3. ~(y < x)
    BY <1>2, <2>2, Zenon
  <2> QED  BY <2>1, <2>3
<1> QED  BY <1>3

\* A set with zero and the successors of its elements has every natural number.
LEMMA Inductive ==
  ASSUME NEW G, 0 \in G, \A n \in Nat : n \in G => n + 1 \in G
  PROVE  \A n \in Nat : n \in G
<1> SUFFICES ASSUME Nat \ G # {} PROVE FALSE  OBVIOUS
<1>1. PICK x \in Nat \ G : \A y \in Nat \ G : x <= y
  BY LeastNatural, Zenon
<1>2. x - 1 \in Nat
  BY <1>1
<1>3. x - 1 \in G
  BY <1>1, <1>2
<1>4. (x - 1) + 1 \in G
  BY <1>2, <1>3
<1>5. (x - 1) + 1 = x
  BY <1>1
<1> QED  BY <1>1, <1>4, <1>5

\* N functions from a set to itself, and a value of the set.
Functions(N, V, v, F) == N \in Nat /\ v \in V /\ F \in [1 .. N -> [V -> V]]

\* The values they lead to from there, applied one after the other.
Iterates(N, V, v, F) ==
  \E g \in [0 .. N -> V] : g[0] = v /\ \A n \in 1 .. N : g[n] = F[n][g[n - 1]]

LEMMA Iteration ==
  ASSUME NEW N, NEW V, NEW v, NEW F, Functions(N, V, v, F)
  PROVE  Iterates(N, V, v, F)
<1> USE DEF Functions
<1> DEFINE Reach(m, g) == g[0] = v /\ \A n \in 1 .. m : g[n] = F[n][g[n - 1]]
           G == {m \in Nat : m <= N => \E g \in [0 .. m -> V] : Reach(m, g)}
<1>1. 0 \in G
  <2>1. [n \in 0 .. 0 |-> v] \in [0 .. 0 -> V] /\ Reach(0, [n \in 0 .. 0 |-> v])
    OBVIOUS
  <2> QED  BY <2>1, Zenon
<1>2. ASSUME NEW m \in Nat, m \in G  PROVE m + 1 \in G
  <2> SUFFICES ASSUME m + 1 <= N PROVE \E g \in [0 .. m + 1 -> V] : Reach(m + 1, g)
    OBVIOUS
  <2>1. PICK g \in [0 .. m -> V] : Reach(m, g)
    BY <1>2
  <2> DEFINE h == [n \in 0 .. m + 1 |-> IF n <= m THEN g[n] ELSE F[m + 1][g[m]]]
  <2>2. F[m + 1][g[m]] \in V
    <3>1. m + 1 \in 1 .. N /\ m \in 0 .. m
      OBVIOUS
    <3>2. F[m + 1] \in [V -> V] /\ g[m] \in V
      BY <3>1
    <3> QED  BY <3>2
  <2>3. h \in [0 .. m + 1 -> V]
    BY <2>2
  <2>4. h[0] = v
    BY <2>1
  <2>5. ASSUME NEW n \in 1 .. m + 1  PROVE h[n] = F[n][h[n - 1]]
    <3>1. n - 1 \in 0 .. m + 1 /\ n - 1 <= m /\ n \in 0 .. m + 1
      OBVIOUS
    <3>2. h[n - 1] = g[n - 1]
      BY <3>1
    <3>3. CASE n <= m
      BY <2>1, <3>1, <3>2, <3>3
    <3>4. CASE n = m + 1
      BY <3>1, <3>2, <3>4
    <3> QED  BY <3>3, <3>4
  <2> QED  BY Zenon, <2>3, <2>4, <2>5
<1> HIDE DEF G
<1>3. N \in G
  BY <1>1, <1>2, Inductive
<1>4. N <= N
  OBVIOUS
<1> QED  BY <1>3, <1>4, Zenon DEF G, Iterates

(***************************************************************************)
(* The sum of the sizes of a list.                                         *)
(***************************************************************************)
Entry == [key : Keys, value : Nat, expiresAt : Int, estimatedSize : Nat \ {0}]

\* sum[n] is the size of the first n entries.
Sums(s, sum) ==
  sum[0] = 0 /\ \A n \in 1 .. Len(s) : sum[n] = sum[n - 1] + s[n].estimatedSize

LEMMA SumsExist ==
  ASSUME NEW s \in Seq(Entry)
  PROVE  \E sum \in [0 .. Len(s) -> Nat] : Sums(s, sum)
<1> DEFINE F == [n \in 1 .. Len(s) |-> [x \in Nat |-> x + s[n].estimatedSize]]
<1>1. F \in [1 .. Len(s) -> [Nat -> Nat]]
  <2>1. \A n \in 1 .. Len(s) : s[n] \in Entry
    OBVIOUS
  <2>2. \A n \in 1 .. Len(s) : s[n].estimatedSize \in Nat
    BY <2>1 DEF Entry
  <2>3. \A n \in 1 .. Len(s) : [x \in Nat |-> x + s[n].estimatedSize] \in [Nat -> Nat]
    BY <2>2
  <2> QED  BY <2>3, Zenon
<1>2. Len(s) \in Nat
  OBVIOUS
<1>3. \A n \in 1 .. Len(s), x \in Nat : F[n][x] = x + s[n].estimatedSize
  OBVIOUS
<1> HIDE DEF F
<1>4. PICK g \in [0 .. Len(s) -> Nat] :
        g[0] = 0 /\ \A n \in 1 .. Len(s) : g[n] = F[n][g[n - 1]]
  <2>1. Functions(Len(s), Nat, 0, F)
    BY <1>1, <1>2 DEF Functions
  <2>2. Iterates(Len(s), Nat, 0, F)
    BY <2>1, Iteration, Zenon
  <2> QED  BY <2>2, Zenon DEF Iterates
<1>5. ASSUME NEW n \in 1 .. Len(s)
      PROVE  g[n] = g[n - 1] + s[n].estimatedSize
  <2>1. n - 1 \in 0 .. Len(s)
    BY <1>2
  <2> QED  BY <1>3, <1>4, <2>1
<1> QED  BY <1>4, <1>5 DEF Sums

LEMMA SumsAgree ==
  ASSUME NEW s \in Seq(Entry), NEW f, NEW g, Sums(s, f), Sums(s, g)
  PROVE  \A n \in 0 .. Len(s) : f[n] = g[n]
<1> DEFINE G == {n \in Nat : n <= Len(s) => f[n] = g[n]}
<1>1. 0 \in G
  BY DEF Sums
<1>2. ASSUME NEW n \in Nat, n \in G  PROVE n + 1 \in G
  <2> SUFFICES ASSUME n + 1 <= Len(s) PROVE f[n + 1] = g[n + 1]
    OBVIOUS
  <2>1. n + 1 \in 1 .. Len(s) /\ (n + 1) - 1 = n /\ n <= Len(s)
    OBVIOUS
  <2>2. f[n] = g[n]
    BY <1>2, <2>1
  <2> QED  BY <2>1, <2>2, Zenon DEF Sums
<1> HIDE DEF G
<1>3. \A n \in Nat : n \in G
  BY <1>1, <1>2, Inductive
<1> QED  BY <1>3 DEF G

\* SumSizes is what any running total of the sizes comes to.
LEMMA SumSizesIs ==
  ASSUME NEW s \in Seq(Entry), NEW sum, Sums(s, sum)
  PROVE  SumSizes(s) = sum[Len(s)]
<1> DEFINE Body(f) == [n \in 0 .. Len(s) |-> IF n = 0 THEN 0 ELSE f[n - 1] + s[n].estimatedSize]
           chosen == CHOOSE f : f = Body(f)
<1>1. PICK g \in [0 .. Len(s) -> Nat] : Sums(s, g)
  BY SumsExist
<1>2. g = Body(g)
  BY <1>1 DEF Sums
<1>3. chosen = Body(chosen)
  <2> HIDE DEF Body
  <2> QED  BY <1>2
<1>4. Sums(s, chosen)
  <2> HIDE DEF chosen
  <2>1. 0 \in 0 .. Len(s) /\ \A n \in 1 .. Len(s) : n \in 0 .. Len(s) /\ n # 0
    OBVIOUS
  <2>2. \A n \in 0 .. Len(s) : chosen[n] = IF n = 0 THEN 0 ELSE chosen[n - 1] + s[n].estimatedSize
    BY <1>3, Zenon
  <2> QED  BY <2>1, <2>2, Zenon DEF Sums
<1>5. SumSizes(s) = chosen[Len(s)]
  BY Zenon DEF SumSizes
<1>6. Len(s) \in 0 .. Len(s)
  OBVIOUS
<1> HIDE DEF chosen
<1> QED  BY <1>4, <1>5, <1>6, SumsAgree

LEMMA SumFacts ==
  ASSUME NEW s \in Seq(Entry)
  PROVE  /\ SumSizes(s) \in Nat
         /\ Len(s) = 0 => SumSizes(s) = 0
         /\ Len(s) > 0 => SumSizes(s) > 0
         /\ Len(s) = 1 => SumSizes(s) = s[1].estimatedSize
<1>1. PICK sum \in [0 .. Len(s) -> Nat] : Sums(s, sum)
  BY SumsExist
<1>2. SumSizes(s) = sum[Len(s)]
  BY <1>1, SumSizesIs
<1>3. Len(s) \in Nat
  OBVIOUS
<1>4. CASE Len(s) = 0
  BY <1>1, <1>2, <1>4 DEF Sums
<1>5. CASE Len(s) > 0
  <2>1. Len(s) \in 1 .. Len(s) /\ Len(s) - 1 \in 0 .. Len(s)
    BY <1>3, <1>5
  <2>2. s[Len(s)] \in Entry
    BY <2>1
  <2>3. s[Len(s)].estimatedSize \in Nat \ {0}
    BY <2>2 DEF Entry
  <2>4. sum[Len(s)] = sum[Len(s) - 1] + s[Len(s)].estimatedSize /\ sum[0] = 0
    BY <1>1, <2>1 DEF Sums
  <2>5. sum[Len(s) - 1] \in Nat
    BY <2>1
  <2> QED  BY <1>2, <1>3, <1>5, <2>3, <2>4, <2>5
<1> QED  BY <1>3, <1>4, <1>5

\* An entry at the front.
LEMMA Pushed ==
  ASSUME NEW s \in Seq(Entry), NEW e \in Entry
  PROVE  /\ <<e>> \o s \in Seq(Entry)
         /\ Len(<<e>> \o s) = Len(s) + 1
         /\ (<<e>> \o s)[1] = e
         /\ \A i \in 1 .. Len(s) : (<<e>> \o s)[i + 1] = s[i]
         /\ SumSizes(<<e>> \o s) = e.estimatedSize + SumSizes(s)
<1> DEFINE t == <<e>> \o s
<1>1. /\ t \in Seq(Entry) /\ Len(t) = Len(s) + 1 /\ t[1] = e
      /\ \A i \in 1 .. Len(s) : t[i + 1] = s[i]
  OBVIOUS
<1> HIDE DEF t
<1>2. PICK sum \in [0 .. Len(s) -> Nat] : Sums(s, sum)
  BY SumsExist
<1> DEFINE more == [n \in 0 .. Len(t) |-> IF n = 0 THEN 0 ELSE e.estimatedSize + sum[n - 1]]
<1>3. Len(s) \in Nat /\ e.estimatedSize \in Nat
  BY DEF Entry
<1>4. Sums(t, more)
  <2>1. more[0] = 0
    BY <1>1, <1>3
  <2>2. ASSUME NEW n \in 1 .. Len(t)
        PROVE  more[n] = more[n - 1] + t[n].estimatedSize
    <3>1. n - 1 \in 0 .. Len(s) /\ n \in 0 .. Len(t) /\ n - 1 \in 0 .. Len(t) /\ n # 0
      BY <1>1, <1>3
    <3>2. more[n] = e.estimatedSize + sum[n - 1]
      BY <3>1
    <3>3. CASE n = 1
      BY <1>1, <1>2, <1>3, <3>1, <3>2, <3>3 DEF Sums
    <3>4. CASE n # 1
      <4>1. n - 1 \in 1 .. Len(s) /\ n - 1 # 0 /\ (n - 1) + 1 = n
        BY <1>1, <1>3, <3>4
      <4>2. t[n] = s[n - 1]
        BY <1>1, <4>1
      <4>3. sum[n - 1] = sum[(n - 1) - 1] + s[n - 1].estimatedSize
        BY <1>2, <4>1, Zenon DEF Sums
      <4>4. more[n - 1] = e.estimatedSize + sum[(n - 1) - 1]
        BY <3>1, <4>1
      <4>5. sum[(n - 1) - 1] \in Nat /\ s[n - 1].estimatedSize \in Nat
        <5>1. (n - 1) - 1 \in 0 .. Len(s) /\ s[n - 1] \in Entry
          BY <1>3, <4>1
        <5> QED  BY <5>1 DEF Entry
      <4> QED  BY <1>3, <3>2, <4>2, <4>3, <4>4, <4>5
    <3> QED  BY <3>3, <3>4
  <2> HIDE DEF more
  <2> QED  BY <2>1, <2>2 DEF Sums
<1>5. SumSizes(t) = more[Len(t)]
  <2> HIDE DEF more
  <2> QED  BY <1>1, <1>4, SumSizesIs
<1>6. SumSizes(s) = sum[Len(s)]
  BY <1>2, SumSizesIs
<1>7. more[Len(t)] = e.estimatedSize + sum[Len(s)]
  BY <1>1, <1>3
<1> HIDE DEF more
<1>8. SumSizes(t) = e.estimatedSize + SumSizes(s)
  BY <1>5, <1>6, <1>7
<1> QED  BY <1>1, <1>8 DEF t

\* An entry taken out of the list.
LEMMA Extracted ==
  ASSUME NEW s \in Seq(Entry), NEW p \in 1 .. Len(s)
  PROVE  /\ Unlinked(s, p) \in Seq(Entry)
         /\ Len(Unlinked(s, p)) = Len(s) - 1
         /\ \A j \in 1 .. Len(s) - 1 : Unlinked(s, p)[j] = IF j < p THEN s[j] ELSE s[j + 1]
         /\ SumSizes(Unlinked(s, p)) = SumSizes(s) - s[p].estimatedSize
<1> DEFINE t == Unlinked(s, p)
<1>1. /\ t \in Seq(Entry) /\ Len(t) = Len(s) - 1
      /\ \A j \in 1 .. Len(s) - 1 : t[j] = IF j < p THEN s[j] ELSE s[j + 1]
  <2> DEFINE a == SubSeq(s, 1, p - 1)
             b == SubSeq(s, p + 1, Len(s))
  <2>1. a \in Seq(Entry) /\ Len(a) = p - 1 /\ \A j \in 1 .. p - 1 : a[j] = s[j]
    OBVIOUS
  <2>2. b \in Seq(Entry) /\ Len(b) = Len(s) - p /\ \A j \in 1 .. Len(s) - p : b[j] = s[p + j]
    OBVIOUS
  <2>3. t = a \o b
    BY Zenon DEF Unlinked
  <2> HIDE DEF t, a, b
  <2>4. t \in Seq(Entry) /\ Len(t) = Len(s) - 1
    BY <2>1, <2>2, <2>3
  <2>5. ASSUME NEW j \in 1 .. Len(s) - 1
        PROVE  t[j] = IF j < p THEN s[j] ELSE s[j + 1]
    <3>1. CASE j < p
      <4>1. j \in 1 .. Len(a)
        BY <2>1, <3>1
      <4>2. t[j] = a[j]
        BY <2>1, <2>2, <2>3, <4>1
      <4> QED  BY <2>1, <3>1, <4>1, <4>2
    <3>2. CASE ~(j < p)
      <4>1. j - Len(a) \in 1 .. Len(b) /\ p + (j - Len(a)) = j + 1 /\ j \in Len(a) + 1 .. Len(a) + Len(b)
        BY <2>1, <2>2, <3>2
      <4>2. t[j] = b[j - Len(a)]
        BY <2>1, <2>2, <2>3, <4>1
      <4>3. b[j - Len(a)] = s[p + (j - Len(a))]
        BY <2>2, <4>1, Zenon
      <4> QED  BY <3>2, <4>1, <4>2, <4>3
    <3> QED  BY <3>1, <3>2
  <2> QED  BY <2>4, <2>5
<1> HIDE DEF t
<1>2. PICK sum \in [0 .. Len(s) -> Nat] : Sums(s, sum)
  BY SumsExist
<1> DEFINE less == [n \in 0 .. Len(t) |-> IF n < p THEN sum[n] ELSE sum[n + 1] - s[p].estimatedSize]
<1>3. Len(s) \in Nat /\ s[p].estimatedSize \in Nat /\ p \in 1 .. Len(s)
  <2>1. s[p] \in Entry /\ Len(s) \in Nat
    OBVIOUS
  <2> QED  BY <2>1 DEF Entry
<1>4. Sums(t, less)
  <2>1. less[0] = 0
    BY <1>1, <1>2, <1>3 DEF Sums
  <2>2. ASSUME NEW n \in 1 .. Len(t)
        PROVE  less[n] = less[n - 1] + t[n].estimatedSize
    <3>1. /\ n \in 1 .. Len(s) - 1 /\ n + 1 \in 1 .. Len(s) /\ n \in 1 .. Len(s)
          /\ n \in 0 .. Len(t) /\ n - 1 \in 0 .. Len(t) /\ n - 1 \in 0 .. Len(s)
          /\ n \in 0 .. Len(s) /\ n + 1 \in 0 .. Len(s) /\ (n + 1) - 1 = n /\ (n - 1) + 1 = n
      BY <1>1, <1>3
    <3>2. sum[n - 1] \in Nat /\ sum[n] \in Nat /\ sum[n + 1] \in Nat
      BY <3>1
    <3>3. s[n].estimatedSize \in Nat /\ s[n + 1].estimatedSize \in Nat
      <4>1. s[n] \in Entry /\ s[n + 1] \in Entry
        BY <3>1
      <4> QED  BY <4>1, Zenon DEF Entry
    <3>4. sum[n] = sum[n - 1] + s[n].estimatedSize /\ sum[n + 1] = sum[n] + s[n + 1].estimatedSize
      <4>1. sum[n + 1] = sum[(n + 1) - 1] + s[n + 1].estimatedSize
        BY <1>2, <3>1, Zenon DEF Sums
      <4>2. sum[n] = sum[n - 1] + s[n].estimatedSize
        BY <1>2, <3>1, Zenon DEF Sums
      <4> QED  BY <3>1, <4>1, <4>2
    <3> DEFINE x == sum[n - 1]
               y == sum[n]
               z == sum[n + 1]
               u == s[n].estimatedSize
               v == s[n + 1].estimatedSize
               w == s[p].estimatedSize
    <3>5. less[n] = (IF n < p THEN y ELSE z - w) /\ less[n - 1] = IF n - 1 < p THEN x ELSE y - w
      BY <3>1
    <3>6. t[n].estimatedSize = IF n < p THEN u ELSE v
      BY <1>1, <3>1, Zenon
    <3>7. n = p => u = w
      OBVIOUS
    <3>8. /\ x \in Nat /\ y \in Nat /\ z \in Nat /\ u \in Nat /\ v \in Nat /\ w \in Nat
          /\ y = x + u /\ z = y + v
      BY <1>3, <3>2, <3>3, <3>4
    <3> HIDE DEF less, x, y, z, u, v, w
    <3> QED  BY <1>3, <3>1, <3>5, <3>6, <3>7, <3>8
  <2> HIDE DEF less
  <2> QED  BY <2>1, <2>2 DEF Sums
<1>5. SumSizes(t) = less[Len(t)]
  <2> HIDE DEF less
  <2> QED  BY <1>1, <1>4, SumSizesIs
<1>6. SumSizes(s) = sum[Len(s)]
  BY <1>2, SumSizesIs
<1>7. less[Len(t)] = sum[Len(s)] - s[p].estimatedSize
  <2>1. Len(t) \in 0 .. Len(t) /\ Len(t) + 1 = Len(s)
    BY <1>1, <1>3
  <2>2. CASE Len(t) < p
    <3>1. p = Len(s) /\ Len(t) = Len(s) - 1
      BY <1>1, <1>3, <2>2
    <3>2. sum[Len(s)] = sum[Len(s) - 1] + s[Len(s)].estimatedSize
      BY <1>2, <1>3, <3>1, Zenon DEF Sums
    <3>3. sum[Len(s) - 1] \in Nat
      BY <1>3
    <3> QED  BY <1>3, <2>1, <2>2, <3>1, <3>2, <3>3
  <2>3. CASE ~(Len(t) < p)
    BY <2>1, <2>3
  <2> QED  BY <2>2, <2>3
<1> HIDE DEF less
<1>8. SumSizes(t) = SumSizes(s) - s[p].estimatedSize
  BY <1>5, <1>6, <1>7
<1> QED  BY <1>1, <1>8 DEF t

(***************************************************************************)
(* A cache whose map, list and byte count agree.                           *)
(***************************************************************************)
CacheType == [maxBytes : Nat, maxEntries : Int, items : SUBSET Keys, lru : Seq(Entry),
              bytes : Int, closed : BOOLEAN]

Distinct(s) == \A i, j \in 1 .. Len(s) : s[i].key = s[j].key => i = j

Sound(d) ==
  /\ d \in CacheType
  /\ d.items = KeysOf(d.lru) /\ Distinct(d.lru)
  /\ d.bytes = SumSizes(d.lru)

Within(d) ==
  d.bytes <= d.maxBytes /\ (d.maxEntries > 0 => Len(d.lru) <= d.maxEntries)

\* e is d without some of its entries.
Less(d, e) ==
  /\ e.maxBytes = d.maxBytes /\ e.maxEntries = d.maxEntries /\ e.closed = d.closed
  /\ e.bytes <= d.bytes /\ Len(e.lru) <= Len(d.lru)
  /\ \A k \in e.items : k \in d.items /\ EntryOf(e, k) = EntryOf(d, k)

LEMMA SoundFields ==
  ASSUME NEW d, Sound(d)
  PROVE  /\ d.lru \in Seq(Entry) /\ Len(d.lru) \in Nat /\ DOMAIN d.lru = 1 .. Len(d.lru)
         /\ d.maxBytes \in Nat /\ d.maxEntries \in Int /\ d.bytes \in Nat
         /\ d.items \in SUBSET Keys /\ d.closed \in BOOLEAN
<1>1. /\ d.lru \in Seq(Entry) /\ d.maxBytes \in Nat /\ d.maxEntries \in Int
      /\ d.items \in SUBSET Keys /\ d.closed \in BOOLEAN
  BY DEF Sound, CacheType
<1>2. Len(d.lru) \in Nat /\ DOMAIN d.lru = 1 .. Len(d.lru)
  BY <1>1
<1>3. d.bytes \in Nat
  BY <1>1, SumFacts DEF Sound
<1> QED  BY <1>1, <1>2, <1>3, Zenon

LEMMA SoundItems ==
  ASSUME NEW d, Sound(d)
  PROVE  /\ \A i \in 1 .. Len(d.lru) : d.lru[i] \in Entry /\ d.lru[i].key \in d.items
         /\ \A k \in d.items : \E i \in 1 .. Len(d.lru) : d.lru[i].key = k
<1>1. \A i \in 1 .. Len(d.lru) : d.lru[i] \in Entry
  BY SoundFields
<1>2. d.items = {d.lru[i].key : i \in 1 .. Len(d.lru)}
  BY SoundFields, Zenon DEF Sound, KeysOf
<1>3. \A i \in 1 .. Len(d.lru) : d.lru[i] \in Entry /\ d.lru[i].key \in d.items
  BY <1>1, <1>2, Zenon
<1>4. \A k \in d.items : \E i \in 1 .. Len(d.lru) : d.lru[i].key = k
  BY <1>2, Zenon
<1> QED  BY <1>3, <1>4

LEMMA PositionIs ==
  ASSUME NEW d, Sound(d), NEW key \in d.items
  PROVE  /\ Position(d, key) \in 1 .. Len(d.lru)
         /\ EntryOf(d, key) = d.lru[Position(d, key)]
         /\ EntryOf(d, key) \in Entry /\ EntryOf(d, key).key = key
<1>1. \E i \in DOMAIN d.lru : d.lru[i].key = key
  <2>1. DOMAIN d.lru = 1 .. Len(d.lru)
    BY SoundFields
  <2> QED  BY <2>1, SoundItems, Zenon
<1>2. Position(d, key) \in DOMAIN d.lru /\ d.lru[Position(d, key)].key = key
  BY <1>1, Zenon DEF Position
<1>3. EntryOf(d, key) = d.lru[Position(d, key)]
  BY DEF EntryOf
<1>4. DOMAIN d.lru = 1 .. Len(d.lru)
  BY SoundFields
<1>5. \A i \in 1 .. Len(d.lru) : d.lru[i] \in Entry
  BY SoundItems, Zenon
<1> QED  BY <1>2, <1>3, <1>4, <1>5, Zenon

\* The entry of a key is the one at any place with that key.
LEMMA EntryAt ==
  ASSUME NEW d, Sound(d), NEW i \in 1 .. Len(d.lru)
  PROVE  Position(d, d.lru[i].key) = i /\ EntryOf(d, d.lru[i].key) = d.lru[i]
<1>1. d.lru[i].key \in d.items
  BY SoundItems, Zenon
<1>2. /\ Position(d, d.lru[i].key) \in 1 .. Len(d.lru)
      /\ EntryOf(d, d.lru[i].key) = d.lru[Position(d, d.lru[i].key)]
      /\ EntryOf(d, d.lru[i].key).key = d.lru[i].key
  BY <1>1, PositionIs, Zenon
<1>3. Position(d, d.lru[i].key) = i
  BY <1>2, Zenon DEF Sound, Distinct
<1> QED  BY <1>2, <1>3, Zenon

LEMMA Counted ==
  ASSUME NEW d, Sound(d)
  PROVE  IsFiniteSet(d.items) /\ Cardinality(d.items) = Len(d.lru)
<1> DEFINE f == [i \in 1 .. Len(d.lru) |-> d.lru[i].key]
<1>1. f \in Bijection(1 .. Len(d.lru), d.items)
  <2>1. f \in [1 .. Len(d.lru) -> d.items]
    BY SoundItems, Zenon
  <2>2. \A i, j \in 1 .. Len(d.lru) : f[i] = f[j] => i = j
    BY Zenon DEF Sound, Distinct
  <2>3. ASSUME NEW k \in d.items  PROVE \E i \in 1 .. Len(d.lru) : f[i] = k
    <3>1. PICK i \in 1 .. Len(d.lru) : d.lru[i].key = k
      BY SoundItems, Zenon
    <3> QED  BY <3>1, Zenon
  <2> HIDE DEF f
  <2> QED  BY <2>1, <2>2, <2>3, Zenon DEF Bijection, Injection, IsInjective, Surjection
<1>2. ExistsBijection(1 .. Len(d.lru), d.items)
  BY <1>1, Zenon DEF ExistsBijection
<1>3. Len(d.lru) \in Nat
  BY SoundFields
<1> QED  BY <1>2, <1>3, FS_CountingElements, FS_NatBijection, Zenon

\* A sound cache with the entries of another at the given places.
LEMMA Retained ==
  ASSUME NEW d, Sound(d), NEW e, Sound(e), NEW key \in e.items,
         \E i \in 1 .. Len(e.lru), j \in 1 .. Len(d.lru) : e.lru[i].key = key /\ e.lru[i] = d.lru[j]
  PROVE  key \in d.items /\ EntryOf(e, key) = EntryOf(d, key)
<1>1. PICK i \in 1 .. Len(e.lru), j \in 1 .. Len(d.lru) : e.lru[i].key = key /\ e.lru[i] = d.lru[j]
  OBVIOUS
<1>2. EntryOf(e, key) = e.lru[i]
  BY <1>1, EntryAt, Zenon
<1>3. EntryOf(d, key) = d.lru[j] /\ key \in d.items
  BY <1>1, EntryAt, SoundItems, Zenon
<1> QED  BY <1>1, <1>2, <1>3, Zenon

(***************************************************************************)
(* The operations keep a cache sound.                                      *)
(***************************************************************************)
LEMMA NewSound ==
  ASSUME NEW maxBytes \in Int, NEW maxEntries \in Int
  PROVE  Sound(New(maxBytes, maxEntries)) /\ Within(New(maxBytes, maxEntries))
<1> DEFINE d == New(maxBytes, maxEntries)
<1>1. d \in CacheType /\ d.lru = <<>> /\ d.items = {} /\ d.bytes = 0
  BY DEF New, CacheType
<1> HIDE DEF d
<1>2. d.maxBytes \in Nat /\ d.maxEntries \in Int /\ d.lru \in Seq(Entry) /\ Len(d.lru) = 0
  BY <1>1 DEF CacheType
<1>3. SumSizes(d.lru) = 0
  BY <1>2, SumFacts
<1>4. KeysOf(d.lru) = {} /\ Distinct(d.lru)
  BY <1>1, <1>2 DEF KeysOf, Distinct
<1>5. Sound(d)
  BY <1>1, <1>3, <1>4 DEF Sound
<1>6. Within(d)
  BY <1>1, <1>2 DEF Within
<1> QED  BY <1>5, <1>6 DEF d

Update(d, items, lru, bytes) == [d EXCEPT !.items = items, !.lru = lru, !.bytes = bytes]

Fields(e, d, items, lru, bytes) ==
  /\ e \in CacheType /\ e.items = items /\ e.lru = lru /\ e.bytes = bytes
  /\ e.maxBytes = d.maxBytes /\ e.maxEntries = d.maxEntries /\ e.closed = d.closed

LEMMA Updated ==
  ASSUME NEW d \in CacheType, NEW items \in SUBSET Keys, NEW lru \in Seq(Entry), NEW bytes \in Int
  PROVE  Fields(Update(d, items, lru, bytes), d, items, lru, bytes)
BY Zenon DEF CacheType, Update, Fields

LEMMA RemoveSound ==
  ASSUME NEW d, Sound(d), NEW key
  PROVE  /\ Sound(removeLocked(d, key)) /\ Less(d, removeLocked(d, key))
         /\ removeLocked(d, key).items = d.items \ {key}
<1> DEFINE e == removeLocked(d, key)
           p == Position(d, key)
<1>1. CASE key \notin d.items
  <2>1. e = d
    BY <1>1 DEF removeLocked
  <2>2. Less(d, d)
    BY SoundFields DEF Less
  <2> QED  BY <1>1, <2>1, <2>2
<1>2. CASE key \in d.items
  <2>1. p \in 1 .. Len(d.lru) /\ EntryOf(d, key) = d.lru[p] /\ d.lru[p] \in Entry /\ d.lru[p].key = key
    BY <1>2, PositionIs
  <2> DEFINE t == Unlinked(d.lru, p)
  <2>2. d.lru \in Seq(Entry) /\ Len(d.lru) \in Nat
    BY SoundFields
  <2>3. /\ t \in Seq(Entry) /\ Len(t) = Len(d.lru) - 1
        /\ \A j \in 1 .. Len(d.lru) - 1 : t[j] = IF j < p THEN d.lru[j] ELSE d.lru[j + 1]
        /\ SumSizes(t) = SumSizes(d.lru) - d.lru[p].estimatedSize
    <3> HIDE DEF p
    <3> QED  BY <2>1, <2>2, Extracted, Zenon
  <2>4. e = [d EXCEPT !.items = @ \ {key}, !.lru = t, !.bytes = @ - d.lru[p].estimatedSize]
    BY <1>2, <2>1, Zenon DEF removeLocked, Without
  <2>5. d \in CacheType /\ d.lru[p].estimatedSize \in Nat
    BY <2>1 DEF Sound, Entry
  <2> HIDE DEF e, t, p
  <2>6. /\ e \in CacheType /\ e.items = d.items \ {key} /\ e.lru = t
        /\ e.bytes = d.bytes - d.lru[p].estimatedSize
        /\ e.maxBytes = d.maxBytes /\ e.maxEntries = d.maxEntries /\ e.closed = d.closed
    <3>1. d.items \ {key} \in SUBSET Keys /\ d.bytes - d.lru[p].estimatedSize \in Int
      BY <2>5, SoundFields
    <3>2. e = Update(d, d.items \ {key}, t, d.bytes - d.lru[p].estimatedSize)
      BY <2>4 DEF Update
    <3>3. Fields(e, d, d.items \ {key}, t, d.bytes - d.lru[p].estimatedSize)
      BY <2>3, <2>5, <3>1, <3>2, Updated, Zenon
    <3> QED  BY <3>3 DEF Fields
  <2> DEFINE Old(j) == IF j < p THEN j ELSE j + 1
  <2>7. \A j \in 1 .. Len(t) : Old(j) \in 1 .. Len(d.lru) /\ Old(j) # p /\ t[j] = d.lru[Old(j)]
    BY <2>1, <2>2, <2>3
  <2>8. \A i \in 1 .. Len(d.lru) : i # p => \E j \in 1 .. Len(t) : Old(j) = i
    <3> SUFFICES ASSUME NEW i \in 1 .. Len(d.lru), i # p PROVE \E j \in 1 .. Len(t) : Old(j) = i
      OBVIOUS
    <3>1. CASE i < p
      BY <2>1, <2>2, <2>3, <3>1
    <3>2. CASE i > p
      <4>1. i - 1 \in 1 .. Len(t) /\ Old(i - 1) = i
        BY <2>1, <2>2, <2>3, <3>2
      <4> QED  BY <4>1
    <3> QED  BY <2>1, <2>2, <3>1, <3>2
  <2>9. \A i, j \in 1 .. Len(t) : Old(i) = Old(j) => i = j
    BY <2>1, <2>2, <2>3
  <2> HIDE DEF Old
  <2>10. Distinct(t)
    <3> SUFFICES ASSUME NEW i \in 1 .. Len(t), NEW j \in 1 .. Len(t), t[i].key = t[j].key
                 PROVE  i = j
      BY DEF Distinct
    <3>1. /\ Old(i) \in 1 .. Len(d.lru) /\ Old(j) \in 1 .. Len(d.lru)
          /\ d.lru[Old(i)].key = d.lru[Old(j)].key
      BY <2>7, Zenon
    <3>2. Old(i) = Old(j)
      BY <3>1, Zenon DEF Sound, Distinct
    <3> QED  BY <2>9, <3>2, Zenon
  <2>11. \A i \in 1 .. Len(d.lru) : d.lru[i].key = key => i = p
    BY <2>1, Zenon DEF Sound, Distinct
  <2>12. KeysOf(t) = d.items \ {key}
    <3>1. DOMAIN t = 1 .. Len(t)
      BY <2>3
    <3>2. ASSUME NEW j \in 1 .. Len(t)  PROVE t[j].key \in d.items \ {key}
      BY <2>7, <2>11, SoundItems, Zenon
    <3>3. ASSUME NEW k \in d.items, k # key  PROVE \E j \in 1 .. Len(t) : t[j].key = k
      <4>1. PICK i \in 1 .. Len(d.lru) : d.lru[i].key = k
        BY SoundItems, Zenon
      <4>2. i # p
        BY <2>1, <3>3, <4>1
      <4> QED  BY <2>7, <2>8, <4>1, <4>2, Zenon
    <3> QED  BY <3>1, <3>2, <3>3, Zenon DEF KeysOf
  <2>13. Sound(e)
    BY <2>3, <2>6, <2>10, <2>12 DEF Sound
  <2>14. ASSUME NEW k \in e.items
         PROVE  k \in d.items /\ EntryOf(e, k) = EntryOf(d, k)
    <3>1. PICK j \in 1 .. Len(e.lru) : e.lru[j].key = k
      BY <2>13, SoundItems, Zenon
    <3>2. e.lru = t
      BY <2>6
    <3>3. Old(j) \in 1 .. Len(d.lru) /\ e.lru[j] = d.lru[Old(j)]
      BY <2>7, <3>1, <3>2, Zenon
    <3>4. \E i \in 1 .. Len(e.lru), n \in 1 .. Len(d.lru) : e.lru[i].key = k /\ e.lru[i] = d.lru[n]
      BY <3>1, <3>3, Zenon
    <3> QED  BY <2>13, <3>4, Retained, Zenon
  <2>15. e.bytes <= d.bytes /\ Len(e.lru) <= Len(d.lru)
    BY <2>2, <2>3, <2>5, <2>6, SoundFields
  <2>16. Less(d, e)
    BY <2>6, <2>14, <2>15 DEF Less
  <2> QED  BY <2>6, <2>13, <2>16 DEF e
<1> QED  BY <1>1, <1>2

\* The cache with an entry of a new key at its front.
Push(d, e) ==
  [d EXCEPT !.items = @ \cup {e.key}, !.lru = <<e>> \o @, !.bytes = @ + e.estimatedSize]

LEMMA PushSound ==
  ASSUME NEW d, Sound(d), NEW e \in Entry, e.key \notin d.items
  PROVE  LET p == Push(d, e) IN
         /\ Sound(p) /\ p.items = d.items \cup {e.key} /\ p.lru = <<e>> \o d.lru
         /\ p.bytes = d.bytes + e.estimatedSize
         /\ p.maxBytes = d.maxBytes /\ p.maxEntries = d.maxEntries /\ p.closed = d.closed
         /\ Len(p.lru) = Len(d.lru) + 1 /\ p.lru[1] = e
         /\ \A i \in 1 .. Len(d.lru) : p.lru[i + 1] = d.lru[i]
         /\ EntryOf(p, e.key) = e
         /\ \A k \in d.items : EntryOf(p, k) = EntryOf(d, k)
<1> DEFINE p == Push(d, e)
           t == <<e>> \o d.lru
<1>1. d \in CacheType /\ d.lru \in Seq(Entry) /\ Len(d.lru) \in Nat
  BY SoundFields DEF Sound
<1>2. /\ t \in Seq(Entry) /\ Len(t) = Len(d.lru) + 1 /\ t[1] = e
      /\ \A i \in 1 .. Len(d.lru) : t[i + 1] = d.lru[i]
      /\ SumSizes(t) = e.estimatedSize + SumSizes(d.lru)
  BY <1>1, Pushed
<1>3. p = [d EXCEPT !.items = @ \cup {e.key}, !.lru = t, !.bytes = @ + e.estimatedSize]
  BY Zenon DEF Push
<1> HIDE DEF p, t
<1>4. /\ p \in CacheType /\ p.items = d.items \cup {e.key} /\ p.lru = t
      /\ p.bytes = d.bytes + e.estimatedSize
      /\ p.maxBytes = d.maxBytes /\ p.maxEntries = d.maxEntries /\ p.closed = d.closed
  <2>1. e.estimatedSize \in Nat /\ e.key \in Keys
    BY DEF Entry
  <2>2. d.items \cup {e.key} \in SUBSET Keys /\ d.bytes + e.estimatedSize \in Int
    BY <2>1, SoundFields
  <2>3. p = Update(d, d.items \cup {e.key}, t, d.bytes + e.estimatedSize)
    BY <1>3 DEF Update
  <2>4. Fields(p, d, d.items \cup {e.key}, t, d.bytes + e.estimatedSize)
    BY <1>1, <1>2, <2>2, <2>3, Updated, Zenon
  <2> QED  BY <2>4 DEF Fields
<1>5. \A j \in 1 .. Len(t) : j = 1 \/ (j - 1 \in 1 .. Len(d.lru) /\ t[j] = d.lru[j - 1])
  <2> SUFFICES ASSUME NEW j \in 1 .. Len(t), j # 1
               PROVE  j - 1 \in 1 .. Len(d.lru) /\ t[j] = d.lru[j - 1]
    OBVIOUS
  <2>1. j - 1 \in 1 .. Len(d.lru) /\ (j - 1) + 1 = j
    BY <1>1, <1>2
  <2>2. t[(j - 1) + 1] = d.lru[j - 1]
    BY <1>2, <2>1, Zenon
  <2> QED  BY <2>1, <2>2
<1>6. Distinct(t)
  <2> SUFFICES ASSUME NEW i \in 1 .. Len(t), NEW j \in 1 .. Len(t), t[i].key = t[j].key
               PROVE  i = j
    BY DEF Distinct
  <2>1. \A n \in 1 .. Len(t) : n # 1 => t[n].key \in d.items
    BY <1>5, SoundItems, Zenon
  <2>2. CASE i = 1 \/ j = 1
    BY <1>2, <2>1, <2>2, Zenon
  <2>3. CASE i # 1 /\ j # 1
    <3>1. /\ i - 1 \in 1 .. Len(d.lru) /\ j - 1 \in 1 .. Len(d.lru)
          /\ d.lru[i - 1].key = d.lru[j - 1].key
      BY <1>5, <2>3, Zenon
    <3>2. i - 1 = j - 1
      BY <3>1, Zenon DEF Sound, Distinct
    <3> QED  BY <1>1, <1>2, <3>2
  <2> QED  BY <2>2, <2>3
<1>7. KeysOf(t) = d.items \cup {e.key}
  <2>1. DOMAIN t = 1 .. Len(t) /\ 1 \in 1 .. Len(t)
    BY <1>1, <1>2
  <2>2. ASSUME NEW j \in 1 .. Len(t)  PROVE t[j].key \in d.items \cup {e.key}
    BY <1>2, <1>5, SoundItems, Zenon
  <2>3. ASSUME NEW k \in d.items  PROVE \E j \in 1 .. Len(t) : t[j].key = k
    <3>1. PICK i \in 1 .. Len(d.lru) : d.lru[i].key = k
      BY SoundItems, Zenon
    <3>2. i + 1 \in 1 .. Len(t) /\ t[i + 1] = d.lru[i]
      BY <1>1, <1>2
    <3> QED  BY <3>1, <3>2, Zenon
  <2>4. \E j \in 1 .. Len(t) : t[j].key = e.key
    BY <1>2, <2>1, Zenon
  <2>5. KeysOf(t) = {t[j].key : j \in 1 .. Len(t)}
    BY <2>1 DEF KeysOf
  <2>6. KeysOf(t) \subseteq d.items \cup {e.key}
    BY <2>2, <2>5, Zenon
  <2>7. d.items \cup {e.key} \subseteq KeysOf(t)
    BY <2>3, <2>4, <2>5
  <2> QED  BY <2>6, <2>7
<1>8. Sound(p)
  <2>1. p.bytes = SumSizes(t)
    <3>1. SumSizes(d.lru) \in Nat /\ e.estimatedSize \in Nat
      BY <1>1, SumFacts, Zenon DEF Entry
    <3>2. d.bytes = SumSizes(d.lru)
      BY DEF Sound
    <3> QED  BY <1>2, <1>4, <3>1, <3>2
  <2> QED  BY <1>4, <1>6, <1>7, <2>1 DEF Sound
<1>9. EntryOf(p, e.key) = e
  <2>1. 1 \in 1 .. Len(p.lru) /\ p.lru[1] = e
    BY <1>1, <1>2, <1>4
  <2> QED  BY <1>8, <2>1, EntryAt, Zenon
<1>10. ASSUME NEW k \in d.items  PROVE EntryOf(p, k) = EntryOf(d, k)
  <2>1. PICK i \in 1 .. Len(d.lru) : d.lru[i].key = k
    BY SoundItems, Zenon
  <2>2. i + 1 \in 1 .. Len(p.lru) /\ p.lru[i + 1] = d.lru[i]
    BY <1>1, <1>2, <1>4
  <2>3. EntryOf(d, k) = d.lru[i]
    BY <2>1, EntryAt, Zenon
  <2>4. EntryOf(p, k) = p.lru[i + 1]
    BY <1>8, <2>1, <2>2, EntryAt, Zenon
  <2> QED  BY <2>2, <2>3, <2>4
<1> QED  BY <1>2, <1>4, <1>8, <1>9, <1>10, Zenon DEF p, t

(***************************************************************************)
(* The loop of enforceLimitsLocked.                                        *)
(***************************************************************************)
LEMMA LessTransitive ==
  ASSUME NEW d, Sound(d), NEW e, Sound(e), NEW f, Sound(f), Less(d, e), Less(e, f)
  PROVE  Less(d, f)
<1>1. f.bytes <= d.bytes /\ Len(f.lru) <= Len(d.lru)
  <2>1. /\ d.bytes \in Nat /\ e.bytes \in Nat /\ f.bytes \in Nat
        /\ Len(d.lru) \in Nat /\ Len(e.lru) \in Nat /\ Len(f.lru) \in Nat
    BY SoundFields
  <2> QED  BY <2>1 DEF Less
<1> QED  BY <1>1, Zenon DEF Less

\* One turn of the loop.
Evict(d) == removeLocked(d, Oldest(d).key)

\* e is d without its last entry.
Evicted(d, e) ==
  /\ Sound(e) /\ Less(d, e)
  /\ Len(e.lru) = Len(d.lru) - 1
  /\ \A i \in 1 .. Len(e.lru) : e.lru[i] = d.lru[i]
  /\ e.items = d.items \ {d.lru[Len(d.lru)].key}
  /\ e.bytes = d.bytes - d.lru[Len(d.lru)].estimatedSize

LEMMA EvictsLast ==
  ASSUME NEW d, Sound(d), Len(d.lru) > 0
  PROVE  Evicted(d, Evict(d))
<1> DEFINE n == Len(d.lru)
           key == d.lru[n].key
           e == Evict(d)
<1>1. n \in 1 .. Len(d.lru) /\ d.lru \in Seq(Entry) /\ n \in Nat
  BY SoundFields
<1>2. e = removeLocked(d, key)
  BY Zenon DEF Evict, Oldest
<1>3. key \in d.items /\ Position(d, key) = n /\ EntryOf(d, key) = d.lru[n]
  <2>1. key \in d.items
    BY <1>1, SoundItems, Zenon
  <2> QED  BY <1>1, <2>1, EntryAt, Zenon
<1>4. e = [d EXCEPT !.items = @ \ {key}, !.lru = Unlinked(d.lru, n),
                    !.bytes = @ - d.lru[n].estimatedSize]
  BY <1>2, <1>3, Zenon DEF removeLocked, Without
<1>5. Sound(e) /\ Less(d, e) /\ e.items = d.items \ {key}
  <2> HIDE DEF e, key
  <2> QED  BY <1>2, RemoveSound
<1>6. e.lru = Unlinked(d.lru, n) /\ e.bytes = d.bytes - d.lru[n].estimatedSize
  <2>1. d \in CacheType
    BY DEF Sound
  <2> HIDE DEF e, n, key
  <2> QED  BY <1>4, <2>1 DEF CacheType
<1>7. /\ Len(Unlinked(d.lru, n)) = n - 1
      /\ \A j \in 1 .. n - 1 : Unlinked(d.lru, n)[j] = IF j < n THEN d.lru[j] ELSE d.lru[j + 1]
  BY <1>1, Extracted, Zenon
<1> HIDE DEF e
<1>8. Len(e.lru) = n - 1 /\ \A i \in 1 .. Len(e.lru) : e.lru[i] = d.lru[i]
  BY <1>1, <1>6, <1>7
<1> QED  BY <1>5, <1>6, <1>8 DEF Evicted, e

SoundCaches == {x \in CacheType : Sound(x)}

LEMMA EvictStays ==
  ASSUME NEW d \in SoundCaches
  PROVE  Evict(d) \in SoundCaches
<1>1. Sound(Evict(d))
  BY RemoveSound, Zenon DEF SoundCaches, Evict
<1> QED  BY <1>1 DEF SoundCaches, Sound

\* g[n] is d after n turns of the loop.
Turns(d, g) ==
  /\ g \in [0 .. Len(d.lru) -> SoundCaches]
  /\ g[0] = d
  /\ \A n \in 1 .. Len(d.lru) : g[n] = Evict(g[n - 1])

LEMMA TurnsExist ==
  ASSUME NEW d, Sound(d)
  PROVE  \E g : Turns(d, g)
<1> DEFINE N == Len(d.lru)
           F == [n \in 1 .. N |-> [x \in SoundCaches |-> Evict(x)]]
<1>1. N \in Nat
  BY SoundFields
<1>2. d \in SoundCaches
  BY DEF SoundCaches, Sound
<1>3. F \in [1 .. N -> [SoundCaches -> SoundCaches]]
  BY EvictStays, Zenon
<1>4. \A n \in 1 .. N, x \in SoundCaches : F[n][x] = Evict(x)
  BY Zenon
<1> HIDE DEF F
<1>5. Functions(N, SoundCaches, d, F)
  BY <1>1, <1>2, <1>3 DEF Functions
<1>6. Iterates(N, SoundCaches, d, F)
  BY <1>5, Iteration, Zenon
<1>7. PICK g \in [0 .. N -> SoundCaches] : g[0] = d /\ \A n \in 1 .. N : g[n] = F[n][g[n - 1]]
  BY <1>6, Zenon DEF Iterates
<1>8. ASSUME NEW n \in 1 .. N  PROVE g[n] = Evict(g[n - 1])
  <2>1. n - 1 \in 0 .. N
    BY <1>1
  <2>2. g[n - 1] \in SoundCaches
    BY <2>1
  <2> QED  BY <1>4, <1>7, <2>2, Zenon
<1> QED  BY <1>7, <1>8, Zenon DEF Turns

\* After n turns the first entries are left, but for n of them.
LEMMA AfterTurns ==
  ASSUME NEW d, Sound(d), NEW g, Turns(d, g)
  PROVE  \A n \in 0 .. Len(d.lru) :
           /\ Sound(g[n]) /\ Less(d, g[n])
           /\ Len(g[n].lru) = Len(d.lru) - n
           /\ \A i \in 1 .. Len(d.lru) - n : g[n].lru[i] = d.lru[i]
<1> DEFINE N == Len(d.lru)
           P(n) == /\ Sound(g[n]) /\ Less(d, g[n])
                   /\ Len(g[n].lru) = N - n
                   /\ \A i \in 1 .. N - n : g[n].lru[i] = d.lru[i]
           G == {n \in Nat : n <= N => P(n)}
<1>1. N \in Nat
  BY SoundFields
<1>2. 0 \in G
  <2>1. g[0] = d /\ Less(d, d)
    BY SoundFields DEF Turns, Less
  <2>2. P(0)
    BY <1>1, <2>1
  <2> QED  BY <2>2
<1>3. ASSUME NEW n \in Nat, n \in G  PROVE n + 1 \in G
  <2> SUFFICES ASSUME n + 1 <= N PROVE P(n + 1)
    OBVIOUS
  <2>1. n <= N /\ n + 1 \in 1 .. N /\ (n + 1) - 1 = n /\ N - n > 0 /\ N - (n + 1) = (N - n) - 1
    BY <1>1
  <2>2. P(n)
    BY <1>3, <2>1
  <2>3. g[n + 1] = Evict(g[n])
    BY <2>1 DEF Turns
  <2>4. Evicted(g[n], g[n + 1])
    BY <2>1, <2>2, <2>3, EvictsLast
  <2>5. Sound(g[n + 1]) /\ Less(g[n], g[n + 1]) /\ Len(g[n + 1].lru) = N - (n + 1)
    BY <2>1, <2>2, <2>4 DEF Evicted
  <2>6. Less(d, g[n + 1])
    BY <2>2, <2>5, LessTransitive, Zenon
  <2>7. ASSUME NEW i \in 1 .. N - (n + 1)  PROVE g[n + 1].lru[i] = d.lru[i]
    <3>1. i \in 1 .. Len(g[n + 1].lru) /\ i \in 1 .. N - n
      BY <1>1, <2>1, <2>5
    <3>2. g[n + 1].lru[i] = g[n].lru[i]
      BY <2>4, <3>1, Zenon DEF Evicted
    <3> QED  BY <2>2, <3>1, <3>2
  <2> QED  BY <2>5, <2>6, <2>7
<1> HIDE DEF G
<1>4. \A n \in Nat : n \in G
  BY <1>2, <1>3, Inductive
<1>5. \A n \in 0 .. N : n \in Nat /\ n <= N
  BY <1>1
<1> HIDE DEF P
<1>6. \A n \in 0 .. N : P(n)
  BY <1>4, <1>5, Zenon DEF G
<1> QED  BY <1>6 DEF P

\* e with the entry x again.
OneMore(e, x) == [e EXCEPT !.items = @ \cup {x.key}, !.bytes = @ + x.estimatedSize]

\* e is d reduced to its first entries, as many as the limits allow.
Enforced(d, e) ==
  /\ Sound(e) /\ Within(e) /\ Less(d, e)
  /\ Len(e.lru) >= 1 /\ \A i \in 1 .. Len(e.lru) : e.lru[i] = d.lru[i]
  /\ Len(e.lru) < Len(d.lru) => OverLimit(OneMore(e, d.lru[Len(e.lru) + 1]))

\* The loop ends with the turns that the limits require.
LEMMA LoopEnds ==
  ASSUME NEW d, Sound(d), NEW g, Turns(d, g),
         Len(d.lru) > 0, d.lru[1].estimatedSize <= d.maxBytes
  PROVE  \E n \in 0 .. Len(d.lru) - 1 :
           /\ ~OverLimit(g[n])
           /\ \A m \in 0 .. n - 1 : OverLimit(g[m]) /\ g[m].lru # <<>>
<1> DEFINE N == Len(d.lru)
           Done == {n \in 0 .. N - 1 : ~OverLimit(g[n])}
<1>1. N \in Nat /\ N - 1 \in 0 .. N /\ N - 1 \in 0 .. N - 1 /\ N - (N - 1) = 1
  BY SoundFields
<1>2. ~OverLimit(g[N - 1])
  <2> DEFINE e == g[N - 1]
  <2>1. Sound(e) /\ Less(d, e) /\ Len(e.lru) = 1 /\ e.lru[1] = d.lru[1]
    <3>1. /\ Sound(e) /\ Less(d, e) /\ Len(e.lru) = N - (N - 1)
          /\ \A i \in 1 .. N - (N - 1) : e.lru[i] = d.lru[i]
      BY <1>1, AfterTurns, Zenon
    <3> HIDE DEF e, N
    <3> QED  BY <1>1, <3>1
  <2> HIDE DEF e
  <2>2. e.bytes = d.lru[1].estimatedSize /\ Cardinality(e.items) = 1
    <3>1. e.lru \in Seq(Entry)
      BY <2>1, SoundFields
    <3> QED  BY <2>1, <3>1, SumFacts, Counted, Zenon DEF Sound
  <2>3. e.maxBytes = d.maxBytes /\ e.maxBytes \in Nat /\ e.maxEntries \in Int /\ e.bytes \in Nat
    BY <2>1, SoundFields DEF Less
  <2>4. ~OverLimit(e)
    BY <2>2, <2>3 DEF OverLimit
  <2> QED  BY <2>4 DEF e
<1>3. Done \subseteq Nat /\ Done # {}
  BY <1>1, <1>2
<1>4. PICK n \in Done : \A m \in Done : n <= m
  BY <1>3, LeastNatural, Zenon
<1>5. ASSUME NEW m \in 0 .. n - 1
      PROVE  OverLimit(g[m]) /\ g[m].lru # <<>>
  <2>1. m \in 0 .. N - 1 /\ m \in 0 .. N /\ ~(n <= m) /\ N - m > 0
    BY <1>1, <1>4
  <2>2. OverLimit(g[m])
    BY <1>4, <2>1
  <2>3. Len(g[m].lru) > 0
    BY <2>1, AfterTurns
  <2> QED  BY <2>2, <2>3
<1> QED  BY <1>4, <1>5

LEMMA EnforceStops ==
  ASSUME NEW d, Sound(d), Len(d.lru) > 0, d.lru[1].estimatedSize <= d.maxBytes
  PROVE  \E g : \E n \in 0 .. Len(d.lru) - 1 :
           /\ Turns(d, g)
           /\ enforceLimitsLocked(d) = g[n]
           /\ ~OverLimit(g[n])
           /\ \A m \in 0 .. n - 1 : OverLimit(g[m])
<1> DEFINE N == Len(d.lru)
           Body(f) == [n \in 0 .. N |-> IF n = 0 THEN d ELSE removeLocked(f[n - 1], Oldest(f[n - 1]).key)]
           after == CHOOSE f : f = Body(f)
           Over(n) == OverLimit(after[n]) /\ after[n].lru # <<>>
           Last0(n) == ~Over(n) /\ \A m \in 0 .. n - 1 : Over(m)
           turns == CHOOSE n \in 0 .. N : Last0(n)
<1>1. N \in Nat
  BY SoundFields
<1>2. PICK g : Turns(d, g)
  BY TurnsExist
<1>3. after = Body(after)
  <2>1. ASSUME NEW n \in 0 .. N
        PROVE  g[n] = IF n = 0 THEN d ELSE removeLocked(g[n - 1], Oldest(g[n - 1]).key)
    <3>1. n = 0 \/ n \in 1 .. N
      BY <1>1
    <3> QED  BY <1>2, <3>1, Zenon DEF Turns, Evict
  <2>2. g = [n \in 0 .. N |-> g[n]]
    BY <1>2, Zenon DEF Turns
  <2>3. g = Body(g)
    BY <2>1, <2>2, Zenon
  <2> HIDE DEF Body
  <2> QED  BY <2>3
<1> HIDE DEF after
<1>4. \A n \in 0 .. N : after[n] = IF n = 0 THEN d ELSE Evict(after[n - 1])
  BY <1>3, Zenon DEF Evict
<1>5. \A n \in 0 .. N : after[n] = g[n]
  <2> DEFINE G == {n \in Nat : n <= N => after[n] = g[n]}
  <2>1. 0 \in G
    <3>1. 0 \in 0 .. N
      BY <1>1
    <3> QED  BY <1>2, <1>4, <3>1 DEF Turns
  <2>2. ASSUME NEW n \in Nat, n \in G  PROVE n + 1 \in G
    <3> SUFFICES ASSUME n + 1 <= N PROVE after[n + 1] = g[n + 1]
      OBVIOUS
    <3>1. n + 1 \in 1 .. N /\ n + 1 \in 0 .. N /\ n + 1 # 0 /\ (n + 1) - 1 = n /\ n <= N
      BY <1>1
    <3>2. after[n] = g[n]
      BY <2>2, <3>1
    <3>3. after[n + 1] = Evict(after[(n + 1) - 1]) /\ g[n + 1] = Evict(g[(n + 1) - 1])
      BY <1>2, <1>4, <3>1, Zenon DEF Turns
    <3> QED  BY <3>1, <3>2, <3>3
  <2> HIDE DEF G
  <2>3. \A n \in Nat : n \in G
    BY <2>1, <2>2, Inductive
  <2>4. \A n \in 0 .. N : n \in Nat /\ n <= N
    BY <1>1
  <2> QED  BY <2>3, <2>4, Zenon DEF G
<1>6. PICK n \in 0 .. N - 1 :
        ~OverLimit(g[n]) /\ \A m \in 0 .. n - 1 : OverLimit(g[m]) /\ g[m].lru # <<>>
  BY <1>2, LoopEnds
<1>7. n \in 0 .. N /\ \A m \in 0 .. n - 1 : m \in 0 .. N
  BY <1>1, <1>6
<1>8. Last0(n)
  BY <1>5, <1>6, <1>7, Zenon
<1>9. turns \in 0 .. N /\ Last0(turns)
  <2> HIDE DEF Last0
  <2> QED  BY <1>7, <1>8, Zenon
<1>10. turns = n
  <2> HIDE DEF turns
  <2>1. ~(turns < n)
    <3> SUFFICES ASSUME turns < n PROVE FALSE  OBVIOUS
    <3>1. turns \in 0 .. n - 1
      BY <1>1, <1>7, <1>9
    <3> QED  BY <1>8, <1>9, <3>1, Zenon
  <2>2. ~(n < turns)
    <3> SUFFICES ASSUME n < turns PROVE FALSE  OBVIOUS
    <3>1. n \in 0 .. turns - 1
      BY <1>1, <1>7, <1>9
    <3> QED  BY <1>8, <1>9, <3>1, Zenon
  <2> QED  BY <1>1, <1>7, <1>9, <2>1, <2>2
<1>11. enforceLimitsLocked(d) = after[turns]
  BY Zenon DEF enforceLimitsLocked, after
<1> HIDE DEF turns
<1>12. enforceLimitsLocked(d) = g[n]
  BY <1>5, <1>7, <1>10, <1>11, Zenon
<1> QED  BY <1>2, <1>6, <1>12, Zenon

LEMMA EnforceSound ==
  ASSUME NEW d, Sound(d), Len(d.lru) > 0, d.lru[1].estimatedSize <= d.maxBytes
  PROVE  Enforced(d, enforceLimitsLocked(d))
<1> DEFINE N == Len(d.lru)
           e == enforceLimitsLocked(d)
<1>1. N \in Nat
  BY SoundFields
<1>2. PICK g : \E n \in 0 .. N - 1 :
        /\ Turns(d, g) /\ e = g[n] /\ ~OverLimit(g[n])
        /\ \A m \in 0 .. n - 1 : OverLimit(g[m])
  BY EnforceStops, Zenon
<1>3. PICK n \in 0 .. N - 1 :
        /\ Turns(d, g) /\ e = g[n] /\ ~OverLimit(g[n])
        /\ \A m \in 0 .. n - 1 : OverLimit(g[m])
  BY <1>2
<1> HIDE DEF e
<1>4. n \in 0 .. N /\ N - n >= 1
  BY <1>1
<1>5. /\ Sound(e) /\ Less(d, e) /\ Len(e.lru) = N - n
      /\ \A i \in 1 .. Len(e.lru) : e.lru[i] = d.lru[i]
  <2>1. /\ Sound(g[n]) /\ Less(d, g[n]) /\ Len(g[n].lru) = N - n
        /\ \A i \in 1 .. N - n : g[n].lru[i] = d.lru[i]
    <3>1. \A m \in 0 .. N :
            /\ Sound(g[m]) /\ Less(d, g[m]) /\ Len(g[m].lru) = N - m
            /\ \A i \in 1 .. N - m : g[m].lru[i] = d.lru[i]
      <4>1. Turns(d, g)
        BY <1>3, Zenon
      <4> QED  BY <4>1, AfterTurns, Zenon
    <3> QED  BY <1>4, <3>1, Zenon
  <2> QED  BY <1>3, <2>1, Zenon
<1>6. /\ e.bytes \in Nat /\ e.maxBytes \in Nat /\ e.maxEntries \in Int
      /\ Cardinality(e.items) = Len(e.lru) /\ Len(e.lru) \in Nat
  BY <1>5, SoundFields, Counted, Zenon
<1>7. Within(e)
  <2>1. ~OverLimit(e)
    BY <1>3
  <2> QED  BY <1>6, <2>1 DEF OverLimit, Within
<1>8. ASSUME Len(e.lru) < N
      PROVE  OverLimit(OneMore(e, d.lru[Len(e.lru) + 1]))
  <2> DEFINE f == g[n - 1]
             x == d.lru[Len(e.lru) + 1]
  <2>1. /\ n - 1 \in 0 .. n - 1 /\ n - 1 \in 0 .. N /\ n \in 1 .. N
        /\ Len(e.lru) + 1 = N - (n - 1) /\ Len(e.lru) + 1 \in 1 .. N - (n - 1)
    BY <1>1, <1>4, <1>5, <1>6, <1>8
  <2>2. OverLimit(f)
    BY <1>3, <2>1, Zenon
  <2>3. /\ Sound(f) /\ Less(d, f) /\ Len(f.lru) = N - (n - 1)
        /\ \A i \in 1 .. N - (n - 1) : f.lru[i] = d.lru[i]
    <3>1. n - 1 \in 0 .. N
      BY <2>1
    <3>2. Turns(d, g)
      BY <1>3
    <3> QED  BY <3>1, <3>2, AfterTurns, Zenon
  <2>4. e = Evict(f)
    BY <1>3, <2>1, Zenon DEF Turns
  <2> HIDE DEF f, x
  <2>5. Evicted(f, e)
    <3>1. Len(f.lru) > 0
      BY <1>6, <2>1, <2>3
    <3> QED  BY <2>3, <2>4, <3>1, EvictsLast, Zenon
  <2>6. f.lru[Len(f.lru)] = x
    <3>1. Len(f.lru) = Len(e.lru) + 1 /\ Len(e.lru) + 1 \in 1 .. N - (n - 1)
      BY <2>1, <2>3, Zenon
    <3> QED  BY <2>3, <3>1, Zenon DEF x
  <2>7. e.items = f.items \ {x.key} /\ e.bytes = f.bytes - x.estimatedSize
    BY <2>5, <2>6, Zenon DEF Evicted
  <2>8. x \in Entry /\ x.key \in f.items
    <3>1. Len(f.lru) \in 1 .. Len(f.lru)
      BY <1>6, <2>1, <2>3
    <3> QED  BY <2>3, <2>6, <3>1, SoundItems, Zenon
  <2>9. e.items \cup {x.key} = f.items
    BY <2>7, <2>8, Zenon
  <2>10. e.bytes + x.estimatedSize = f.bytes
    <3>1. x.estimatedSize \in Nat /\ f.bytes \in Nat
      BY <2>3, <2>8, SoundFields DEF Entry
    <3> QED  BY <2>7, <3>1
  <2>11. e.maxBytes = f.maxBytes /\ e.maxEntries = f.maxEntries
    BY <2>5 DEF Evicted, Less
  <2> DEFINE o == OneMore(e, x)
  <2>12. o.items = f.items /\ o.bytes = f.bytes /\ o.maxBytes = f.maxBytes /\ o.maxEntries = f.maxEntries
    <3>1. e \in CacheType
      BY <1>5 DEF Sound
    <3>2. /\ o.items = e.items \cup {x.key} /\ o.bytes = e.bytes + x.estimatedSize
          /\ o.maxBytes = e.maxBytes /\ o.maxEntries = e.maxEntries
      BY <3>1 DEF OneMore, CacheType
    <3> QED  BY <2>9, <2>10, <2>11, <3>2, Zenon
  <2> HIDE DEF o
  <2>13. OverLimit(o)
    BY <2>2, <2>12 DEF OverLimit
  <2> QED  BY <2>13, Zenon DEF o, x
<1>9. Len(e.lru) >= 1
  BY <1>4, <1>5
<1> QED  BY <1>5, <1>7, <1>8, <1>9 DEF Enforced, e

(***************************************************************************)
(* put, get, Purge and Close.                                              *)
(***************************************************************************)

\* The entry that put stores.
Stored(key, value, expiresAt) ==
  [key |-> key, value |-> value, expiresAt |-> expiresAt, estimatedSize |-> EstimateSize(key, value)]

LEMMA StoredType ==
  ASSUME NEW key \in Keys, NEW value \in Nat, NEW expiresAt \in Int
  PROVE  /\ Stored(key, value, expiresAt) \in Entry
         /\ EstimateSize(key, value) \in Nat \ {0}
<1>1. KeyLen[key] \in Nat
  BY KeyLenAssumption
<1>2. EstimateSize(key, value) \in Nat \ {0}
  BY <1>1 DEF EstimateSize, entryOverheadBytes
<1> QED  BY <1>2 DEF Stored, Entry

\* e is d after put: without the key where nothing is admitted, else with its
\* entry and perhaps without some others.
PutDone(d, e, key, value, expiresAt) ==
  /\ Sound(e)
  /\ e.maxBytes = d.maxBytes /\ e.maxEntries = d.maxEntries /\ e.closed = d.closed
  /\ IF Admits(d, EstimateSize(key, value))
     THEN /\ key \in e.items /\ EntryOf(e, key) = Stored(key, value, expiresAt)
          /\ Within(e)
     ELSE e.items = d.items \ {key} /\ Less(d, e)
  /\ \A k \in e.items \ {key} : k \in d.items /\ EntryOf(e, k) = EntryOf(d, k)

LEMMA PutAdmitted ==
  ASSUME NEW d, Sound(d), NEW key \in Keys, NEW value \in Nat, NEW expiresAt \in Int,
         Admits(d, EstimateSize(key, value))
  PROVE  LET ent == Stored(key, value, expiresAt)
             p == Push(removeLocked(d, key), ent)
         IN  /\ key \notin removeLocked(d, key).items
             /\ Sound(p) /\ Enforced(p, put(d, key, value, expiresAt))
<1> DEFINE ent == Stored(key, value, expiresAt)
           rest == removeLocked(d, key)
           p == Push(rest, ent)
<1>1. Sound(rest) /\ Less(d, rest) /\ key \notin rest.items
  BY RemoveSound
<1>2. ent \in Entry /\ ent.key = key /\ ent.estimatedSize = EstimateSize(key, value)
  BY StoredType DEF Stored
<1>3. put(d, key, value, expiresAt) = enforceLimitsLocked(p)
  BY <1>2, Zenon DEF put, Push, Stored
<1>4. /\ Sound(p) /\ p.maxBytes = rest.maxBytes
      /\ Len(p.lru) = Len(rest.lru) + 1 /\ p.lru[1] = ent
  <2> HIDE DEF rest, ent
  <2> QED  BY <1>1, <1>2, PushSound, Zenon
<1> HIDE DEF p, rest, ent
<1>5. Len(p.lru) > 0 /\ p.lru[1].estimatedSize <= p.maxBytes
  <2>1. EstimateSize(key, value) <= d.maxBytes
    BY DEF Admits
  <2>2. rest.maxBytes = d.maxBytes /\ Len(rest.lru) \in Nat
    BY <1>1, SoundFields DEF Less
  <2> QED  BY <1>2, <1>4, <2>1, <2>2
<1>6. Enforced(p, put(d, key, value, expiresAt))
  BY <1>3, <1>4, <1>5, EnforceSound, Zenon
<1> QED  BY <1>1, <1>4, <1>6, Zenon DEF p, rest, ent

LEMMA PutSound ==
  ASSUME NEW d, Sound(d), NEW key \in Keys, NEW value \in Nat, NEW expiresAt \in Int
  PROVE  PutDone(d, put(d, key, value, expiresAt), key, value, expiresAt)
<1> DEFINE ent == Stored(key, value, expiresAt)
           rest == removeLocked(d, key)
           p == Push(rest, ent)
           e == put(d, key, value, expiresAt)
<1>1. Sound(rest) /\ Less(d, rest) /\ key \notin rest.items /\ rest.items = d.items \ {key}
  BY RemoveSound
<1>2. CASE ~Admits(d, EstimateSize(key, value))
  <2>1. e = rest
    BY <1>2, Zenon DEF put
  <2> QED  BY <1>1, <1>2, <2>1, Zenon DEF PutDone, Less
<1>3. CASE Admits(d, EstimateSize(key, value))
  <2>1. Sound(p) /\ Enforced(p, e)
    BY <1>3, PutAdmitted, Zenon
  <2>2. ent \in Entry /\ ent.key = key
    BY StoredType DEF Stored
  <2>3. /\ p.maxBytes = rest.maxBytes /\ p.maxEntries = rest.maxEntries /\ p.closed = rest.closed
        /\ p.lru[1] = ent /\ p.items = rest.items \cup {key}
        /\ EntryOf(p, key) = ent
        /\ \A k \in rest.items : EntryOf(p, k) = EntryOf(rest, k)
    <3>1. Sound(rest) /\ ent \in Entry /\ ent.key \notin rest.items
      BY <1>1, <2>2
    <3> HIDE DEF ent, rest
    <3>2. /\ Sound(p) /\ p.items = rest.items \cup {ent.key} /\ p.lru = <<ent>> \o rest.lru
          /\ p.bytes = rest.bytes + ent.estimatedSize
          /\ p.maxBytes = rest.maxBytes /\ p.maxEntries = rest.maxEntries /\ p.closed = rest.closed
          /\ Len(p.lru) = Len(rest.lru) + 1 /\ p.lru[1] = ent
          /\ \A i \in 1 .. Len(rest.lru) : p.lru[i + 1] = rest.lru[i]
          /\ EntryOf(p, ent.key) = ent
          /\ \A k \in rest.items : EntryOf(p, k) = EntryOf(rest, k)
      BY <3>1, PushSound
    <3> HIDE DEF p
    <3> QED  BY <2>2, <3>2, Zenon
  <2> HIDE DEF e, p, rest
  <2>4. Sound(e) /\ Within(e) /\ Less(p, e)
    BY <2>1 DEF Enforced
  <2>5. key \in e.items /\ EntryOf(e, key) = ent
    <3> HIDE DEF ent
    <3>1. 1 \in 1 .. Len(e.lru) /\ e.lru[1] = p.lru[1]
      <4>1. Len(e.lru) \in Nat /\ Len(e.lru) >= 1
        BY <2>1, <2>4, SoundFields DEF Enforced
      <4>2. 1 \in 1 .. Len(e.lru)
        BY <4>1
      <4> QED  BY <2>1, <4>2, Zenon DEF Enforced
    <3>2. e.lru[1] = ent
      BY <2>3, <3>1
    <3> QED  BY <2>2, <2>4, <3>1, <3>2, SoundItems, EntryAt, Zenon
  <2>6. ASSUME NEW k \in e.items \ {key}
        PROVE  k \in d.items /\ EntryOf(e, k) = EntryOf(d, k)
    <3>1. k \in p.items /\ EntryOf(e, k) = EntryOf(p, k)
      BY <2>4, Zenon DEF Less
    <3>2. k \in rest.items
      BY <2>3, <3>1, Zenon
    <3>3. EntryOf(p, k) = EntryOf(rest, k)
      BY <2>3, <3>2, Zenon
    <3>4. k \in d.items /\ EntryOf(rest, k) = EntryOf(d, k)
      BY <1>1, <3>2, Zenon DEF Less
    <3> QED  BY <3>1, <3>3, <3>4, Zenon
  <2>7. e.maxBytes = d.maxBytes /\ e.maxEntries = d.maxEntries /\ e.closed = d.closed
    BY <1>1, <2>3, <2>4, Zenon DEF Less
  <2> HIDE DEF ent
  <2>8. PutDone(d, e, key, value, expiresAt)
    BY <1>3, <2>4, <2>5, <2>6, <2>7, Zenon DEF PutDone, ent
  <2> QED  BY <2>8, Zenon DEF e
<1> QED  BY <1>2, <1>3

\* e is d after a lookup of the key: the same entries, but perhaps for the key's.
Looked(d, e, key) ==
  /\ Sound(e) /\ Less(d, e)
  /\ d.items \ {key} \subseteq e.items

LEMMA GetSound ==
  ASSUME NEW d, Sound(d), NEW key, NEW now, NEW grace, NEW allowStale
  PROVE  /\ Looked(d, get(d, key, now, grace, allowStale), key)
         /\ Usable(d, key, now, grace, allowStale) => key \in get(d, key, now, grace, allowStale).items
<1> DEFINE e == get(d, key, now, grace, allowStale)
<1>1. Less(d, d)
  BY SoundFields DEF Less
<1>2. CASE key \notin d.items
  <2>1. e = d
    BY <1>2, Zenon DEF get
  <2> QED  BY <1>1, <1>2, <2>1, Zenon DEF Looked, Usable
<1>3. CASE key \in d.items /\ ~Usable(d, key, now, grace, allowStale)
  <2>1. e = d \/ e = removeLocked(d, key)
    BY <1>3, Zenon DEF get
  <2>2. Looked(d, d, key)
    BY <1>1, Zenon DEF Looked
  <2>3. Looked(d, removeLocked(d, key), key)
    BY RemoveSound, Zenon DEF Looked
  <2> HIDE DEF e
  <2>4. Looked(d, e, key)
    BY <2>1, <2>2, <2>3
  <2> QED  BY <1>3, <2>4 DEF e
<1>4. CASE key \in d.items /\ Usable(d, key, now, grace, allowStale)
  <2> DEFINE rest == removeLocked(d, key)
             ent == EntryOf(d, key)
             p == Push(rest, ent)
  <2>1. Sound(rest) /\ Less(d, rest) /\ rest.items = d.items \ {key}
    BY RemoveSound
  <2>2. ent \in Entry /\ ent.key = key
    BY <1>4, PositionIs, Zenon
  <2>3. /\ rest.lru = Without(d, key) /\ rest.bytes = d.bytes - ent.estimatedSize
        /\ rest.maxBytes = d.maxBytes /\ rest.maxEntries = d.maxEntries /\ rest.closed = d.closed
    <3>1. d \in CacheType
      BY DEF Sound
    <3>2. rest = [d EXCEPT !.items = @ \ {key}, !.lru = Without(d, key),
                           !.bytes = @ - ent.estimatedSize]
      BY <1>4, Zenon DEF removeLocked
    <3> HIDE DEF rest, ent
    <3> QED  BY <3>1, <3>2 DEF CacheType
  <2>4. /\ Sound(p) /\ p.items = rest.items \cup {key} /\ p.lru = <<ent>> \o rest.lru
        /\ p.bytes = rest.bytes + ent.estimatedSize
        /\ p.maxBytes = rest.maxBytes /\ p.maxEntries = rest.maxEntries /\ p.closed = rest.closed
        /\ Len(p.lru) = Len(rest.lru) + 1
        /\ EntryOf(p, key) = ent
        /\ \A k \in rest.items : EntryOf(p, k) = EntryOf(rest, k)
    <3>1. key \notin rest.items
      BY <2>1
    <3> HIDE DEF ent, rest
    <3> QED  BY <2>1, <2>2, <3>1, PushSound
  <2>5. e = [d EXCEPT !.lru = <<ent>> \o Without(d, key)]
    BY <1>4, Zenon DEF get
  <2> HIDE DEF rest, p, e
  <2>6. p.items = d.items /\ p.bytes = d.bytes
    <3>1. ent.estimatedSize \in Nat /\ d.bytes \in Nat
      BY <2>2, SoundFields DEF Entry
    <3> HIDE DEF ent
    <3>2. p.bytes = d.bytes
      BY <2>3, <2>4, <3>1
    <3>3. p.items = d.items
      BY <1>4, <2>1, <2>4, Zenon
    <3> QED  BY <3>2, <3>3
  <2>7. e = p
    <3> HIDE DEF ent
    <3>1. d \in CacheType /\ p \in CacheType
      BY <2>4 DEF Sound
    <3>2. p.lru = <<ent>> \o Without(d, key)
      BY <2>3, <2>4, Zenon
    <3> DEFINE l == <<ent>> \o Without(d, key)
    <3> HIDE DEF l
    <3>3. e = [d EXCEPT !.lru = l] /\ p.lru = l
      BY <2>5, <3>2 DEF l
    <3> QED  BY <2>3, <2>4, <2>6, <3>1, <3>3 DEF CacheType
  <2>8. ASSUME NEW k \in p.items
        PROVE  k \in d.items /\ EntryOf(p, k) = EntryOf(d, k)
    <3>1. CASE k = key
      BY <1>4, <2>4, <3>1, Zenon
    <3>2. CASE k # key
      <4>1. k \in rest.items
        BY <2>1, <2>6, <3>2, Zenon
      <4>2. k \in d.items /\ EntryOf(rest, k) = EntryOf(d, k)
        BY <2>1, <4>1, Zenon DEF Less
      <4>3. EntryOf(p, k) = EntryOf(rest, k)
        BY <2>4, <4>1, Zenon
      <4> QED  BY <4>2, <4>3
    <3> QED  BY <3>1, <3>2
  <2>9. p.bytes <= d.bytes /\ Len(p.lru) <= Len(d.lru)
    <3>1. Cardinality(p.items) = Len(p.lru) /\ Cardinality(d.items) = Len(d.lru)
      BY <2>4, Counted, Zenon
    <3>2. d.bytes \in Nat /\ Len(d.lru) \in Nat
      BY SoundFields
    <3> QED  BY <2>6, <3>1, <3>2
  <2>10. Less(d, p)
    BY <2>3, <2>4, <2>8, <2>9, Zenon DEF Less
  <2>11. Looked(d, e, key) /\ key \in e.items
    BY <1>4, <2>4, <2>6, <2>7, <2>10, Zenon DEF Looked
  <2> QED  BY <2>11 DEF e
<1> QED  BY <1>2, <1>3, <1>4

LEMMA PurgeSound ==
  ASSUME NEW d, Sound(d)
  PROVE  /\ Sound(Purge(d)) /\ Sound(Close(d)) /\ Purge(d).items = {} /\ Close(d).items = {}
         /\ Purge(d).closed = d.closed /\ Close(d).closed = TRUE
         /\ Purge(d).maxBytes = d.maxBytes /\ Purge(d).maxEntries = d.maxEntries
         /\ Close(d).maxBytes = d.maxBytes /\ Close(d).maxEntries = d.maxEntries
         /\ Within(Purge(d)) /\ Within(Close(d))
<1>1. d \in CacheType
  BY DEF Sound
<1>2. ASSUME NEW e \in CacheType, e.items = {}, e.lru = <<>>, e.bytes = 0
      PROVE  Sound(e) /\ Within(e)
  <2>1. /\ e.lru \in Seq(Entry) /\ Len(e.lru) = 0 /\ e.maxBytes \in Nat /\ e.maxEntries \in Int
    BY <1>2 DEF CacheType
  <2>2. SumSizes(e.lru) = 0
    BY <2>1, SumFacts
  <2>3. KeysOf(e.lru) = {} /\ Distinct(e.lru)
    BY <1>2, <2>1 DEF KeysOf, Distinct
  <2>4. Sound(e)
    BY <1>2, <2>2, <2>3 DEF Sound
  <2> QED  BY <1>2, <2>1, <2>4 DEF Within
<1>3. /\ Purge(d) \in CacheType /\ Purge(d).items = {} /\ Purge(d).lru = <<>> /\ Purge(d).bytes = 0
      /\ Purge(d).closed = d.closed
      /\ Purge(d).maxBytes = d.maxBytes /\ Purge(d).maxEntries = d.maxEntries
  <2>1. {} \in SUBSET Keys /\ <<>> \in Seq(Entry) /\ 0 \in Int
    OBVIOUS
  <2>2. Purge(d) = Update(d, {}, <<>>, 0)
    BY Zenon DEF Purge, Update
  <2>3. Fields(Update(d, {}, <<>>, 0), d, {}, <<>>, 0)
    BY <1>1, <2>1, Updated, Zenon
  <2> QED  BY <2>2, <2>3, Zenon DEF Fields
<1>4. /\ Close(d) \in CacheType /\ Close(d).items = {} /\ Close(d).lru = <<>> /\ Close(d).bytes = 0
      /\ Close(d).closed = TRUE
      /\ Close(d).maxBytes = d.maxBytes /\ Close(d).maxEntries = d.maxEntries
  <2> DEFINE q == Purge(d)
  <2>1. Close(d) = [q EXCEPT !.closed = TRUE]
    BY Zenon DEF Close
  <2> HIDE DEF q
  <2> QED  BY <1>3, <2>1, Zenon DEF CacheType, q
<1> QED  BY <1>2, <1>3, <1>4, Zenon

LEMMA WithinLess ==
  ASSUME NEW d, NEW e, Sound(d), Sound(e), Within(d), Less(d, e)
  PROVE  Within(e)
<1>1. /\ d.bytes \in Nat /\ Len(d.lru) \in Nat /\ d.maxBytes \in Nat /\ d.maxEntries \in Int
      /\ e.bytes \in Nat /\ Len(e.lru) \in Nat
  BY SoundFields
<1> QED  BY <1>1 DEF Within, Less

-----------------------------------------------------------------------------
(* One cache and its callers.                                              *)

LEMMA ScenesTyped ==
  ASSUME scene \in Scenarios
  PROVE  /\ scene.keys \subseteq Keys /\ scene.callers \subseteq Callers /\ Values \subseteq Nat
         /\ MaxBytes \in Nat /\ MaxEntries \in Int /\ StaleGrace \in Nat /\ MaxTime \in Nat
BY ScenariosAssumption, Zenon DEF Values, MaxBytes, MaxEntries, StaleGrace, MaxTime

LEMMA LongestTTL == Max(TTLs) = 1
<1>1. \E x \in TTLs : \A y \in TTLs : x >= y
  BY DEF TTLs
<1>2. Max(TTLs) \in TTLs /\ \A y \in TTLs : Max(TTLs) >= y
  BY <1>1, Zenon DEF Max
<1> QED  BY <1>2 DEF TTLs

LEMMA RangeInt == \A n \in Nat : \A x \in 0 .. n : x \in Int
OBVIOUS

\* Every entry was put by some call.
Contents == \A k \in c.items : EntryOf(c, k).value \in Values /\ EntryOf(c, k).expiresAt \in 0 .. MaxExpiry

LruInv ==
  /\ scene \in Scenarios
  /\ Sound(c) /\ Within(c) /\ c.maxBytes = MaxBytes /\ c.maxEntries = MaxEntries
  /\ Contents
  /\ clock \in 0 .. MaxTime
  /\ call \in [Callers -> Locked \cup {Absent}]

\* The locked part of a call, by what was called.
LEMMA Requests ==
  ASSUME NEW req \in Locked
  PROVE  \/ /\ req.op = "put" /\ req.key \in Keys /\ req.value \in Values
            /\ req.expiresAt \in 0 .. MaxExpiry
            /\ Outcome(req) = put(c, req.key, req.value, req.expiresAt)
         \/ /\ req.op = "delete" /\ req.key \in Keys /\ Outcome(req) = removeLocked(c, req.key)
         \/ /\ req.op = "get" /\ req.key \in Keys
            /\ Outcome(req) = get(c, req.key, req.now, req.grace, req.allowStale)
<1>1. \/ /\ req.op = "put" /\ req.key \in Keys /\ req.value \in Values
         /\ req.expiresAt \in 0 .. MaxExpiry
      \/ req.op = "delete" /\ req.key \in Keys
      \/ req.op = "get" /\ req.key \in Keys
  BY DEF Locked
<1>2. CASE req.op = "put"
  <2>1. req.op # "delete" /\ req.op # "get"
    BY <1>2
  <2>2. Outcome(req) = put(c, req.key, req.value, req.expiresAt)
    BY <1>2, <2>1, Zenon DEF Outcome
  <2> QED  BY <1>1, <1>2, <2>1, <2>2, Zenon
<1>3. CASE req.op = "delete"
  <2>1. req.op # "put" /\ req.op # "get"
    BY <1>3
  <2>2. Outcome(req) = removeLocked(c, req.key)
    BY <1>3, <2>1, Zenon DEF Outcome
  <2> QED  BY <1>1, <1>3, <2>1, <2>2, Zenon
<1>4. CASE req.op = "get"
  <2>1. req.op # "put" /\ req.op # "delete"
    BY <1>4
  <2>2. Outcome(req) = get(c, req.key, req.now, req.grace, req.allowStale)
    BY <1>4, <2>1, Zenon DEF Outcome
  <2> QED  BY <1>1, <1>4, <2>1, <2>2, Zenon
<1> QED  BY <1>1, <1>2, <1>3, <1>4, Zenon

\* What a step may make of the cache: the same limits, and the entries it had.
Remains(d, e) ==
  /\ Sound(e) /\ Within(e) /\ e.maxBytes = d.maxBytes /\ e.maxEntries = d.maxEntries
  /\ \A k \in e.items : k \in d.items /\ EntryOf(e, k) = EntryOf(d, k)

LEMMA RemainsKept ==
  ASSUME LruInv, UNCHANGED <<scene, clock, call>>, Remains(c, c')
  PROVE  LruInv'
<1>1. Contents'
  BY Zenon DEF LruInv, Remains, Contents, Values, MaxExpiry, MaxTime
<1> QED  BY <1>1, Zenon DEF LruInv, Remains, MaxBytes, MaxEntries, MaxTime, MaxExpiry, Values, StaleGrace, Locked

LEMMA LessRemains ==
  ASSUME NEW d, Sound(d), Within(d), NEW e, Sound(e), Less(d, e)
  PROVE  Remains(d, e)
BY WithinLess, Zenon DEF Remains, Less

LEMMA LruInit == Init => LruInv
<1> SUFFICES ASSUME Init PROVE LruInv
  OBVIOUS
<1>1. scene \in Scenarios /\ c = New(MaxBytes, MaxEntries) /\ clock = 0
      /\ call = [p \in Callers |-> Absent]
  BY DEF Init
<1>2. MaxBytes \in Nat /\ MaxEntries \in Int /\ MaxTime \in Nat
  BY <1>1, ScenesTyped
<1>3. Sound(c) /\ Within(c)
  BY <1>1, <1>2, NewSound
<1>4. c.maxBytes = MaxBytes /\ c.maxEntries = MaxEntries /\ c.items = {}
  BY <1>1, <1>2 DEF New
<1>5. clock \in 0 .. MaxTime /\ call \in [Callers -> Locked \cup {Absent}]
  BY <1>1, <1>2
<1> QED  BY <1>1, <1>3, <1>4, <1>5 DEF LruInv, Contents

LEMMA BeginKept ==
  ASSUME LruInv, NEW p \in scene.callers, NEW req \in Locked, Begin(p, req), UNCHANGED scene
  PROVE  LruInv'
<1>1. call' \in [Callers -> Locked \cup {Absent}]
  <2>1. p \in Callers /\ call \in [Callers -> Locked \cup {Absent}]
    BY ScenesTyped DEF LruInv
  <2>2. call' = [call EXCEPT ![p] = req]
    BY DEF Begin
  <2> QED  BY <2>1, <2>2
<1>2. UNCHANGED <<c, clock, scene>>
  BY DEF Begin
<1> QED  BY <1>1, <1>2, Zenon DEF LruInv, Contents, MaxBytes, MaxEntries, MaxTime, MaxExpiry, Values,
            StaleGrace, Locked

LEMMA CallsKept ==
  ASSUME LruInv, NEW p \in scene.callers, UNCHANGED scene,
         Put(p) \/ PutUntil(p) \/ Get(p) \/ GetStale(p)
  PROVE  LruInv'
<1>1. /\ scene.keys \subseteq Keys /\ MaxTime \in Nat /\ clock \in 0 .. MaxTime
      /\ Values \subseteq Nat /\ StaleGrace \in Nat
  BY ScenesTyped DEF LruInv
<1>2. MaxExpiry = MaxTime + 1
  BY LongestTTL DEF MaxExpiry
<1>3. CASE Put(p)
  <2>1. PICK key \in scene.keys, value \in Values, ttl \in TTLs :
               Begin(p, [op |-> "put", key |-> key, value |-> value, expiresAt |-> clock + ttl])
    BY <1>3, Zenon DEF Put
  <2>2. clock + ttl \in 0 .. MaxExpiry
    BY <1>1, <1>2 DEF TTLs
  <2>3. [op |-> "put", key |-> key, value |-> value, expiresAt |-> clock + ttl] \in Locked
    BY <1>1, <2>2 DEF Locked
  <2> QED  BY <2>1, <2>3, BeginKept, Zenon
<1>4. CASE PutUntil(p)
  <2>1. PICK key \in scene.keys, value \in Values, expiresAt \in 0 .. MaxExpiry :
               \/ Begin(p, [op |-> "delete", key |-> key])
               \/ Begin(p, [op |-> "put", key |-> key, value |-> value, expiresAt |-> expiresAt])
    BY <1>4, Zenon DEF PutUntil
  <2>2. /\ [op |-> "delete", key |-> key] \in Locked
        /\ [op |-> "put", key |-> key, value |-> value, expiresAt |-> expiresAt] \in Locked
    BY <1>1 DEF Locked
  <2> QED  BY <2>1, <2>2, BeginKept, Zenon
<1>5. ASSUME NEW grace \in {0, StaleGrace}, NEW allowStale \in BOOLEAN, Lookup(p, grace, allowStale)
      PROVE  LruInv'
  <2>1. PICK key \in scene.keys :
               Begin(p, [op |-> "get", key |-> key, now |-> clock, grace |-> grace,
                         allowStale |-> allowStale])
    BY <1>5, Zenon DEF Lookup
  <2>2. [op |-> "get", key |-> key, now |-> clock, grace |-> grace, allowStale |-> allowStale]
          \in Locked
    BY <1>1 DEF Locked
  <2> QED  BY <2>1, <2>2, BeginKept, Zenon
<1>6. CASE Get(p)
  BY <1>5, <1>6, Zenon DEF Get
<1>7. CASE GetStale(p)
  BY <1>5, <1>7, Zenon DEF GetStale
<1> QED  BY <1>3, <1>4, <1>6, <1>7

LEMMA LockedKept ==
  ASSUME LruInv, NEW p \in scene.callers, UNCHANGED scene, RunLocked(p)
  PROVE  LruInv'
<1> DEFINE req == call[p]
<1>1. p \in Callers /\ Values \subseteq Nat /\ MaxTime \in Nat
  BY ScenesTyped DEF LruInv
<1>2. /\ req \in Locked /\ c' = Outcome(req) /\ clock' = clock
      /\ call' = [call EXCEPT ![p] = Absent]
  BY <1>1 DEF RunLocked, LruInv
<1>3. call' \in [Callers -> Locked \cup {Absent}]
  BY <1>1, <1>2 DEF LruInv
<1>4. Sound(c) /\ Within(c)
  BY DEF LruInv
<1>5. /\ Sound(c') /\ Within(c') /\ c'.maxBytes = c.maxBytes /\ c'.maxEntries = c.maxEntries
      /\ \A k \in c'.items : /\ EntryOf(c', k).value \in Values
                             /\ EntryOf(c', k).expiresAt \in 0 .. MaxExpiry
  <2> HIDE DEF req
  <2>1. CASE /\ req.op = "put" /\ req.key \in Keys /\ req.value \in Values
             /\ req.expiresAt \in 0 .. MaxExpiry
             /\ Outcome(req) = put(c, req.key, req.value, req.expiresAt)
    <3>1. req.value \in Nat /\ req.expiresAt \in Int
      <4>1. req.value \in Values /\ req.expiresAt \in 0 .. MaxExpiry
        BY <2>1, Zenon
      <4>2. MaxExpiry \in Nat
        BY <1>1, LongestTTL DEF MaxExpiry
      <4>3. req.value \in Nat
        BY <1>1, <4>1, Zenon
      <4> QED  BY <4>1, <4>2, <4>3, RangeInt, Zenon
    <3>2. PutDone(c, c', req.key, req.value, req.expiresAt)
      BY <1>2, <1>4, <2>1, <3>1, PutSound, Zenon
    <3>3. Sound(c') /\ c'.maxBytes = c.maxBytes /\ c'.maxEntries = c.maxEntries
      BY <3>2, Zenon DEF PutDone
    <3>4. Within(c')
      BY <1>4, <3>2, <3>3, WithinLess, Zenon DEF PutDone
    <3>5. ASSUME NEW k \in c'.items
          PROVE  EntryOf(c', k).value \in Values /\ EntryOf(c', k).expiresAt \in 0 .. MaxExpiry
      <4>1. CASE k = req.key
        <5>1. EntryOf(c', k) = Stored(req.key, req.value, req.expiresAt)
          BY <3>2, <4>1, Zenon DEF PutDone
        <5> QED  BY <2>1, <5>1 DEF Stored
      <4>2. CASE k # req.key
        BY <3>2, <4>2, Zenon DEF PutDone, LruInv, Contents
      <4> QED  BY <4>1, <4>2
    <3> QED  BY <3>3, <3>4, <3>5
  <2>2. ASSUME Sound(c'), Less(c, c')
        PROVE  /\ Sound(c') /\ Within(c') /\ c'.maxBytes = c.maxBytes /\ c'.maxEntries = c.maxEntries
               /\ \A k \in c'.items : /\ EntryOf(c', k).value \in Values
                                      /\ EntryOf(c', k).expiresAt \in 0 .. MaxExpiry
    BY <1>4, <2>2, WithinLess, Zenon DEF Less, LruInv, Contents
  <2>3. CASE Outcome(req) = removeLocked(c, req.key)
    <3>1. Sound(removeLocked(c, req.key)) /\ Less(c, removeLocked(c, req.key))
      BY <1>4, RemoveSound, Zenon
    <3>2. Sound(c') /\ Less(c, c')
      BY <1>2, <2>3, <3>1, Zenon
    <3> QED  BY <2>2, <3>2, Zenon
  <2>4. CASE Outcome(req) = get(c, req.key, req.now, req.grace, req.allowStale)
    BY <1>2, <1>4, <2>2, <2>4, GetSound, Zenon DEF Looked
  <2> QED  BY <1>2, <2>1, <2>3, <2>4, Requests, Zenon
<1>6. Contents'
  BY <1>5, Zenon DEF Contents, Values, MaxExpiry, MaxTime
<1> QED  BY <1>2, <1>3, <1>5, <1>6, Zenon DEF LruInv, MaxBytes, MaxEntries, MaxTime, MaxExpiry, Values,
            StaleGrace, Locked

LEMMA WholeKept ==
  ASSUME LruInv, UNCHANGED scene, Delete \/ PurgeCache \/ CloseCache
  PROVE  LruInv'
<1>1. Sound(c) /\ Within(c)
  BY DEF LruInv
<1>2. UNCHANGED <<scene, clock, call>>
  BY Zenon DEF Delete, PurgeCache, CloseCache, Whole
<1>3. CASE Delete
  <2>1. PICK key : c' = removeLocked(c, key)
    BY <1>3, Zenon DEF Delete, Whole
  <2>2. Sound(c') /\ Less(c, c')
    BY <1>1, <2>1, RemoveSound, Zenon
  <2> QED  BY <1>1, <1>2, <2>2, LessRemains, RemainsKept, Zenon
<1>4. CASE PurgeCache
  <2>1. c' = Purge(c)
    BY <1>4, Zenon DEF PurgeCache, Whole
  <2>2. Remains(c, c')
    BY <1>1, <2>1, PurgeSound, Zenon DEF Remains
  <2> QED  BY <1>2, <2>2, RemainsKept, Zenon
<1>5. CASE CloseCache
  <2>1. c' = Close(c)
    BY <1>5, Zenon DEF CloseCache, Whole
  <2>2. Remains(c, c')
    BY <1>1, <2>1, PurgeSound, Zenon DEF Remains
  <2> QED  BY <1>2, <2>2, RemainsKept, Zenon
<1> QED  BY <1>3, <1>4, <1>5

LEMMA LruStep == LruInv /\ [Next /\ UNCHANGED scene]_<<vars, scene>> => LruInv'
<1> SUFFICES ASSUME LruInv, [Next /\ UNCHANGED scene]_<<vars, scene>> PROVE LruInv'
  OBVIOUS
<1>1. CASE UNCHANGED <<vars, scene>>
  BY <1>1, Zenon DEF vars, LruInv, Contents, MaxBytes, MaxEntries, MaxTime, MaxExpiry, Values, StaleGrace,
     Locked
<1>2. CASE Next /\ UNCHANGED scene
  <2>1. CASE \E p \in scene.callers : Put(p) \/ PutUntil(p) \/ Get(p) \/ GetStale(p) \/ RunLocked(p)
    BY <1>2, <2>1, CallsKept, LockedKept, Zenon
  <2>2. CASE Delete \/ PurgeCache \/ CloseCache
    BY <1>2, <2>2, WholeKept, Zenon
  <2>3. CASE Tick
    <3>1. clock' \in 0 .. MaxTime /\ UNCHANGED <<c, call>>
      BY <2>3, ScenesTyped DEF Tick, LruInv
    <3> QED  BY <1>2, <3>1, Zenon DEF LruInv, Contents, MaxBytes, MaxEntries, MaxTime, MaxExpiry,
                Values, StaleGrace, Locked
  <2> QED  BY <1>2, <2>1, <2>2, <2>3, Zenon DEF Next
<1> QED  BY <1>1, <1>2, Zenon

LEMMA LruInvariant == Spec => []LruInv
BY LruInit, LruStep, PTL DEF Spec

\* Whatever callers, deletes, purges and Close do to the cache, in any order and
\* for any limits, its map, its list and its byte count agree and neither limit
\* is exceeded outside c.mu.
THEOREM CacheAccounted == Spec => []Accounted
<1>1. ASSUME LruInv PROVE Accounted
  <2>1. Sound(c) /\ Within(c) /\ Contents /\ c.maxBytes = MaxBytes /\ c.maxEntries = MaxEntries
    BY <1>1 DEF LruInv
  <2>2. /\ c.lru \in Seq(Entry) /\ Len(c.lru) \in Nat /\ c.bytes \in Nat
        /\ c.items \subseteq Keys /\ c.closed \in BOOLEAN
    BY <2>1, SoundFields
  <2> DEFINE E == [key : Keys, value : Values, expiresAt : 0 .. MaxExpiry, estimatedSize : Nat]
  <2>3. ASSUME NEW i \in 1 .. Len(c.lru)  PROVE c.lru[i] \in E
    <3> DEFINE x == c.lru[i]
    <3>1. x \in Entry /\ x.key \in c.items
      BY <2>1, SoundItems, Zenon
    <3>2. EntryOf(c, x.key) = x
      BY <2>1, EntryAt, Zenon
    <3>3. x.value \in Values /\ x.expiresAt \in 0 .. MaxExpiry
      BY <2>1, <3>1, <3>2, Zenon DEF Contents
    <3> HIDE DEF x
    <3>4. x \in E
      BY <3>1, <3>3 DEF Entry
    <3> QED  BY <3>4 DEF x
  <2>4. c.lru \in Seq(E)
    <3> HIDE DEF E
    <3> QED  BY <2>2, <2>3
  <2>5. TypeOK
    BY <1>1, <2>2, <2>4, Zenon DEF TypeOK, LruInv
  <2>6. c.items = KeysOf(c.lru) /\ c.bytes = SumSizes(c.lru)
    BY <2>1, Zenon DEF Sound
  <2>7. Len(c.lru) = Cardinality(c.items)
    BY <2>1, Counted, Zenon
  <2>8. c.bytes <= MaxBytes /\ (MaxEntries > 0 => Len(c.lru) <= MaxEntries)
    BY <2>1, Zenon DEF Within
  <2> QED  BY <2>5, <2>6, <2>7, <2>8, Zenon DEF Accounted
<1> QED  BY <1>1, LruInvariant, PTL

\* Only RunLocked ends a call.
LEMMA EndedCall ==
  ASSUME LruInv, [Next /\ UNCHANGED scene]_<<vars, scene>>, NEW p \in Callers, NEW op, Ran(p, op)
  PROVE  call[p] \in Locked /\ c' = Outcome(call[p]) /\ call[p].op = op
<1>1. call[p] # Absent /\ call'[p] = Absent /\ call[p].op = op
  BY Zenon DEF Ran
<1>2. call \in [Callers -> Locked \cup {Absent}] /\ scene.callers \subseteq Callers
  BY ScenesTyped DEF LruInv
<1>3. call' # call
  BY <1>1
<1>4. ASSUME NEW q \in scene.callers, NEW locked, Begin(q, locked)  PROVE FALSE
  <2>1. call[q] = Absent /\ call' = [call EXCEPT ![q] = locked]
    BY <1>4, Zenon DEF Begin
  <2> QED  BY <1>1, <1>2, <2>1
<1>5. ASSUME NEW q \in scene.callers, Put(q) \/ PutUntil(q) \/ Get(q) \/ GetStale(q)  PROVE FALSE
  BY <1>4, <1>5, Zenon DEF Put, PutUntil, Get, GetStale, Lookup
<1>6. PICK q \in scene.callers : RunLocked(q)
  <2>1. ~(Delete \/ PurgeCache \/ CloseCache \/ Tick)
    BY <1>3, Zenon DEF Delete, PurgeCache, CloseCache, Tick, Whole
  <2>2. Next
    BY <1>3 DEF vars
  <2> QED  BY <1>5, <2>1, <2>2, Zenon DEF Next
<1>7. q = p
  <2>1. call' = [call EXCEPT ![q] = Absent]
    BY <1>6, Zenon DEF RunLocked
  <2> QED  BY <1>1, <1>2, <2>1
<1>8. c' = Outcome(call[p])
  BY <1>6, <1>7, Zenon DEF RunLocked
<1> QED  BY <1>1, <1>2, <1>8

LEMMA RemovedList ==
  ASSUME NEW d, Sound(d), NEW key
  PROVE  removeLocked(d, key).lru = Without(d, key)
<1>1. CASE key \notin d.items
  BY <1>1, Zenon DEF removeLocked, Without
<1>2. CASE key \in d.items
  <2>1. d \in CacheType
    BY DEF Sound
  <2> DEFINE items == d.items \ {key}
             l == Without(d, key)
             bytes == d.bytes - EntryOf(d, key).estimatedSize
  <2>2. removeLocked(d, key) = [d EXCEPT !.items = items, !.lru = l, !.bytes = bytes]
    BY <1>2, Zenon DEF removeLocked
  <2> HIDE DEF items, l, bytes
  <2>3. removeLocked(d, key).lru = l
    BY <2>1, <2>2 DEF CacheType
  <2> QED  BY <2>3 DEF l
<1> QED  BY <1>1, <1>2

LEMMA SameList ==
  ASSUME NEW s \in Seq(Entry), NEW t \in Seq(Entry), Len(s) = Len(t),
         \A i \in 1 .. Len(s) : s[i] = t[i]
  PROVE  s = t
OBVIOUS

\* A list cut to its first entries, but for the first, is a prefix of the rest.
LEMMA CutPrefix ==
  ASSUME NEW s \in Seq(Entry), NEW t \in Seq(Entry), NEW e \in Entry, Len(s) >= 1,
         Len(s) <= Len(t) + 1, s[1] = e,
         \A i \in 1 .. Len(s) : s[i] = (<<e>> \o t)[i]
  PROVE  /\ s # <<>> /\ Head(s) = e /\ Len(Tail(s)) = Len(s) - 1
         /\ \E n \in 0 .. Len(t) : Tail(s) = SubSeq(t, 1, n)
         /\ Tail(s) # t => Len(s) <= Len(t)
<1>1. Len(s) \in Nat /\ Len(t) \in Nat /\ s # <<>> /\ Head(s) = e
  OBVIOUS
<1>2. Tail(s) \in Seq(Entry) /\ Len(Tail(s)) = Len(s) - 1
      /\ \A i \in 1 .. Len(s) - 1 : Tail(s)[i] = s[i + 1]
  BY <1>1
<1>3. ASSUME NEW i \in 1 .. Len(s) - 1  PROVE Tail(s)[i] = t[i]
  <2>1. i + 1 \in 1 .. Len(s) /\ i \in 1 .. Len(t)
    BY <1>1
  <2>2. s[i + 1] = (<<e>> \o t)[i + 1]
    BY <2>1, Zenon
  <2>3. (<<e>> \o t)[i + 1] = t[i]
    BY <1>1, <2>1
  <2> QED  BY <1>2, <2>2, <2>3
<1> DEFINE r == Tail(s)
<1>4. /\ r \in Seq(Entry) /\ Len(r) = Len(s) - 1 /\ Len(r) <= Len(t)
      /\ \A i \in 1 .. Len(r) : r[i] = t[i]
  BY <1>1, <1>2, <1>3
<1> HIDE DEF r
<1>5. \E n \in 0 .. Len(t) : r = SubSeq(t, 1, n)
  <2>1. Len(r) \in 0 .. Len(t)
    BY <1>1, <1>4
  <2>2. /\ SubSeq(t, 1, Len(r)) \in Seq(Entry) /\ Len(SubSeq(t, 1, Len(r))) = Len(r)
        /\ \A i \in 1 .. Len(r) : SubSeq(t, 1, Len(r))[i] = t[i]
    BY <1>1, <2>1
  <2>3. r = SubSeq(t, 1, Len(r))
    BY <1>4, <2>2, SameList, Zenon
  <2> QED  BY <2>1, <2>3, Zenon
<1>6. r # t => Len(s) <= Len(t)
  <2>1. CASE Len(r) = Len(t)
    BY <1>1, <1>4, <2>1, SameList, Zenon
  <2>2. CASE Len(r) # Len(t)
    <3>1. Len(r) = Len(s) - 1 /\ Len(r) <= Len(t)
      BY <1>4
    <3> QED  BY <1>1, <2>2, <3>1
  <2> QED  BY <2>1, <2>2
<1> QED  BY <1>1, <1>2, <1>5, <1>6, Zenon DEF r

\* The step of a put that stores: its entry comes first, and the limits cost the
\* least recently used ones, no more than they require.
LEMMA PutEvicts ==
  ASSUME Sound(c), NEW key \in Keys, NEW value \in Nat, NEW expiresAt \in Int,
         Admits(c, EstimateSize(key, value)), c' = put(c, key, value, expiresAt)
  PROVE  LET old  == Without(c, key)
             kept == Tail(c'.lru)
         IN  /\ c'.lru # <<>> /\ Head(c'.lru).key = key
             /\ \E n \in 0 .. Len(old) : kept = SubSeq(old, 1, n)
             /\ kept # old => OverLimit(OneMore(c', old[Len(kept) + 1]))
<1> DEFINE old == Without(c, key)
           rest == removeLocked(c, key)
           ent == Stored(key, value, expiresAt)
           p == Push(rest, ent)
           s == c'.lru
<1>1. Sound(rest) /\ key \notin rest.items /\ rest.lru = old
  BY RemoveSound, PutAdmitted, RemovedList, Zenon
<1>2. ent \in Entry /\ ent.key = key
  BY StoredType DEF Stored
<1>3. Sound(p) /\ Enforced(p, c')
  BY PutAdmitted, Zenon
<1>4. /\ Sound(p) /\ p.items = rest.items \cup {ent.key} /\ p.lru = <<ent>> \o rest.lru
      /\ p.bytes = rest.bytes + ent.estimatedSize
      /\ p.maxBytes = rest.maxBytes /\ p.maxEntries = rest.maxEntries /\ p.closed = rest.closed
      /\ Len(p.lru) = Len(rest.lru) + 1 /\ p.lru[1] = ent
      /\ \A i \in 1 .. Len(rest.lru) : p.lru[i + 1] = rest.lru[i]
      /\ EntryOf(p, ent.key) = ent
      /\ \A k \in rest.items : EntryOf(p, k) = EntryOf(rest, k)
  <2>1. Sound(rest) /\ ent \in Entry /\ ent.key \notin rest.items
    BY <1>1, <1>2
  <2> HIDE DEF ent, rest
  <2> QED  BY <2>1, PushSound, Zenon
<1> HIDE DEF p, rest, ent, old
<1>5. /\ old \in Seq(Entry) /\ Len(old) \in Nat /\ p.lru = <<ent>> \o old
      /\ Len(p.lru) = Len(old) + 1 /\ p.lru[1] = ent
      /\ \A i \in 1 .. Len(old) : p.lru[i + 1] = old[i]
  BY <1>1, <1>4, SoundFields, Zenon
<1>6. /\ s \in Seq(Entry) /\ Len(s) \in Nat /\ Len(s) >= 1 /\ Len(s) <= Len(p.lru)
      /\ \A i \in 1 .. Len(s) : s[i] = p.lru[i]
      /\ Len(s) < Len(p.lru) => OverLimit(OneMore(c', p.lru[Len(s) + 1]))
  BY <1>3, SoundFields, Zenon DEF Enforced, Less
<1> HIDE DEF s
<1>7. Len(s) <= Len(old) + 1 /\ s[1] = ent /\ \A i \in 1 .. Len(s) : s[i] = (<<ent>> \o old)[i]
  <2>1. 1 \in 1 .. Len(s) /\ Len(s) <= Len(old) + 1
    BY <1>5, <1>6
  <2> QED  BY <1>5, <1>6, <2>1, Zenon
<1>8. /\ s # <<>> /\ Head(s) = ent /\ Len(Tail(s)) = Len(s) - 1
      /\ \E n \in 0 .. Len(old) : Tail(s) = SubSeq(old, 1, n)
      /\ Tail(s) # old => Len(s) <= Len(old)
  BY <1>2, <1>5, <1>6, <1>7, CutPrefix, Zenon
<1>9. ASSUME Tail(s) # old  PROVE OverLimit(OneMore(c', old[Len(Tail(s)) + 1]))
  <2>1. Len(s) <= Len(old)
    BY <1>8, <1>9, Zenon
  <2>2. Len(s) < Len(p.lru) /\ Len(s) \in 1 .. Len(old) /\ Len(Tail(s)) + 1 = Len(s)
    <3>1. /\ Len(old) \in Nat /\ Len(p.lru) = Len(old) + 1 /\ Len(s) \in Nat /\ Len(s) >= 1
          /\ Len(Tail(s)) = Len(s) - 1
      BY <1>5, <1>6, <1>8, Zenon
    <3> QED  BY <2>1, <3>1
  <2>3. p.lru[Len(s) + 1] = old[Len(s)]
    BY <1>5, <2>2, Zenon
  <2>4. OverLimit(OneMore(c', p.lru[Len(s) + 1]))
    BY <1>6, <2>2
  <2> QED  BY <2>2, <2>3, <2>4, Zenon
<1> QED  BY <1>2, <1>8, <1>9, Zenon DEF s, old

\* enforceLimitsLocked never evicts the entry just stored, evicts from the back
\* of the list only, and stops as soon as both limits hold.
LEMMA EvictsOldestOnlyHolds == Spec => EvictsOldestOnly
<1>1. ASSUME LruInv, [Next /\ UNCHANGED scene]_<<vars, scene>>, NEW p \in Callers,
             Ran(p, "put"), Admits(c, EstimateSize(call[p].key, call[p].value))
      PROVE  LET key  == call[p].key
                 old  == Without(c, key)
                 kept == Tail(c'.lru)
             IN  /\ c'.lru # <<>> /\ Head(c'.lru).key = key
                 /\ \E n \in 0 .. Len(old) : kept = SubSeq(old, 1, n)
                 /\ kept # old =>
                      OverLimit([c' EXCEPT !.items = @ \cup {old[Len(kept) + 1].key},
                                           !.bytes = @ + old[Len(kept) + 1].estimatedSize])
  <2> DEFINE req == call[p]
  <2>1. req \in Locked /\ c' = Outcome(req) /\ req.op = "put"
    BY <1>1, EndedCall, Zenon
  <2>2. req.op # "delete" /\ req.op # "get"
    BY <2>1
  <2>3. /\ req.key \in Keys /\ req.value \in Values /\ req.expiresAt \in 0 .. MaxExpiry
        /\ c' = put(c, req.key, req.value, req.expiresAt)
    BY <2>1, <2>2, Requests, Zenon
  <2>4. req.value \in Nat /\ req.expiresAt \in Int
    <3>1. Values \subseteq Nat /\ MaxTime \in Nat
      BY <1>1, ScenesTyped DEF LruInv
    <3>2. MaxExpiry \in Nat
      BY <3>1, LongestTTL DEF MaxExpiry
    <3>3. req.value \in Values /\ req.expiresAt \in 0 .. MaxExpiry
      BY <2>3, Zenon
    <3>4. req.value \in Nat
      BY <3>1, <3>3, Zenon
    <3> QED  BY <3>2, <3>3, <3>4, RangeInt, Zenon
  <2>5. Sound(c)
    BY <1>1 DEF LruInv
  <2> QED  BY <1>1, <2>3, <2>4, <2>5, PutEvicts, Zenon DEF OneMore
<1>2. ASSUME LruInv, [Next /\ UNCHANGED scene]_<<vars, scene>>
      PROVE  [\A p \in Callers :
                LET key  == call[p].key
                    old  == Without(c, key)
                    kept == Tail(c'.lru)
                IN  Ran(p, "put") /\ Admits(c, EstimateSize(key, call[p].value)) =>
                      /\ c'.lru # <<>> /\ Head(c'.lru).key = key
                      /\ \E n \in 0 .. Len(old) : kept = SubSeq(old, 1, n)
                      /\ kept # old =>
                           OverLimit([c' EXCEPT !.items = @ \cup {old[Len(kept) + 1].key},
                                                !.bytes = @ + old[Len(kept) + 1].estimatedSize])]_vars
  BY <1>1, <1>2, Zenon
<1> QED  BY <1>2, LruInvariant, PTL DEF Spec, EvictsOldestOnly

\* A lookup that waits for the lock has read the clock at some earlier time, and
\* no grace is asked of a cache without stale fallback.
Timely ==
  \A p \in Callers :
    call[p] # Absent /\ call[p].op = "get" =>
      call[p].now <= clock /\ (call[p].allowStale \/ StaleGrace = 0)

LEMMA BeginTimely ==
  ASSUME LruInv, Timely, NEW p \in scene.callers, NEW req, Begin(p, req), UNCHANGED scene,
         req.op = "get" => req.now <= clock /\ (req.allowStale \/ StaleGrace = 0)
  PROVE  Timely'
<1>1. p \in Callers /\ call \in [Callers -> Locked \cup {Absent}]
  BY ScenesTyped DEF LruInv
<1>2. call' = [call EXCEPT ![p] = req] /\ clock' = clock /\ StaleGrace' = StaleGrace
  BY Zenon DEF Begin, StaleGrace
<1>3. \A q \in Callers : call'[q] = call[q] \/ call'[q] = req
  BY <1>1, <1>2
<1> QED  BY <1>2, <1>3, Zenon DEF Timely

LEMMA TimelyStep ==
  LruInv /\ Timely /\ [Next /\ UNCHANGED scene]_<<vars, scene>> => Timely'
<1> SUFFICES ASSUME LruInv, Timely, [Next /\ UNCHANGED scene]_<<vars, scene>> PROVE Timely'
  OBVIOUS
<1>1. scene' = scene /\ StaleGrace' = StaleGrace
  BY DEF StaleGrace
<1>2. clock \in Int /\ clock <= clock
  <2>1. MaxTime \in Nat /\ clock \in 0 .. MaxTime
    BY ScenesTyped DEF LruInv
  <2> QED  BY <2>1
<1>3. ASSUME NEW p \in scene.callers, Put(p)  PROVE Timely'
  <2>1. PICK key \in scene.keys, value \in Values, ttl \in TTLs :
               Begin(p, [op |-> "put", key |-> key, value |-> value, expiresAt |-> clock + ttl])
    BY <1>3, Zenon DEF Put
  <2> DEFINE req == [op |-> "put", key |-> key, value |-> value, expiresAt |-> clock + ttl]
  <2>2. req.op # "get"
    OBVIOUS
  <2> HIDE DEF req
  <2> QED  BY <1>1, <2>1, <2>2, BeginTimely, Zenon DEF req
<1>4. ASSUME NEW p \in scene.callers, PutUntil(p)  PROVE Timely'
  <2>1. PICK key \in scene.keys, value \in Values, expiresAt \in 0 .. MaxExpiry :
               \/ Begin(p, [op |-> "delete", key |-> key])
               \/ Begin(p, [op |-> "put", key |-> key, value |-> value, expiresAt |-> expiresAt])
    BY <1>4, Zenon DEF PutUntil
  <2> DEFINE del == [op |-> "delete", key |-> key]
             req == [op |-> "put", key |-> key, value |-> value, expiresAt |-> expiresAt]
  <2>2. del.op # "get" /\ req.op # "get"
    OBVIOUS
  <2>3. Begin(p, del) \/ Begin(p, req)
    BY <2>1
  <2> HIDE DEF del, req
  <2> QED  BY <1>1, <2>2, <2>3, BeginTimely, Zenon
<1>5. ASSUME NEW p \in scene.callers, NEW grace, NEW allowStale, Lookup(p, grace, allowStale),
             allowStale \/ StaleGrace = 0
      PROVE  Timely'
  <2>1. PICK key \in scene.keys :
               Begin(p, [op |-> "get", key |-> key, now |-> clock, grace |-> grace,
                         allowStale |-> allowStale])
    BY <1>5, Zenon DEF Lookup
  <2> DEFINE req == [op |-> "get", key |-> key, now |-> clock, grace |-> grace,
                     allowStale |-> allowStale]
  <2>2. req.now = clock /\ req.allowStale = allowStale
    OBVIOUS
  <2>3. Begin(p, req)
    BY <2>1
  <2> HIDE DEF req
  <2> QED  BY <1>1, <1>2, <1>5, <2>2, <2>3, BeginTimely, Zenon
<1>6. ASSUME NEW p \in scene.callers, Get(p) \/ GetStale(p)  PROVE Timely'
  BY <1>5, <1>6, Zenon DEF Get, GetStale
<1>7. ASSUME NEW p \in scene.callers, RunLocked(p)  PROVE Timely'
  <2>1. p \in Callers /\ call \in [Callers -> Locked \cup {Absent}]
    BY ScenesTyped DEF LruInv
  <2>2. call' = [call EXCEPT ![p] = Absent] /\ clock' = clock
    BY <1>7, Zenon DEF RunLocked
  <2>3. \A q \in Callers : call'[q] = call[q] \/ call'[q] = Absent
    BY <2>1, <2>2
  <2> QED  BY <1>1, <2>2, <2>3, Zenon DEF Timely
<1>8. CASE Tick
  <2>1. clock' = clock + 1 /\ call' = call
    BY <1>8, Zenon DEF Tick
  <2>2. ASSUME NEW q \in Callers, call[q] # Absent, call[q].op = "get"
        PROVE  call[q].now <= clock'
    <3>1. call[q] \in Locked /\ call[q].now <= clock
      BY <2>2, Zenon DEF LruInv, Timely
    <3>2. call[q].now \in 0 .. MaxTime
      BY <2>2, <3>1 DEF Locked
    <3> QED  BY <1>2, <2>1, <3>1, <3>2
  <2> QED  BY <1>1, <2>1, <2>2, Zenon DEF Timely
<1>9. CASE Delete \/ PurgeCache \/ CloseCache \/ UNCHANGED vars
  <2>1. call' = call /\ clock' = clock
    BY <1>9, Zenon DEF Delete, PurgeCache, CloseCache, Whole, vars
  <2> QED  BY <1>1, <2>1, Zenon DEF Timely
<1> QED  BY <1>3, <1>4, <1>6, <1>7, <1>8, <1>9, Zenon DEF Next, vars

\* What a lookup removes was not usable at the time it read.
LEMMA GetRemoves ==
  ASSUME NEW d, Sound(d), NEW key, NEW now, NEW grace, NEW allowStale,
         NEW k \in d.items \ get(d, key, now, grace, allowStale).items
  PROVE  k = key /\ ~Usable(d, key, now, grace, allowStale) /\ RemovesExpired(allowStale, grace)
<1> DEFINE e == get(d, key, now, grace, allowStale)
<1>1. e # d
  OBVIOUS
<1>2. Looked(d, e, key) /\ (Usable(d, key, now, grace, allowStale) => key \in e.items)
  BY GetSound, Zenon
<1>3. k = key
  BY <1>2, Zenon DEF Looked
<1>4. ~Usable(d, key, now, grace, allowStale)
  BY <1>2, <1>3
<1>5. RemovesExpired(allowStale, grace)
  BY <1>1, <1>3, <1>4, Zenon DEF get
<1> QED  BY <1>3, <1>4, <1>5

\* A lookup that waited for the lock, however long, takes away no entry that
\* could still be served, fresh or within the grace of stale fallback.
LEMMA LookupKeepsUsableHolds == Spec => LookupKeepsUsable
<1>1. ASSUME LruInv, Timely, [Next /\ UNCHANGED scene]_<<vars, scene>>, NEW p \in Callers,
             Ran(p, "get"), NEW k \in c.items \ c'.items
      PROVE  EntryOf(c, k).expiresAt + StaleGrace <= clock
  <2> DEFINE req == call[p]
             x == EntryOf(c, k).expiresAt
  <2>1. req \in Locked /\ c' = Outcome(req) /\ req.op = "get"
    BY <1>1, EndedCall, Zenon
  <2>2. req.op # "put" /\ req.op # "delete"
    BY <2>1
  <2>3. c' = get(c, req.key, req.now, req.grace, req.allowStale)
    BY <2>1, <2>2, Requests, Zenon
  <2>4. /\ k = req.key /\ ~Usable(c, k, req.now, req.grace, req.allowStale)
        /\ RemovesExpired(req.allowStale, req.grace)
    <3>1. Sound(c) /\ k \in c.items \ get(c, req.key, req.now, req.grace, req.allowStale).items
      BY <1>1, <2>3 DEF LruInv
    <3> HIDE DEF req
    <3>2. /\ k = req.key /\ ~Usable(c, req.key, req.now, req.grace, req.allowStale)
          /\ RemovesExpired(req.allowStale, req.grace)
      BY <3>1, GetRemoves, Zenon
    <3> QED  BY <3>2
  <2>5. req.now <= clock /\ (req.allowStale \/ StaleGrace = 0)
    BY <1>1, <2>1, Zenon DEF Timely, Ran
  <2>6. /\ req.now \in 0 .. MaxTime /\ req.grace \in {0, StaleGrace} /\ req.allowStale \in BOOLEAN
    BY <2>1 DEF Locked
  <2>7. x \in Int /\ clock \in Int /\ StaleGrace \in Nat /\ MaxTime \in Nat
    <3>1. StaleGrace \in Nat /\ MaxTime \in Nat /\ clock \in 0 .. MaxTime /\ x \in 0 .. MaxExpiry
      BY <1>1, ScenesTyped, Zenon DEF LruInv, Contents
    <3>2. MaxExpiry \in Nat
      BY <3>1, LongestTTL DEF MaxExpiry
    <3> QED  BY <3>1, <3>2, RangeInt, Zenon
  <2>8. ~(req.now < x + (IF req.allowStale THEN req.grace ELSE 0))
    BY <1>1, <2>4, Zenon DEF Usable
  <2>9. req.allowStale => req.grace # 0
    BY <2>4, Zenon DEF RemovesExpired
  <2> HIDE DEF req, x
  <2>10. x + StaleGrace <= clock
    BY <2>5, <2>6, <2>7, <2>8, <2>9
  <2> QED  BY <2>10 DEF x
<1>2. Init => Timely
  BY Zenon DEF Init, Timely
<1>3. ASSUME LruInv, Timely, [Next /\ UNCHANGED scene]_<<vars, scene>>
      PROVE  [\A p \in Callers : Ran(p, "get") =>
                \A k \in c.items \ c'.items : EntryOf(c, k).expiresAt + StaleGrace <= clock]_vars
  BY <1>1, <1>3, Zenon
<1> QED  BY <1>2, <1>3, TimelyStep, LruInvariant, PTL DEF Spec, LookupKeepsUsable

\* A call costs the cache no more than it must, for any keys, sizes, limits and
\* callers: a put evicts the oldest entries as far as the limits require, and a
\* lookup with an old reading of the clock removes only what is past all use.
THEOREM LossesAreJustified == Spec => LossesJustified
BY EvictsOldestOnlyHolds, LookupKeepsUsableHolds, PTL DEF LossesJustified

-----------------------------------------------------------------------------
(* The cache implements the lossy map.                                     *)

\* What Tier's variable tier is.
View(d) == [k \in Keys |-> IF k \in d.items THEN <<EntryOf(d, k).value, EntryOf(d, k).expiresAt>>
                                            ELSE Absent]

Contained == UNION {s.values \X (0 .. s.maxTime + Max(TTLs)) : s \in Scenarios}

LEMMA ContainedHas ==
  ASSUME scene \in Scenarios, NEW v \in Values, NEW x \in 0 .. MaxExpiry
  PROVE  <<v, x>> \in Contained
<1>1. <<v, x>> \in scene.values \X (0 .. scene.maxTime + Max(TTLs))
  BY Zenon DEF Values, MaxExpiry, MaxTime
<1> QED  BY <1>1, Zenon DEF Contained

LEMMA ViewTyped ==
  ASSUME LruInv
  PROVE  View(c) \in [Keys -> Contained \cup {Absent}]
<1>1. ASSUME NEW k \in Keys  PROVE View(c)[k] \in Contained \cup {Absent}
  <2>1. CASE k \in c.items
    <3>1. scene \in Scenarios /\ EntryOf(c, k).value \in Values /\ EntryOf(c, k).expiresAt \in 0 .. MaxExpiry
      BY <2>1, Zenon DEF LruInv, Contents
    <3>2. <<EntryOf(c, k).value, EntryOf(c, k).expiresAt>> \in Contained
      BY <3>1, ContainedHas, Zenon
    <3> QED  BY <2>1, <3>2, Zenon DEF View
  <2>2. CASE k \notin c.items
    BY <2>2, Zenon DEF View
  <2> QED  BY <2>1, <2>2
<1> QED  BY <1>1, Zenon DEF View

LEMMA ViewSame ==
  ASSUME NEW d, NEW e, e.items = d.items, \A k \in e.items : EntryOf(e, k) = EntryOf(d, k)
  PROVE  View(e) = View(d)
<1>1. \A k \in Keys : View(e)[k] = View(d)[k]
  BY Zenon DEF View
<1> QED  BY <1>1, Zenon DEF View

LEMMA ViewRemoved ==
  ASSUME NEW d, NEW e, NEW key \in Keys, e.items = d.items \ {key},
         \A k \in e.items : EntryOf(e, k) = EntryOf(d, k)
  PROVE  View(e) = [View(d) EXCEPT ![key] = Absent]
<1>1. \A k \in Keys : View(e)[k] = [View(d) EXCEPT ![key] = Absent][k]
  <2> TAKE k \in Keys
  <2>1. CASE k = key
    BY <2>1, Zenon DEF View
  <2>2. CASE k # key
    BY <2>2, Zenon DEF View
  <2> QED  BY <2>1, <2>2
<1> QED  BY <1>1, Zenon DEF View

LEMMA ViewLooked ==
  ASSUME NEW d, NEW e, NEW key \in Keys, Looked(d, e, key)
  PROVE  View(e) = View(d) \/ View(e) = [View(d) EXCEPT ![key] = Absent]
<1>1. \A k \in e.items : k \in d.items /\ EntryOf(e, k) = EntryOf(d, k)
  BY Zenon DEF Looked, Less
<1>2. e.items = d.items \/ e.items = d.items \ {key}
  BY <1>1, Zenon DEF Looked
<1>3. CASE e.items = d.items
  BY <1>1, <1>3, ViewSame, Zenon
<1>4. CASE e.items = d.items \ {key}
  BY <1>1, <1>4, ViewRemoved, Zenon
<1> QED  BY <1>2, <1>3, <1>4

\* The steps of Tier, in terms of the cache.
LEMMA TierSteps ==
  /\ \A key : View(c') = [View(c) EXCEPT ![key] = Absent] /\ c'.closed = c.closed
                => Abstract!Removed(key)
  /\ View(c') = [k \in Keys |-> Absent] /\ c'.closed \in {c.closed, TRUE} => Abstract!Cleared
  /\ \A key, ent :
       /\ ~c.closed /\ c'.closed = c.closed
       /\ View(c') \in [Keys -> Contained \cup {Absent}] /\ View(c')[key] = ent
       /\ \A k \in Keys \ {key} : View(c')[k] \in {View(c)[k], Absent}
       => Abstract!Stored(key, ent)
<1>1. ASSUME NEW key, View(c') = [View(c) EXCEPT ![key] = Absent], c'.closed = c.closed
      PROVE  Abstract!Removed(key)
  BY <1>1, Zenon DEF Abstract!Removed, View
<1>2. ASSUME View(c') = [k \in Keys |-> Absent], c'.closed \in {c.closed, TRUE}
      PROVE  Abstract!Cleared
  BY <1>2, Zenon DEF Abstract!Cleared, View
<1>3. ASSUME NEW key, NEW ent, ~c.closed, c'.closed = c.closed,
             View(c') \in [Keys -> Contained \cup {Absent}], View(c')[key] = ent,
             \A k \in Keys \ {key} : View(c')[k] \in {View(c)[k], Absent}
      PROVE  Abstract!Stored(key, ent)
  BY <1>3, Zenon DEF Abstract!Stored, View, Contained
<1> QED  BY <1>1, <1>2, <1>3, Zenon

LEMMA PutIsStored ==
  ASSUME LruInv, LruInv', UNCHANGED scene,
         NEW key \in Keys, NEW value \in Values, NEW expiresAt \in 0 .. MaxExpiry,
         PutDone(c, c', key, value, expiresAt)
  PROVE  Abstract!Next
<1>1. CASE Admits(c, EstimateSize(key, value))
  <2> DEFINE ent == <<value, expiresAt>>
  <2>1. ent \in Contained
    BY ContainedHas, Zenon DEF LruInv
  <2>2. ~c.closed /\ c'.closed = c.closed
    BY <1>1, Zenon DEF Admits, PutDone
  <2>3. View(c') \in [Keys -> Contained \cup {Absent}]
    <3>1. LruInv' => View(c') \in [Keys -> Contained \cup {Absent}]
      <4>1. (LruInv => View(c) \in [Keys -> Contained \cup {Absent}])'
        BY ViewTyped, PTL
      <4> QED  BY <4>1, Zenon DEF View, Contained
    <3> QED  BY <3>1
  <2>4. View(c')[key] = ent
    <3>1. key \in c'.items /\ EntryOf(c', key) = Stored(key, value, expiresAt)
      BY <1>1, Zenon DEF PutDone
    <3>2. Stored(key, value, expiresAt).value = value /\ Stored(key, value, expiresAt).expiresAt = expiresAt
      BY DEF Stored
    <3> QED  BY <3>1, <3>2, Zenon DEF View
  <2>5. ASSUME NEW k \in Keys \ {key}  PROVE View(c')[k] \in {View(c)[k], Absent}
    <3>1. CASE k \in c'.items
      <4>1. k \in c.items /\ EntryOf(c', k) = EntryOf(c, k)
        BY <3>1, Zenon DEF PutDone
      <4> QED  BY <3>1, <4>1, Zenon DEF View
    <3>2. CASE k \notin c'.items
      BY <3>2, Zenon DEF View
    <3> QED  BY <3>1, <3>2
  <2> HIDE DEF ent
  <2>6. Abstract!Stored(key, ent)
    BY <2>2, <2>3, <2>4, <2>5, TierSteps, Zenon
  <2> QED  BY <2>1, <2>6, Zenon DEF Abstract!Next, Contained
<1>2. CASE ~Admits(c, EstimateSize(key, value))
  <2>1. /\ c'.items = c.items \ {key} /\ c'.closed = c.closed
        /\ \A k \in c'.items : EntryOf(c', k) = EntryOf(c, k)
    BY <1>2, Zenon DEF PutDone, Less
  <2>2. Abstract!Removed(key)
    BY <2>1, ViewRemoved, TierSteps, Zenon
  <2> QED  BY <2>2, Zenon DEF Abstract!Next
<1> QED  BY <1>1, <1>2

\* The cache is still what it was to its callers.
TierStutters == View(c') = View(c) /\ c'.closed = c.closed

LEMMA LookedRefines ==
  ASSUME NEW key \in Keys, Looked(c, c', key)
  PROVE  Abstract!Next \/ TierStutters
<1>1. c'.closed = c.closed
  BY Zenon DEF Looked, Less
<1>2. CASE View(c') = View(c)
  BY <1>1, <1>2 DEF TierStutters
<1>3. CASE View(c') = [View(c) EXCEPT ![key] = Absent]
  BY <1>1, <1>3, TierSteps, Zenon DEF Abstract!Next
<1> QED  BY <1>2, <1>3, ViewLooked, Zenon

LEMMA CallRefines ==
  ASSUME LruInv, LruInv', NEW p \in scene.callers, UNCHANGED scene, RunLocked(p)
  PROVE  Abstract!Next \/ TierStutters
<1> DEFINE req == call[p]
<1>1. p \in Callers /\ Values \subseteq Nat /\ MaxTime \in Nat
  BY ScenesTyped DEF LruInv
<1>2. req \in Locked /\ c' = Outcome(req)
  BY <1>1 DEF RunLocked, LruInv
<1>3. Sound(c)
  BY DEF LruInv
<1> HIDE DEF req
<1>4. CASE /\ req.op = "put" /\ req.key \in Keys /\ req.value \in Values
           /\ req.expiresAt \in 0 .. MaxExpiry
           /\ Outcome(req) = put(c, req.key, req.value, req.expiresAt)
  <2>1. MaxExpiry \in Nat
    BY <1>1, LongestTTL DEF MaxExpiry
  <2>2. req.value \in Nat /\ req.expiresAt \in Int
    BY <1>1, <1>4, <2>1, RangeInt, Zenon
  <2>3. PutDone(c, c', req.key, req.value, req.expiresAt)
    BY <1>2, <1>3, <1>4, <2>2, PutSound, Zenon
  <2> QED  BY <1>4, <2>3, PutIsStored, Zenon
<1>5. CASE req.key \in Keys /\ Outcome(req) = removeLocked(c, req.key)
  <2>1. Looked(c, removeLocked(c, req.key), req.key)
    BY <1>3, RemoveSound, Zenon DEF Looked
  <2>2. Looked(c, c', req.key)
    BY <1>2, <1>5, <2>1, Zenon
  <2> QED  BY <1>5, <2>2, LookedRefines, Zenon
<1>6. CASE /\ req.key \in Keys
           /\ Outcome(req) = get(c, req.key, req.now, req.grace, req.allowStale)
  <2>1. Looked(c, c', req.key)
    BY <1>2, <1>3, <1>6, GetSound, Zenon
  <2> QED  BY <1>6, <2>1, LookedRefines, Zenon
<1> QED  BY <1>2, <1>4, <1>5, <1>6, Requests, Zenon

LEMMA WholeRefines ==
  ASSUME LruInv, Delete \/ PurgeCache \/ CloseCache
  PROVE  Abstract!Next \/ TierStutters
<1>1. Sound(c) /\ scene.keys \subseteq Keys
  BY ScenesTyped DEF LruInv
<1>2. CASE Delete
  <2>1. PICK key \in scene.keys : c' = removeLocked(c, key)
    BY <1>2, Zenon DEF Delete, Whole
  <2>2. Looked(c, removeLocked(c, key), key)
    BY <1>1, RemoveSound, Zenon DEF Looked
  <2>3. Looked(c, c', key) /\ key \in Keys
    BY <1>1, <2>1, <2>2, Zenon
  <2> QED  BY <2>3, LookedRefines, Zenon
<1>3. CASE PurgeCache \/ CloseCache
  <2>1. c' = Purge(c) \/ c' = Close(c)
    BY <1>3, Zenon DEF PurgeCache, CloseCache, Whole
  <2>2. c'.items = {} /\ c'.closed \in {c.closed, TRUE}
    <3>1. CASE c' = Purge(c)
      BY <1>1, <3>1, PurgeSound, Zenon
    <3>2. CASE c' = Close(c)
      BY <1>1, <3>2, PurgeSound, Zenon
    <3> QED  BY <2>1, <3>1, <3>2, Zenon
  <2>3. View(c') = [k \in Keys |-> Absent]
    <3>1. \A k \in Keys : View(c')[k] = Absent
      BY <2>2, Zenon DEF View
    <3> QED  BY <3>1, Zenon DEF View
  <2> QED  BY <2>2, <2>3, TierSteps, Zenon DEF Abstract!Next
<1> QED  BY <1>2, <1>3

\* The cache refines the lossy map of Tier, which the Service module builds on:
\* a put stores its entry and may cost others, a lookup costs at most the entry
\* looked up, and what is stored is never altered.
THEOREM CacheImplementsTier == Spec => ImplementsTier
<1>1. ASSUME Init  PROVE Abstract!Init
  <2>1. MaxBytes \in Nat /\ c = New(MaxBytes, MaxEntries)
    BY <1>1, ScenesTyped DEF Init
  <2>2. c.items = {} /\ c.closed = FALSE
    BY <2>1 DEF New
  <2> QED  BY <2>2, Zenon DEF Abstract!Init
<1>2. ASSUME LruInv, LruInv', [Next /\ UNCHANGED scene]_<<vars, scene>>
      PROVE  Abstract!Next \/ TierStutters
  <2>1. CASE UNCHANGED c
    BY <2>1, Zenon DEF TierStutters
  <2>2. CASE c' # c
    <3>1. Next /\ UNCHANGED scene
      BY <1>2, <2>2, Zenon DEF vars
    <3>2. \A p \in scene.callers : ~(Put(p) \/ PutUntil(p) \/ Get(p) \/ GetStale(p))
      BY <2>2, Zenon DEF Put, PutUntil, Get, GetStale, Lookup, Begin
    <3>3. ~Tick
      BY <2>2, Zenon DEF Tick
    <3>4. CASE \E p \in scene.callers : RunLocked(p)
      BY <1>2, <3>1, <3>4, CallRefines, Zenon
    <3>5. CASE Delete \/ PurgeCache \/ CloseCache
      BY <1>2, <3>5, WholeRefines, Zenon
    <3> QED  BY <3>1, <3>2, <3>3, <3>4, <3>5, Zenon DEF Next
  <2> QED  BY <2>1, <2>2
<1>3. ASSUME LruInv, LruInv', [Next /\ UNCHANGED scene]_<<vars, scene>>
      PROVE  [Abstract!Next]_<<View(c), c.closed>>
  BY <1>2, <1>3, Zenon DEF TierStutters
<1>4. ASSUME LruInv, LruInv', [Next /\ UNCHANGED scene]_<<vars, scene>>
      PROVE  [Abstract!Next]_<<[k \in Keys |-> IF k \in c.items
                                               THEN <<EntryOf(c, k).value, EntryOf(c, k).expiresAt>>
                                               ELSE Absent], c.closed>>
  BY <1>3, <1>4, Zenon DEF View
<1> QED  BY <1>1, <1>4, LruInvariant, PTL DEF Spec, ImplementsTier, Abstract!Spec
=============================================================================
