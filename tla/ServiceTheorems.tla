--------------------------- MODULE ServiceTheorems ----------------------------
(***************************************************************************)
(* What the request paths of the service guarantee for every number of     *)
(* keys, stripes and concurrent requests: the disciplines of ServiceInv    *)
(* are inductive together, and the properties follow from them.            *)
(***************************************************************************)
EXTENDS ServiceProofs, ServiceOrderProofs, ServiceTierProofs

\* A leaf goes to Zenon unless it names another prover.
USE Zenon

\* In every reachable state, for any number of keys, stripes and concurrent
\* requests, stripes are owned as the critical sections of the service say, and
\* every fill, candidate and write in hand that can still reach a tier is
\* current: the invariant that makes the epochs of withCurrentCacheEpoch work.
THEOREM StripeDisciplineHolds == Spec => []StripeDiscipline
<1>1. Init => StripeDiscipline
  BY InitSafe
<1>2. TypeOK /\ StripeDiscipline /\ TypeOK' /\ [Next]_vars => StripeDiscipline'
  BY NextSafe DEF IInv
<1> QED
  BY <1>1, <1>2, TypeCorrect, PTL DEF Spec

\* Neither tier ever retains an entry older than the last finalized write of its
\* key, whatever reads, fills, promotions, purges and writes overlapped it.
THEOREM SupersededEntriesGone == Spec => []NoSupersededEntry
<1>1. StripeDiscipline => NoSupersededEntry
  BY DEF StripeDiscipline, KeyInv, NoSupersededEntry
<1> QED
  BY <1>1, StripeDisciplineHolds, PTL

\* No key is ever held by both tiers, so promotion, reconciliation and
\* write-through never charge a key to both budgets.
THEOREM TiersStayDisjoint == Spec => []TiersDisjoint
<1>1. StripeDiscipline => TiersDisjoint
  BY DEF StripeDiscipline, KeyInv, TiersDisjoint
<1> QED
  BY <1>1, StripeDisciplineHolds, PTL

\* In every reachable state a mutation gate has one owner, a write past its
\* gates owns those of all its keys, and what it made at the origin is newer
\* than what is finalized until it is finalized itself.
THEOREM WriteDisciplineHolds == Spec => []WriteDiscipline
<1>1. Init => WriteDiscipline
  BY InitWrite
<1>2. /\ TypeOK /\ StripeDiscipline /\ WriteDiscipline
      /\ TypeOK' /\ [Next]_vars
      => WriteDiscipline'
  BY NextWrite
<1> QED
  BY <1>1, <1>2, TypeCorrect, StripeDisciplineHolds, PTL DEF Spec

\* ExecuteWrite finalizes the writes of one key in the order in which the origin
\* applied them, retries, failures and late replies included: the gate is held
\* from before the dispatch until after the write-through or invalidation.
THEOREM WritesFinalizedInOrder == Spec => FinalizedInOriginOrder
<1>1. /\ TypeOK /\ WriteDiscipline /\ TypeOK' /\ [Next]_vars
      => [\A k \in Keys : settled'[k] >= settled[k]]_settled
  BY NextFinalizes
<1> QED
  BY <1>1, TypeCorrect, WriteDisciplineHolds, PTL DEF Spec, FinalizedInOriginOrder

\* What a request has in hand, and what the flight it waits for has fetched, is
\* as new as every write that was acknowledged before the request looked the key
\* up: Forget takes a flight out of the group before the write is acknowledged.
THEOREM ReadDisciplineHolds == Spec => []ReadDiscipline
<1>1. Init => ReadDiscipline
  BY InitRead
<1>2. /\ TypeOK /\ StripeDiscipline /\ WriteDiscipline /\ ReadDiscipline
      /\ TypeOK' /\ [Next]_vars
      => ReadDiscipline'
  BY NextRead
<1> QED
  BY <1>1, <1>2, TypeCorrect, StripeDisciplineHolds, WriteDisciplineHolds, PTL DEF Spec

\* Get and MGet never answer with a version older than a write acknowledged
\* before the request began with the key, from a tier, a flight another request
\* leads, the origin or the stale fallback, whatever writes, purges and
\* promotions overlap the request.
THEOREM ReadsSeeWhatWasAcknowledged == Spec => []ReadsSeeAcknowledgedWrites
<1>1. ReadDiscipline => ReadsSeeAcknowledgedWrites
  BY DEF ReadDiscipline, FloorInv, ReadsSeeAcknowledgedWrites
<1> QED
  BY <1>1, ReadDisciplineHolds, PTL

\* Every copy in a tier, and everything on its way into one, is a version that
\* the origin has had, and, where tiers are only refilled from the origin
\* (RefillsOnly), no older than the last purge of its key.
THEOREM CopyDisciplineHolds == Spec => []CopyDiscipline
<1>1. Init => CopyDiscipline
  BY InitCopy
<1>2. /\ TypeOK /\ StripeDiscipline /\ WriteDiscipline /\ CopyDiscipline
      /\ TypeOK' /\ [Next]_vars
      => CopyDiscipline'
  BY NextCopy
<1> QED
  BY <1>1, <1>2, TypeCorrect, StripeDisciplineHolds, WriteDisciplineHolds, PTL DEF Spec

\* While no write of a key is between its dispatch and its finalization, what
\* the tiers hold of the key is what the origin holds, failed and retried writes
\* included, as long as nothing reaches the origin past the gates: finalizeWrite
\* and writeThroughSet leave no copy behind that the origin has moved on from.
THEOREM SettledTiersAreCoherent ==
  ASSUME Calm
  PROVE  Spec => []CoherentWhenSettled
<1>1. ASSUME TypeOK, StripeDiscipline, WriteDiscipline, CopyDiscipline, NEW k \in Keys,
             \A w \in Writers : k \in wkeys[w] /\ tries[w] > 0 =>
               wpc[w] \notin {"send", "sent", "final", "through", "throughStore"}
      PROVE  /\ Present(prot[k]) => prot[k].ver = origin[k].ver
             /\ Present(prob[k]) => prob[k].ver = origin[k].ver
  <2>1. \A w \in Writers : ~InDoubt(w, k)
    BY <1>1 DEF InDoubt, Underway
  <2>2. settled[k] = origin[k].ver
    BY <1>1, <2>1 DEF WriteDiscipline
  <2>3. /\ Present(prot[k]) => prot[k].ver >= settled[k]
        /\ Present(prob[k]) => prob[k].ver >= settled[k]
    BY <1>1 DEF StripeDiscipline, KeyInv
  <2>4. /\ Present(prot[k]) => prot[k].ver <= origin[k].ver
        /\ Present(prob[k]) => prob[k].ver <= origin[k].ver
    BY <1>1 DEF CopyDiscipline, InBounds
  <2>5. prot[k].ver \in Nat /\ prob[k].ver \in Nat /\ origin[k].ver \in Nat
    BY <1>1, CopyTypes
  <2>6. \A m, n \in Nat : m >= n /\ m <= n => m = n
    BY SMTT(30)
  <2> QED  BY <2>2, <2>3, <2>4, <2>5, <2>6
<1>2. TypeOK /\ StripeDiscipline /\ WriteDiscipline /\ CopyDiscipline => CoherentWhenSettled
  BY <1>1 DEF CoherentWhenSettled
<1> QED
  BY <1>2, TypeCorrect, StripeDisciplineHolds, WriteDisciplineHolds, CopyDisciplineHolds, PTL

\* PurgeCache, of a key or of everything: no value that was read from the origin
\* before the purge is in a tier after it, whatever fill or promotion was under
\* way, as long as no write-through may carry one across it.
THEOREM PurgedValuesStayOut ==
  ASSUME RefillsOnly
  PROVE  Spec => []NoRefillAcrossPurge
<1>1. CopyDiscipline => NoRefillAcrossPurge
  BY DEF CopyDiscipline, InBounds, NoRefillAcrossPurge
<1> QED
  BY <1>1, CopyDisciplineHolds, PTL

\* Close: a tier that has been closed stays empty, as every store looks at the
\* closed flag under the tier's lock.
THEOREM ClosedTiersStayEmpty == Spec => []ClosedTiersEmpty
<1>1. Init => ClosedTiersEmpty
  BY InitClosed
<1>2. TypeOK /\ ClosedTiersEmpty /\ [Next]_vars => ClosedTiersEmpty'
  BY NextClosed
<1> QED
  BY <1>1, <1>2, TypeCorrect, PTL DEF Spec

\* What is stored as HOT is HOT, or its demotion is reported and not applied yet,
\* and a demotion under way is of a key that is not HOT.
THEOREM HotDisciplineHolds == Spec => []HotDiscipline
<1>1. Init => HotDiscipline
  BY InitHot
<1>2. /\ TypeOK /\ StripeDiscipline /\ HotDiscipline
      /\ TypeOK' /\ [Next]_vars
      => HotDiscipline'
  BY NextHot
<1> QED
  BY <1>1, <1>2, TypeCorrect, StripeDisciplineHolds, PTL DEF Spec

\* Promotion, reconciliation and write-through leave no protected entry of a key
\* that is not HOT, except while applyTransitions has yet to remove it.
THEOREM ProtectedEntriesAreHot == Spec => []ProtectedIsHot
<1>1. HotDiscipline => ProtectedIsHot
  BY DEF HotDiscipline, HotOrReported, ProtectedIsHot
<1> QED
  BY <1>1, HotDisciplineHolds, PTL

\* applyTransitions: a demotion applied late does not erase the protected copy
\* of a key that is HOT again, when only admissions make a key HOT.
THEOREM HotCopiesAreKept ==
  ASSUME "promote" \notin Env
  PROVE  Spec => HotCopyKept
<1>1. /\ TypeOK /\ HotDiscipline /\ [Next]_vars
      => [\A p \in Procs, k \in Keys :
            k \in pend[p] \ pend'[p] /\ Present(prot[k]) /\ IsHot(k)
              => Present(prot'[k])]_vars
  BY NextKeepsHotCopy
<1> QED
  BY <1>1, TypeCorrect, HotDisciplineHolds, PTL DEF Spec, HotCopyKept

\* While no key is demoted or evicted, no tier refuses an entry and nothing is
\* purged or closed, the copy that a request found when it began is always where
\* the request has yet to look: getFreshCachedInState misses no value that is on
\* its way from the probationary to the protected tier.
THEOREM MoveDisciplineHolds ==
  ASSUME Steady
  PROVE  Spec => []MoveDiscipline
<1>1. Init => MoveDiscipline
  BY InitMove
<1>2. /\ TypeOK /\ StripeDiscipline /\ WriteDiscipline /\ HotDiscipline /\ MoveDiscipline
      /\ [Next]_vars
      => MoveDiscipline'
  BY NextMove
<1> QED
  BY <1>1, <1>2, TypeCorrect, StripeDisciplineHolds, WriteDisciplineHolds, HotDisciplineHolds,
     PTL DEF Spec

\* A read that found a servable copy when it began is answered locally even while
\* another read promotes the copy: as long as no write of the key has begun and
\* no copy has expired it never turns to the origin.
THEOREM FoundCopiesAreServed ==
  ASSUME Steady
  PROVE  Spec => []NoMissDuringPromotion
<1>1. MoveDiscipline => NoMissDuringPromotion
  BY DEF MoveDiscipline, FoundInv, Untouched, NoMissDuringPromotion
<1> QED
  BY <1>1, MoveDisciplineHolds, PTL
===============================================================================
