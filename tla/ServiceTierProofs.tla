--------------------------- MODULE ServiceTierProofs ---------------------------
(***************************************************************************)
(* Every step preserves CopyDiscipline, HotDiscipline, MoveDiscipline and  *)
(* ClosedTiersEmpty: which steps put a value into a tier, where the value  *)
(* comes from, what a purge, a demotion or Close leaves behind, and where  *)
(* the copy of a key is while it moves from one tier to the other.         *)
(***************************************************************************)
EXTENDS ServiceInv, TLAPS

\* A leaf goes to Zenon unless it names another prover.
USE Zenon

(***************************************************************************)
(* What a step may put into a tier.                                        *)
(***************************************************************************)
\* Every entry of u is one of t.
Loses(t, u) == \A k \in Keys : Present(u[k]) => Present(t[k]) /\ u[k].ver = t[k].ver

\* Every entry of u is one of t, or is the version v of k.
Gains(t, u, k, v) ==
  \A j \in Keys : Present(u[j]) => \/ j = k /\ u[j].ver = v
                                   \/ Present(t[j]) /\ u[j].ver = t[j].ver

\* The steps that store a value, with the key and the version they store.
Promotes(r, k, v) == pc[r] = "promote" /\ k = cur[r] /\ v = cand[r].ver
FillsProtected(r, k, v) == fpc[r] = "storeProt" /\ k = fkey[r] /\ v = got[r][k].ver
FillsProbation(r, k, v) == /\ fpc[r] = "storeProb" /\ k = fkey[r] /\ v = got[r][k].ver
                           /\ Probationary /\ IsTracked(k)
StoresThrough(w, k, v) ==
  wpc[w] = "throughStore" /\ whot[w] /\ k \in wkeys[w] /\ v = wver[w][k]

ProtSource(k, v) == \/ \E r \in Readers : Promotes(r, k, v) \/ FillsProtected(r, k, v)
                    \/ \E w \in Writers : StoresThrough(w, k, v)
ProbSource(k, v) == \E r \in Readers : FillsProbation(r, k, v)

ProtectedStep ==
  \/ Loses(prot, prot')
  \/ /\ ~closed["prot"]
     /\ \E k \in Keys, v \in Nat : ProtSource(k, v) /\ Gains(prot, prot', k, v)

ProbationStep ==
  \/ Loses(prob, prob')
  \/ /\ ~closed["prob"]
     /\ \E k \in Keys, v \in Nat : ProbSource(k, v) /\ Gains(prob, prob', k, v)

LEMMA LosesNothing ==
  ASSUME NEW t
  PROVE  Loses(t, t)
BY DEF Loses

LEMMA LosesKey ==
  ASSUME NEW t \in [Keys -> Entry], NEW k \in Keys
  PROVE  Loses(t, Without(t, k)) /\ ~Present(Without(t, k)[k])
BY DEF Loses, Without, NoEntry, Present, Entry

LEMMA LosesExpired ==
  ASSUME NEW t \in [Keys -> Entry], NEW k \in Keys, NEW keep
  PROVE  Loses(t, AfterGet(t, k, keep))
BY LosesKey, LosesNothing DEF AfterGet

LEMMA LosesAll ==
  ASSUME NEW t
  PROVE  /\ Loses(t, [k \in Keys |-> NoEntry])
         /\ \A k \in Keys : ~Present([j \in Keys |-> NoEntry][k])
BY DEF Loses, NoEntry, Present

LEMMA GainsOne ==
  ASSUME NEW t \in [Keys -> Entry], NEW shut, NEW k \in Keys, NEW v \in Nat,
         NEW u \in Put(t, shut, k, v)
  PROVE  Loses(t, u) \/ (~shut /\ Gains(t, u, k, v))
<1> DEFINE Stored(E) == [j \in Keys |-> IF j = k THEN [ver |-> v, age |-> "fresh"]
                                        ELSE IF j \in E THEN NoEntry ELSE t[j]]
<1>1. \/ u = Without(t, k)
      \/ ~shut /\ u = Stored({})
      \/ ~shut /\ \E E \in SUBSET (Keys \ {k}) : u = Stored(E)
  BY DEF Put, Refuses
<1>2. CASE u = Without(t, k)
  BY <1>2, LosesKey
<1>3. ASSUME NEW E, u = Stored(E)
      PROVE  Gains(t, u, k, v)
  BY <1>3, SMT DEF NoEntry, Present, Gains
<1> HIDE DEF Stored
<1> QED  BY <1>1, <1>2, <1>3

LEMMA TierTypes ==
  ASSUME TypeOK
  PROVE  prot \in [Keys -> Entry] /\ prob \in [Keys -> Entry]
BY DEF TypeOK, TypeShared

LEMMA RequestTypes ==
  ASSUME TypeOK, NEW r \in Readers
  PROVE  /\ cur[r] \in Keys /\ cand[r].ver \in Nat /\ todo[r] \subseteq Keys
         /\ fkey[r] \in Keys /\ ftodo[r] \subseteq Keys
         /\ \A k \in Keys : got[r][k].ver \in Nat /\ ep[r][k] \in Nat
         /\ r \in Procs
<1>1. cand[r] \in Entry /\ \A k \in Keys : got[r][k] \in Value
  BY DEF TypeOK, TypeReader, TypeFill
<1>2. cand[r].ver \in Nat /\ \A k \in Keys : got[r][k].ver \in Nat
  BY <1>1 DEF Entry, Value
<1>3. cur[r] \in Keys /\ todo[r] \subseteq Keys /\ fkey[r] \in Keys /\ ftodo[r] \subseteq Keys
  BY DEF TypeOK, TypeReader, TypeFill
<1>4. \A k \in Keys : ep[r][k] \in Nat
  BY DEF TypeOK, TypeReader
<1> QED  BY <1>2, <1>3, <1>4 DEF Procs

LEMMA DemotionTiers ==
  ASSUME TypeOK, NEW p \in Procs, ApplyDemotion(p)
  PROVE  /\ Loses(prot, prot') /\ Loses(prob, prob')
         /\ \/ prot' = prot
            \/ drop[p] \in Keys /\ ~Present(prot'[drop[p]])
<1>1. \/ prot' = prot /\ prob' = prob
      \/ /\ drop[p] \in Keys
         /\ prot' = Without(prot, drop[p]) /\ prob' = Without(prob, drop[p])
  BY DEF ApplyDemotion
<1> QED  BY <1>1, TierTypes, LosesKey, LosesNothing

LEMMA ReaderTiers ==
  ASSUME TypeOK, NEW r \in Readers, ReaderStep(r) \/ ReadTimeout(r)
  PROVE  ProtectedStep /\ Loses(prob, prob')
<1> USE TierTypes, RequestTypes
<1>1. CASE \/ Observe(r) \/ RecheckHot(r) \/ LoadPromotionFlag(r) \/ AdmitCandidate(r)
           \/ SetPromotionFlag(r) \/ ClearPromotionFlag(r) \/ Miss(r) \/ Join(r)
           \/ Receive(r) \/ ReadTimeout(r) \/ FetchBypass(r) \/ FetchMissing(r)
           \/ FinishMGet(r)
  <2>1. prot' = prot /\ prob' = prob
    BY <1>1 DEF Observe, RecheckHot, LoadPromotionFlag, AdmitCandidate, SetPromotionFlag,
         ClearPromotionFlag, Miss, Join, Receive, ReadTimeout, FetchBypass, FetchMissing,
         FinishMGet, AnswerFrame
  <2> QED  BY <2>1, LosesNothing DEF ProtectedStep
<1>2. CASE HandleObservation(r) \/ HandleAdmission(r)
  BY <1>2, DemotionTiers DEF HandleObservation, HandleAdmission, ProtectedStep
<1>3. CASE LookProtected(r) \/ LookProtectedLocked(r) \/ TakeStripe(r) \/ LookProbationary(r)
  <2>1. /\ prot' = prot \/ prot' = AfterGet(prot, cur[r], AllowStale)
        /\ prob' = prob \/ prob' = AfterGet(prob, cur[r], FALSE)
    BY <1>3 DEF LookProtected, LookProtectedLocked, TakeStripe, LookProbationary,
         GetFreshProtected
  <2> QED  BY <2>1, LosesExpired, LosesNothing DEF ProtectedStep
<1>4. CASE RemoveCandidate(r)
  BY <1>4, LosesKey, LosesNothing DEF RemoveCandidate, AfterTaking, ProtectedStep
<1>5. CASE PromoteCandidate(r)
  <2>1. /\ pc[r] = "promote" /\ prob' = prob
        /\ prot' \in Put(prot, closed["prot"], cur[r], cand[r].ver)
    BY <1>5 DEF PromoteCandidate
  <2>2. ProtSource(cur[r], cand[r].ver)
    BY <2>1 DEF ProtSource, Promotes
  <2>3. \/ Loses(prot, prot')
        \/ ~closed["prot"] /\ Gains(prot, prot', cur[r], cand[r].ver)
    BY <2>1, GainsOne
  <2> QED  BY <2>1, <2>2, <2>3, LosesNothing DEF ProtectedStep
<1>6. CASE StaleFallback(r)
  <2>1. prob' = prob /\ (prot' = prot \/ \E k \in Keys : prot' = Without(prot, k))
    BY <1>6 DEF StaleFallback, AnswerFrame
  <2> QED  BY <2>1, LosesKey, LosesNothing DEF ProtectedStep
<1> QED  BY <1>1, <1>2, <1>3, <1>4, <1>5, <1>6 DEF ReaderStep

LEMMA FillTiers ==
  ASSUME TypeOK, NEW r \in Readers, FillStep(r)
  PROVE  ProtectedStep /\ ProbationStep
<1> USE TierTypes, RequestTypes, LosesNothing
<1>1. CASE FlightFetch(r) \/ FillCheck(r) \/ FlightDone(r)
  <2>1. prot' = prot /\ prob' = prob
    BY <1>1 DEF FlightFetch, FillCheck, FlightDone
  <2> QED  BY <2>1 DEF ProtectedStep, ProbationStep
<1>2. CASE FillDrop(r)
  <2>1. /\ prot' = prot \/ prot' = Without(prot, fkey[r])
        /\ prob' = prob \/ prob' = Without(prob, fkey[r])
    BY <1>2 DEF FillDrop
  <2> QED  BY <2>1, LosesKey DEF ProtectedStep, ProbationStep
<1>3. CASE FillStore(r)
  <2> DEFINE k == fkey[r]
             v == got[r][k].ver
  <2>1. /\ \/ prot' = prot
           \/ fpc[r] = "storeProt" /\ prot' \in Put(prot, closed["prot"], k, v)
        /\ \/ prob' = prob
           \/ /\ fpc[r] = "storeProb" /\ Probationary /\ IsTracked(k)
              /\ prob' \in Put(prob, closed["prob"], k, v)
    BY <1>3 DEF FillStore
  <2>2. v \in Nat
    OBVIOUS
  <2>3. ASSUME fpc[r] = "storeProt", prot' \in Put(prot, closed["prot"], k, v)
        PROVE  ProtectedStep
    <3>1. ProtSource(k, v)
      BY <2>3 DEF ProtSource, FillsProtected
    <3>2. Loses(prot, prot') \/ (~closed["prot"] /\ Gains(prot, prot', k, v))
      BY <2>2, <2>3, GainsOne
    <3> QED  BY <2>2, <3>1, <3>2 DEF ProtectedStep
  <2>4. ASSUME fpc[r] = "storeProb", Probationary, IsTracked(k),
               prob' \in Put(prob, closed["prob"], k, v)
        PROVE  ProbationStep
    <3>1. ProbSource(k, v)
      BY <2>4 DEF ProbSource, FillsProbation
    <3>2. Loses(prob, prob') \/ (~closed["prob"] /\ Gains(prob, prob', k, v))
      BY <2>2, <2>4, GainsOne
    <3> QED  BY <2>2, <3>1, <3>2 DEF ProbationStep
  <2>5. (prot' = prot => ProtectedStep) /\ (prob' = prob => ProbationStep)
    BY DEF ProtectedStep, ProbationStep
  <2> QED  BY <2>1, <2>3, <2>4, <2>5
<1> QED  BY <1>1, <1>2, <1>3 DEF FillStep

LEMMA WriterTiers ==
  ASSUME TypeOK, NEW w \in Writers,
         WriterStep(w) \/ GateTimeout(w) \/ Retry(w) \/ LateApply(w)
  PROVE  ProtectedStep /\ Loses(prob, prob')
<1> USE TierTypes, LosesNothing
<1>1. wkeys[w] \subseteq Keys /\ wtodo[w] \subseteq Keys /\ \A k \in Keys : wver[w][k] \in Nat
  BY DEF TypeOK, TypeWriter
<1>2. CASE \/ AcquireGate(w) \/ Dispatch(w) \/ WriteReply(w) \/ WriteError(w) \/ Forget(w)
           \/ Release(w) \/ WriteReturn(w) \/ GateTimeout(w) \/ Retry(w) \/ LateApply(w)
  <2>1. prot' = prot /\ prob' = prob
    BY <1>2 DEF AcquireGate, Dispatch, WriteReply, WriteError, Forget, Release, WriteReturn,
         GateTimeout, Retry, LateApply, OriginFrame
  <2> QED  BY <2>1 DEF ProtectedStep
<1>3. CASE InvalidateKeys(w)
  <2>1. \E k \in Keys : prot' = Without(prot, k) /\ prob' = Without(prob, k)
    BY <1>1, <1>3 DEF InvalidateKeys, InvalidateKey
  <2> QED  BY <2>1, LosesKey DEF ProtectedStep
<1>4. CASE WriteThrough(w)
  <2>1. prot' = prot /\ \E k \in Keys : prob' = Without(prob, k)
    BY <1>1, <1>4 DEF WriteThrough
  <2> QED  BY <2>1, LosesKey DEF ProtectedStep
<1>5. CASE WriteThroughStore(w)
  <2>1. prob' = prob /\ wpc[w] = "throughStore"
    BY <1>5 DEF WriteThroughStore
  <2>2. PICK k \in wkeys[w] :
          prot' \in IF whot[w] THEN Put(prot, closed["prot"], k, wver[w][k])
                    ELSE {Without(prot, k)}
    BY <1>5 DEF WriteThroughStore
  <2>3. k \in Keys /\ wver[w][k] \in Nat
    BY <1>1
  <2>4. CASE ~whot[w]
    BY <2>1, <2>2, <2>3, <2>4, LosesKey DEF ProtectedStep
  <2>5. CASE whot[w]
    <3>1. ProtSource(k, wver[w][k])
      BY <2>1, <2>2, <2>5 DEF ProtSource, StoresThrough
    <3>2. Loses(prot, prot') \/ (~closed["prot"] /\ Gains(prot, prot', k, wver[w][k]))
      BY <2>2, <2>3, <2>5, GainsOne
    <3> QED  BY <2>1, <2>3, <3>1, <3>2 DEF ProtectedStep
  <2> QED  BY <2>4, <2>5
<1> QED  BY <1>2, <1>3, <1>4, <1>5 DEF WriterStep

LEMMA AdminTiers ==
  ASSUME TypeOK, NEW a \in Admins, AdminStep(a)
  PROVE  Loses(prot, prot') /\ Loses(prob, prob')
<1> USE TierTypes, LosesNothing, LosesAll
<1>1. CASE AdvanceTracker(a) \/ ForgetPurged(a) \/ LockAllStripes(a) \/ AdvanceEpochs(a)
  BY <1>1 DEF AdvanceTracker, ForgetPurged, LockAllStripes, AdvanceEpochs
<1>2. CASE HandleTransitions(a)
  BY <1>2, DemotionTiers DEF HandleTransitions, Procs
<1>3. CASE PurgeKey(a)
  <2>1. akey[a] \in Keys
    BY DEF TypeOK, TypeAdmin
  <2> QED  BY <1>3, <2>1, LosesKey DEF PurgeKey, InvalidateKey
<1>4. CASE PurgeTier(a)
  BY <1>4 DEF PurgeTier
<1>5. CASE CloseService(a)
  BY <1>5 DEF CloseService
<1> QED  BY <1>1, <1>2, <1>3, <1>4, <1>5 DEF AdminStep

LEMMA EnvironmentTiers ==
  ASSUME TypeOK, NEW k \in Keys, Expire(k) \/ ExternalWrite(k)
  PROVE  Loses(prot, prot') /\ Loses(prob, prob')
<1> USE TierTypes, LosesNothing
<1>1. ASSUME NEW t \in [Keys -> Entry], Present(t[k]), NEW age
      PROVE  Loses(t, [t EXCEPT ![k].age = age])
  BY <1>1 DEF Loses, Present, Entry
<1>2. /\ prot' = prot \/ \E age : Present(prot[k]) /\ prot' = [prot EXCEPT ![k].age = age]
      /\ prob' = prob \/ \E age : Present(prob[k]) /\ prob' = [prob EXCEPT ![k].age = age]
  <2>1. CASE Expire(k)
    BY <2>1 DEF Expire, Aged, Present, Fresh
  <2>2. CASE ExternalWrite(k)
    BY <2>2 DEF ExternalWrite
  <2> QED  BY <2>1, <2>2
<1>3. \A age : Present(prot[k]) => Loses(prot, [prot EXCEPT ![k].age = age])
  BY <1>1
<1>4. \A age : Present(prob[k]) => Loses(prob, [prob EXCEPT ![k].age = age])
  BY <1>1
<1>5. Loses(prot, prot) /\ Loses(prob, prob)
  OBVIOUS
<1> HIDE TierTypes, LosesNothing
<1>6. Loses(prot, prot')
  BY <1>2, <1>3, <1>5
<1>7. Loses(prob, prob')
  BY <1>2, <1>4, <1>5
<1> QED  BY <1>6, <1>7

LEMMA NextTiers ==
  ASSUME TypeOK, [Next]_vars
  PROVE  ProtectedStep /\ ProbationStep
<1>1. CASE \E r \in Readers : ReaderStep(r) \/ ReadTimeout(r) \/ FillStep(r)
  BY <1>1, ReaderTiers, FillTiers DEF ProbationStep
<1>2. CASE \E w \in Writers : WriterStep(w) \/ GateTimeout(w) \/ Retry(w) \/ LateApply(w)
  BY <1>2, WriterTiers DEF ProbationStep
<1>3. CASE \E a \in Admins : AdminStep(a)
  BY <1>3, AdminTiers DEF ProtectedStep, ProbationStep
<1>4. CASE \E k \in Keys : Expire(k) \/ ExternalWrite(k)
  BY <1>4, EnvironmentTiers DEF ProtectedStep, ProbationStep
<1>5. CASE UNCHANGED vars
  BY <1>5, LosesNothing DEF vars, sharedVars, ProtectedStep, ProbationStep
<1> QED  BY <1>1, <1>2, <1>3, <1>4, <1>5 DEF Next, Idle
-----------------------------------------------------------------------------
(***************************************************************************)
(* Close.                                                                  *)
(***************************************************************************)
LEMMA ClosedStep ==
  ASSUME TypeOK, [Next]_vars
  PROVE  /\ closed'["prot"] => closed["prot"] \/ \A k \in Keys : ~Present(prot'[k])
         /\ closed'["prob"] => closed["prob"] \/ \A k \in Keys : ~Present(prob'[k])
<1>1. CASE closed' = closed
  BY <1>1
<1>2. CASE \E a \in Admins : CloseService(a)
  <2>1. closed \in [Parts -> BOOLEAN]
    BY DEF TypeOK, TypeShared
  <2> QED  BY <1>2, <2>1, LosesAll DEF CloseService, Parts
<1>3. closed' = closed \/ \E a \in Admins : CloseService(a)
  <2>1. ASSUME NEW r \in Readers, ReaderStep(r) \/ ReadTimeout(r)
        PROVE  closed' = closed
    <3>1. \/ LookupFrame \/ AnswerFrame \/ ReaderFrame
      BY <2>1 DEF ReaderStep, Observe, HandleObservation, LookProtected, LookProbationary,
           RecheckHot, LoadPromotionFlag, LookProtectedLocked, TakeStripe, AdmitCandidate,
           SetPromotionFlag, RemoveCandidate, PromoteCandidate, ClearPromotionFlag,
           HandleAdmission, Miss, Join, Receive, ReadTimeout, FetchBypass, FetchMissing,
           FinishMGet, StaleFallback
    <3> QED  BY <3>1 DEF LookupFrame, AnswerFrame, ReaderFrame
  <2>2. CASE \E r \in Readers : FillStep(r)
    BY <2>2 DEF FillStep, FlightFetch, FillCheck, FillDrop, FillStore, FlightDone, FillFrame
  <2>3. ASSUME NEW w \in Writers, WriterStep(w) \/ GateTimeout(w) \/ Retry(w) \/ LateApply(w)
        PROVE  closed' = closed
    <3>1. OriginFrame \/ WriterFrame
      BY <2>3 DEF WriterStep, AcquireGate, InvalidateKeys, Dispatch, WriteReply, WriteError,
           WriteThrough, WriteThroughStore, Forget, Release, WriteReturn, GateTimeout, Retry,
           LateApply
    <3> QED  BY <3>1 DEF OriginFrame, WriterFrame
  <2>4. CASE \E a \in Admins : AdminStep(a)
    BY <2>4 DEF AdminStep, AdvanceTracker, HandleTransitions, PurgeKey, ForgetPurged,
         LockAllStripes, PurgeTier, AdvanceEpochs
  <2>5. CASE (\E k \in Keys : Expire(k) \/ ExternalWrite(k)) \/ UNCHANGED vars
    BY <2>5 DEF Expire, ExternalWrite, vars, sharedVars
  <2> QED  BY <2>1, <2>2, <2>3, <2>4, <2>5 DEF Next, Idle
<1> QED  BY <1>1, <1>2, <1>3

LEMMA NextClosed ==
  ASSUME TypeOK, ClosedTiersEmpty, [Next]_vars
  PROVE  ClosedTiersEmpty'
<1>1. ASSUME NEW k \in Keys, closed["prot"]
      PROVE  ~Present(prot'[k])
  BY <1>1, NextTiers DEF ProtectedStep, Loses, ClosedTiersEmpty
<1>2. ASSUME NEW k \in Keys, closed["prob"]
      PROVE  ~Present(prob'[k])
  BY <1>2, NextTiers DEF ProbationStep, Loses, ClosedTiersEmpty
<1> QED  BY <1>1, <1>2, ClosedStep DEF ClosedTiersEmpty

LEMMA InitClosed ==
  ASSUME Init
  PROVE  ClosedTiersEmpty
BY DEF Init, ClosedTiersEmpty, Parts
-----------------------------------------------------------------------------
(***************************************************************************)
(* What a request and its fill have in hand.                               *)
(***************************************************************************)
Filling == {"lock"} \cup Reconciling
InHand == Holding \ {"flagOff"}

\* A candidate in hand was in hand before, or was just taken from probation.
HandKept(r) ==
  pc'[r] \in InHand =>
    /\ cur'[r] = cur[r]
    /\ \/ pc[r] \in InHand /\ cand'[r] = cand[r]
       \/ Present(prob[cur[r]]) /\ cand'[r] = prob[cur[r]] /\ UNCHANGED <<origin, purged>>

\* A value to be reconciled was to be before, or was just read from the origin.
FillKept(r) ==
  \A k \in Keys :
    fpc'[r] \in Filling /\ k \in ftodo'[r] =>
      \/ /\ fpc[r] \in Filling /\ k \in ftodo[r]
         /\ ep'[r][k] = ep[r][k] /\ got'[r][k] = got[r][k]
      \/ got'[r][k] = origin[k] /\ UNCHANGED <<origin, purged>>

SameHand(r) == pc'[r] = pc[r] /\ cur'[r] = cur[r] /\ cand'[r] = cand[r]
SameFill(r) == fpc'[r] = fpc[r] /\ ftodo'[r] = ftodo[r] /\ ep'[r] = ep[r] /\ got'[r] = got[r]

LEMMA SameKept ==
  ASSUME NEW r \in Readers
  PROVE  (SameHand(r) => HandKept(r)) /\ (SameFill(r) => FillKept(r))
BY DEF SameHand, SameFill, HandKept, FillKept

LEMMA ReaderFrames ==
  ASSUME NEW r \in Readers, ReaderStep(r) \/ ReadTimeout(r)
  PROVE  ReaderFrame
BY DEF ReaderStep, Observe, HandleObservation, LookProtected, LookProbationary,
     RecheckHot, LoadPromotionFlag, LookProtectedLocked, TakeStripe, AdmitCandidate,
     SetPromotionFlag, RemoveCandidate, PromoteCandidate, ClearPromotionFlag,
     HandleAdmission, Miss, Join, Receive, ReadTimeout, FetchBypass, FetchMissing,
     FinishMGet, StaleFallback, LookupFrame, AnswerFrame

LEMMA WriterFrames ==
  ASSUME NEW w \in Writers, WriterStep(w) \/ GateTimeout(w) \/ Retry(w) \/ LateApply(w)
  PROVE  WriterFrame
BY DEF WriterStep, AcquireGate, InvalidateKeys, Dispatch, WriteReply, WriteError,
     WriteThrough, WriteThroughStore, Forget, Release, WriteReturn, GateTimeout, Retry,
     LateApply, OriginFrame

LEMMA AdminFrames ==
  ASSUME NEW a \in Admins, AdminStep(a)
  PROVE  AdminFrame
BY DEF AdminStep, AdvanceTracker, HandleTransitions, PurgeKey, ForgetPurged,
     LockAllStripes, PurgeTier, AdvanceEpochs, CloseService

LEMMA FillFrames ==
  ASSUME NEW r \in Readers, FillStep(r)
  PROVE  FillFrame
BY DEF FillStep, FlightFetch, FillCheck, FillDrop, FillStore, FlightDone

LEMMA Labels ==
  /\ \A r \in Readers, missing \in SUBSET Keys :
       AfterKey(r, missing) \in {"next", "mfetch", "done"}
  /\ \A k, h : Lookup(k, h) \in {"miss", "lookProt", "lookProb"}
BY DEF AfterKey, Lookup

LEMMA GoesTo ==
  ASSUME TypeOK, NEW r \in Readers, NEW label, Goto(r, label)
  PROVE  pc'[r] = label /\ \A q \in Readers \ {r} : pc'[q] = pc[q]
BY DEF TypeOK, TypeReader, Goto

LEMMA FillGoesTo ==
  ASSUME TypeOK, NEW r \in Readers, NEW label, fpc' = [fpc EXCEPT ![r] = label]
  PROVE  fpc'[r] = label /\ \A q \in Readers \ {r} : fpc'[q] = fpc[q]
BY DEF TypeOK, TypeFill

LEMMA FillLeaves ==
  ASSUME TypeOK, NEW r \in Readers, NEW k, ftodo' = [ftodo EXCEPT ![r] = ftodo[r] \ {k}]
  PROVE  ftodo'[r] \subseteq ftodo[r] /\ \A q \in Readers \ {r} : ftodo'[q] = ftodo[q]
BY DEF TypeOK, TypeFill

\* Where a request goes after the promotion section.
LEMMA PromotionGoes ==
  ASSUME TypeOK, NEW r \in Readers, NEW D, NEW c, AfterPromotion(r, D, c)
  PROVE  /\ \A q \in Readers \ {r} : pc'[q] = pc[q]
         /\ \/ D # {} /\ pc'[r] = "admitted"
            \/ D = {} /\ pc'[r] \in {"next", "mfetch", "done", "miss"}
<1>1. miss[r] \in SUBSET Keys
  BY DEF TypeOK, TypeReader
<1>2. \E label : /\ Goto(r, label)
                 /\ \/ D # {} /\ label = "admitted"
                    \/ D = {} /\ label \in {AfterKey(r, miss[r]), "miss"}
  BY DEF AfterPromotion, NoHit, Hit
<1> QED  BY <1>1, <1>2, GoesTo, Labels

\* Where it goes after a local lookup.
LEMMA LookupGoes ==
  ASSUME TypeOK, NEW r \in Readers,
         \/ LookProtected(r) \/ LookProbationary(r) \/ RecheckHot(r) \/ LoadPromotionFlag(r)
         \/ LookProtectedLocked(r)
  PROVE  /\ \A q \in Readers \ {r} : pc'[q] = pc[q]
         /\ pc'[r] \in {"next", "mfetch", "done", "miss", "lookProb", "lockCand", "recheck",
                        "flag", "lockProt", "lateProt"}
<1>1. miss[r] \in SUBSET Keys
  BY DEF TypeOK, TypeReader
<1> DEFINE Goal == {AfterKey(r, miss[r]), "miss", "lookProb", "lockCand", "recheck",
                    "flag", "lockProt", "lateProt"}
<1>2. CASE LookProtected(r)
  <2>1. \E label \in Goal : Goto(r, label)
    BY <1>2 DEF LookProtected, NoHit, Hit
  <2> QED  BY <1>1, <2>1, GoesTo, Labels
<1>3. CASE LookProbationary(r)
  <2>1. \E label \in Goal : Goto(r, label)
    BY <1>3 DEF LookProbationary, NoHit
  <2> QED  BY <1>1, <2>1, GoesTo, Labels
<1>4. CASE RecheckHot(r) \/ LoadPromotionFlag(r)
  <2>1. \E label \in Goal : Goto(r, label)
    BY <1>4 DEF RecheckHot, LoadPromotionFlag, NoHit
  <2> QED  BY <1>1, <2>1, GoesTo, Labels
<1>5. CASE LookProtectedLocked(r)
  <2>1. \E label \in Goal : Goto(r, label)
    BY <1>5 DEF LookProtectedLocked, NoHit, Hit
  <2> QED  BY <1>1, <2>1, GoesTo, Labels
<1> QED  BY <1>2, <1>3, <1>4, <1>5

\* Where the other reads go.
LEMMA AnswerGoes ==
  ASSUME TypeOK, NEW r \in Readers,
         \/ Observe(r) \/ HandleObservation(r) \/ Miss(r) \/ Join(r) \/ Receive(r)
         \/ ReadTimeout(r) \/ FetchBypass(r) \/ FetchMissing(r) \/ FinishMGet(r)
         \/ StaleFallback(r)
  PROVE  /\ \A q \in Readers \ {r} : pc'[q] = pc[q]
         /\ pc'[r] \in {"obs", "miss", "lookProt", "lookProb", "next", "mfetch", "done",
                        "join", "wait", "fetch", "fill", "stale"}
<1> DEFINE Goal == {"obs", "miss", "lookProt", "lookProb", "next", "mfetch", "done",
                    "join", "wait", "fetch", "fill", "stale"}
<1>0. cur[r] \in Keys /\ hot[r] \in BOOLEAN /\ todo[r] \subseteq Keys /\ pc \in [Readers -> ReaderPC]
  BY DEF TypeOK, TypeReader
<1>1. CASE Observe(r)
  <2>1. Goto(r, "miss") \/ Goto(r, "obs") \/ \E k, h : Goto(r, Lookup(k, h))
    BY <1>1 DEF Observe
  <2> QED  BY <2>1, GoesTo, Labels
<1>2. CASE HandleObservation(r)
  <2>1. Goto(r, Lookup(cur[r], hot[r])) \/ Goto(r, "obs")
    BY <1>2 DEF HandleObservation, NoHit
  <2> QED  BY <1>0, <2>1, GoesTo, Labels
<1>3. CASE Miss(r)
  <2>1. Goto(r, AfterKey(r, {cur[r]})) \/ Goto(r, "join") \/ Goto(r, "fetch")
    BY <1>3 DEF Miss, NoHit
  <2>2. {cur[r]} \in SUBSET Keys
    BY <1>0
  <2> QED  BY <2>1, <2>2, GoesTo, Labels
<1>4. CASE Join(r) \/ ReadTimeout(r) \/ FetchBypass(r) \/ FinishMGet(r)
  <2>1. Goto(r, "wait") \/ Goto(r, "done")
    BY <1>4 DEF Join, ReadTimeout, FetchBypass, FinishMGet, NoHit
  <2> QED  BY <2>1, GoesTo
<1>5. CASE Receive(r) \/ FetchMissing(r)
  <2>1. Goto(r, "stale") \/ Goto(r, "done") \/ Goto(r, "fill")
    BY <1>5 DEF Receive, FetchMissing, ReadFailed
  <2> QED  BY <2>1, GoesTo
<1>6. CASE StaleFallback(r)
  <2>1. Goto(r, "done") \/ (pc' = pc /\ pc[r] = "stale")
    BY <1>6 DEF StaleFallback
  <2> QED  BY <2>1, GoesTo
<1> QED  BY <1>1, <1>2, <1>3, <1>4, <1>5, <1>6

LEMMA ReaderHands ==
  ASSUME TypeOK, NEW r \in Readers, ReaderStep(r) \/ ReadTimeout(r)
  PROVE  \A q \in Readers : HandKept(q)
<1>1. CASE \/ LookProtected(r) \/ LookProbationary(r) \/ RecheckHot(r) \/ LoadPromotionFlag(r)
           \/ LookProtectedLocked(r)
  <2>1. cur' = cur /\ cand' = cand
    BY <1>1 DEF LookProtected, LookProbationary, RecheckHot, LoadPromotionFlag,
         LookProtectedLocked, LookupFrame
  <2>2. pc'[r] \notin InHand
    BY <1>1, LookupGoes DEF InHand, Holding
  <2>3. HandKept(r)
    BY <2>2 DEF HandKept
  <2> QED  BY <1>1, <2>1, <2>3, LookupGoes, SameKept DEF SameHand
<1>2. CASE \/ Observe(r) \/ HandleObservation(r) \/ Miss(r) \/ Join(r) \/ Receive(r)
           \/ ReadTimeout(r) \/ FetchBypass(r) \/ FetchMissing(r) \/ FinishMGet(r)
           \/ StaleFallback(r)
  <2>1. \A q \in Readers \ {r} : cur'[q] = cur[q] /\ cand'[q] = cand[q]
    BY <1>2 DEF Observe, HandleObservation, Miss, Join, Receive, ReadTimeout, FetchBypass,
         FetchMissing, FinishMGet, StaleFallback, LookupFrame, AnswerFrame, TypeOK, TypeReader
  <2>2. pc'[r] \notin InHand
    BY <1>2, AnswerGoes DEF InHand, Holding
  <2>3. HandKept(r)
    BY <2>2 DEF HandKept
  <2> QED  BY <1>2, <2>1, <2>3, AnswerGoes, SameKept DEF SameHand
<1>3. CASE TakeStripe(r)
  <2>1. cur' = cur /\ UNCHANGED <<origin, purged>>
    BY <1>3 DEF TakeStripe, LookupFrame, ReaderFrame
  <2>2. miss[r] \in SUBSET Keys /\ cand \in [Readers -> Entry]
    BY DEF TypeOK, TypeReader
  <2>3. \/ Goto(r, "admit") /\ Fresh(prob[cur[r]]) /\ cand' = [cand EXCEPT ![r] = prob[cur[r]]]
        \/ (Goto(r, AfterKey(r, miss[r])) \/ Goto(r, "miss")) /\ cand' = cand
    BY <1>3 DEF TakeStripe, NoHit, Hit
  <2>4. ASSUME NEW q \in Readers \ {r}
        PROVE  HandKept(q)
    <3>1. pc'[q] = pc[q] /\ cand'[q] = cand[q]
      BY <2>2, <2>3, GoesTo
    <3> QED  BY <2>1, <3>1, SameKept DEF SameHand
  <2>5. CASE Goto(r, "admit") /\ Fresh(prob[cur[r]]) /\ cand' = [cand EXCEPT ![r] = prob[cur[r]]]
    <3>1. Present(prob[cur[r]]) /\ cand'[r] = prob[cur[r]]
      BY <2>2, <2>5 DEF Fresh, Present
    <3>2. HandKept(r)
      BY <2>1, <3>1 DEF HandKept
    <3> QED  BY <2>4, <3>2
  <2>6. CASE (Goto(r, AfterKey(r, miss[r])) \/ Goto(r, "miss")) /\ cand' = cand
    <3>0. pc'[r] \in {"next", "mfetch", "done", "miss"}
      BY <2>2, <2>6, GoesTo, Labels
    <3>1. pc'[r] \notin InHand
      BY <3>0 DEF InHand, Holding
    <3>2. HandKept(r)
      BY <3>1 DEF HandKept
    <3> QED  BY <2>4, <3>2
  <2> QED  BY <2>3, <2>5, <2>6
<1>4. CASE AdmitCandidate(r) \/ SetPromotionFlag(r)
  <2>1. cur' = cur /\ cand' = cand /\ pc[r] \in InHand /\ \E label : Goto(r, label)
    BY <1>4 DEF AdmitCandidate, SetPromotionFlag, LookupFrame, NoHit, InHand, Holding
  <2>2. HandKept(r)
    BY <2>1 DEF HandKept
  <2> QED  BY <2>1, <2>2, GoesTo, SameKept DEF SameHand
<1>5. CASE RemoveCandidate(r) \/ PromoteCandidate(r) \/ ClearPromotionFlag(r) \/ HandleAdmission(r)
  <2>1. /\ cur' = cur
        /\ \A q \in Readers \ {r} : cand'[q] = cand[q]
    BY <1>5 DEF RemoveCandidate, PromoteCandidate, ClearPromotionFlag, HandleAdmission,
         LookupFrame, TypeOK, TypeReader
  <2>2. /\ \A q \in Readers \ {r} : pc'[q] = pc[q]
        /\ pc'[r] \notin InHand \/ (pc[r] \in InHand /\ cand' = cand)
    <3>1. CASE RemoveCandidate(r)
      <4>1. \/ pc[r] = "takeCand" /\ Goto(r, "promote") /\ cand' = cand
            \/ AfterPromotion(r, pend[r], NoEntry)
        BY <3>1 DEF RemoveCandidate, NoHit
      <4> QED  BY <4>1, GoesTo, PromotionGoes DEF InHand, Holding
    <3>2. CASE PromoteCandidate(r)
      <4>1. Goto(r, "flagOff")
        BY <3>2 DEF PromoteCandidate, NoHit
      <4> QED  BY <4>1, GoesTo DEF InHand
    <3>3. CASE ClearPromotionFlag(r)
      <4>1. AfterPromotion(r, pend[r], cand[r])
        BY <3>3 DEF ClearPromotionFlag
      <4> QED  BY <4>1, PromotionGoes DEF InHand, Holding
    <3>4. CASE HandleAdmission(r)
      <4>1. AfterPromotion(r, pend'[r], cand[r])
        BY <3>4 DEF HandleAdmission
      <4> QED  BY <4>1, PromotionGoes DEF InHand, Holding
    <3> QED  BY <1>5, <3>1, <3>2, <3>3, <3>4
  <2>3. HandKept(r)
    BY <2>1, <2>2 DEF HandKept
  <2> QED  BY <2>1, <2>2, <2>3, SameKept DEF SameHand
<1> QED  BY <1>1, <1>2, <1>3, <1>4, <1>5 DEF ReaderStep

LEMMA ReaderFills ==
  ASSUME TypeOK, StripeDiscipline, NEW r \in Readers, ReaderStep(r) \/ ReadTimeout(r)
  PROVE  \A q \in Readers : FillKept(q)
<1> USE DEF TypeOK, TypeReader, TypeFill
<1>1. CASE \/ LookupFrame \/ Observe(r) \/ Receive(r) \/ ReadTimeout(r) \/ FetchBypass(r)
           \/ StaleFallback(r)
  <2>1. UNCHANGED <<ep, fillVars>>
    BY <1>1 DEF LookupFrame, Observe, Receive, ReadTimeout, FetchBypass, StaleFallback,
         AnswerFrame
  <2>2. ep' = ep /\ fpc' = fpc /\ ftodo' = ftodo /\ got' = got
    BY <2>1 DEF fillVars
  <2> QED  BY <2>2, SameKept DEF SameFill
<1>2. CASE Miss(r)
  <2>1. pc[r] = "miss" /\ UNCHANGED fillVars
    BY <1>2 DEF Miss
  <2>2. fpc' = fpc /\ ftodo' = ftodo /\ got' = got
    BY <2>1 DEF fillVars
  <2>3. \A q \in Readers \ {r} : ep'[q] = ep[q]
    BY <1>2 DEF Miss
  <2>4. fpc[r] = "none"
    BY <2>1 DEF StripeDiscipline, ReaderInv
  <2>5. FillKept(r)
    BY <2>2, <2>4 DEF FillKept, Filling, Reconciling
  <2> QED  BY <2>2, <2>3, <2>5, SameKept DEF SameFill
<1>3. CASE Join(r) \/ FinishMGet(r)
  <2>1. ep' = ep /\ ftodo' = ftodo /\ got' = got
    BY <1>3 DEF Join, FinishMGet, AnswerFrame
  <2>2. /\ fpc'[r] = fpc[r] \/ fpc'[r] \in {"fetch", "done"}
        /\ \A q \in Readers \ {r} : fpc'[q] = fpc[q]
    <3>1. fpc' = fpc \/ \E label \in {"fetch", "done"} : fpc' = [fpc EXCEPT ![r] = label]
      BY <1>3 DEF Join, FinishMGet
    <3> QED  BY <3>1, FillGoesTo
  <2>3. FillKept(r)
    BY <2>1, <2>2 DEF FillKept, Filling, Reconciling
  <2> QED  BY <2>1, <2>2, <2>3, SameKept DEF SameFill
<1>4. CASE FetchMissing(r)
  <2>1. ep' = ep /\ UNCHANGED <<origin, purged>>
    BY <1>4 DEF FetchMissing, AnswerFrame, ReaderFrame
  <2>2. CASE got' = got /\ ftodo' = ftodo /\ fpc' = fpc
    BY <2>1, <2>2, SameKept DEF SameFill
  <2>3. CASE /\ got' = [got EXCEPT ![r] = [k \in Keys |-> IF k \in miss[r]
                                             THEN origin[k] ELSE @[k]]]
             /\ ftodo' = [ftodo EXCEPT ![r] = miss[r] \cap CacheKeys]
             /\ \E label : fpc' = [fpc EXCEPT ![r] = label]
    <3>1. \A q \in Readers \ {r} : got'[q] = got[q] /\ ftodo'[q] = ftodo[q] /\ fpc'[q] = fpc[q]
      BY <2>3
    <3>2. ASSUME NEW k \in Keys, k \in ftodo'[r]
          PROVE  got'[r][k] = origin[k]
      <4>1. k \in miss[r]
        BY <2>3, <3>2
      <4> QED  BY <2>3, <4>1
    <3>3. FillKept(r)
      BY <2>1, <3>2 DEF FillKept
    <3> QED  BY <2>1, <3>1, <3>3, SameKept DEF SameFill
  <2> QED  BY <1>4, <2>2, <2>3 DEF FetchMissing
<1>5. \/ LookupFrame \/ Observe(r) \/ Receive(r) \/ ReadTimeout(r) \/ FetchBypass(r)
      \/ StaleFallback(r) \/ Miss(r) \/ Join(r) \/ FinishMGet(r) \/ FetchMissing(r)
  BY DEF ReaderStep, HandleObservation, LookProtected, LookProbationary,
     RecheckHot, LoadPromotionFlag, LookProtectedLocked, TakeStripe, AdmitCandidate,
     SetPromotionFlag, RemoveCandidate, PromoteCandidate, ClearPromotionFlag,
     HandleAdmission
<1> QED  BY <1>1, <1>2, <1>3, <1>4, <1>5

LEMMA FillFills ==
  ASSUME TypeOK, NEW r \in Readers, FillStep(r)
  PROVE  \A q \in Readers : HandKept(q) /\ FillKept(q)
<1> USE DEF TypeOK, TypeReader, TypeFill
<1>0. FillFrame
  BY FillFrames
<1>1. pc' = pc /\ cur' = cur /\ cand' = cand /\ ep' = ep /\ UNCHANGED <<origin, purged>>
  BY <1>0 DEF FillFrame, readerVars, histVars
<1>2. \A q \in Readers : HandKept(q)
  BY <1>1, SameKept DEF SameHand
<1>3. /\ \A q \in Readers \ {r} : fpc'[q] = fpc[q] /\ ftodo'[q] = ftodo[q] /\ got'[q] = got[q]
      /\ \/ /\ fpc[r] \in Filling /\ ftodo'[r] \subseteq ftodo[r] /\ got' = got
         \/ fpc'[r] \notin Filling
         \/ \A k \in ftodo'[r] : got'[r][k] = origin[k]
  <2>1. CASE FlightFetch(r)
    <3>1. CASE /\ got' = [got EXCEPT ![r][cur[r]] = origin[cur[r]]]
               /\ ftodo' = [ftodo EXCEPT ![r] = {cur[r]}]
               /\ fpc' = [fpc EXCEPT ![r] = "lock"]
      <4>1. ftodo'[r] = {cur[r]} /\ got'[r][cur[r]] = origin[cur[r]]
        BY <3>1
      <4> QED  BY <3>1, <4>1
    <3>2. CASE fpc' = [fpc EXCEPT ![r] = "end"] /\ UNCHANGED <<got, ftodo>>
      BY <3>2 DEF Filling, Reconciling
    <3> QED  BY <2>1, <3>1, <3>2 DEF FlightFetch
  <2>2. CASE FillCheck(r)
    <3>1. fpc[r] = "lock" /\ got' = got
      BY <2>2 DEF FillCheck
    <3>2. /\ \E label : fpc' = [fpc EXCEPT ![r] = label]
          /\ ftodo' = ftodo \/ \E k : ftodo' = [ftodo EXCEPT ![r] = ftodo[r] \ {k}]
      BY <2>2 DEF FillCheck, AfterRefusal
    <3>3. /\ \A q \in Readers \ {r} : fpc'[q] = fpc[q] /\ ftodo'[q] = ftodo[q]
          /\ ftodo'[r] \subseteq ftodo[r]
      BY <3>2, FillGoesTo, FillLeaves
    <3> QED  BY <3>1, <3>3 DEF Filling
  <2>3. CASE FillDrop(r) \/ FillStore(r)
    <3>1. fpc[r] \in Filling /\ got' = got
      BY <2>3 DEF FillDrop, FillStore, Filling, Reconciling
    <3>2. /\ \E label : fpc' = [fpc EXCEPT ![r] = label]
          /\ ftodo' = ftodo \/ ftodo' = [ftodo EXCEPT ![r] = ftodo[r] \ {fkey[r]}]
      <4>1. CASE FillNext(r)
        BY <4>1 DEF FillNext
      <4>2. CASE ~FillNext(r)
        BY <2>3, <4>2 DEF FillDrop, FillStore
      <4> QED  BY <4>1, <4>2
    <3>3. /\ \A q \in Readers \ {r} : fpc'[q] = fpc[q] /\ ftodo'[q] = ftodo[q]
          /\ ftodo'[r] \subseteq ftodo[r]
      BY <3>2, FillGoesTo, FillLeaves
    <3> QED  BY <3>1, <3>3
  <2>4. CASE FlightDone(r)
    BY <2>4 DEF FlightDone, Filling, Reconciling
  <2> QED  BY <2>1, <2>2, <2>3, <2>4 DEF FillStep
<1>4. FillKept(r)
  BY <1>1, <1>3 DEF FillKept
<1>5. \A q \in Readers \ {r} : FillKept(q)
  BY <1>1, <1>3, SameKept DEF SameFill
<1> QED  BY <1>2, <1>4, <1>5

LEMMA NextHands ==
  ASSUME TypeOK, StripeDiscipline, [Next]_vars, NEW q \in Readers
  PROVE  HandKept(q) /\ FillKept(q)
<1>1. CASE \E r \in Readers : ReaderStep(r) \/ ReadTimeout(r) \/ FillStep(r)
  BY <1>1, ReaderHands, ReaderFills, FillFills
<1>2. CASE UNCHANGED <<readerVars, fillVars>>
  <2>1. /\ pc' = pc /\ cur' = cur /\ cand' = cand /\ ep' = ep
        /\ fpc' = fpc /\ ftodo' = ftodo /\ got' = got
    BY <1>2 DEF readerVars, fillVars
  <2> QED  BY <2>1, SameKept DEF SameHand, SameFill
<1>3. ASSUME NEW w \in Writers, WriterStep(w) \/ GateTimeout(w) \/ Retry(w) \/ LateApply(w)
      PROVE  UNCHANGED <<readerVars, fillVars>>
  BY <1>3, WriterFrames DEF WriterFrame
<1>4. ASSUME NEW a \in Admins, AdminStep(a)
      PROVE  UNCHANGED <<readerVars, fillVars>>
  BY <1>4, AdminFrames DEF AdminFrame
<1>5. CASE (\E k \in Keys : Expire(k) \/ ExternalWrite(k)) \/ UNCHANGED vars
  BY <1>2, <1>5 DEF Expire, ExternalWrite, vars
<1> QED  BY <1>1, <1>2, <1>3, <1>4, <1>5 DEF Next, Idle
-----------------------------------------------------------------------------
(***************************************************************************)
(* The copies.                                                             *)
(***************************************************************************)
LEMMA NatOrder ==
  /\ \A m \in Nat : m <= m /\ m >= m /\ m + 1 \in Nat
  /\ \A m, n \in Nat : n = m + 1 => m <= n /\ n >= m /\ ~(n <= m)
  /\ \A l, m, n \in Nat : l <= m /\ m <= n => l <= n
  /\ \A l, m, n \in Nat : l <= m /\ n >= m => l <= n
  /\ \A m, n \in Nat : m <= n => n >= m
  /\ \A m, n \in Nat : m <= n /\ n <= m => m = n
BY SMT

LEMMA CopyTypes ==
  ASSUME TypeOK, NEW k \in Keys
  PROVE  /\ origin[k].ver \in Nat /\ purged[k] \in Nat
         /\ StripeOf[k] \in Stripes /\ epoch[StripeOf[k]] \in Nat
         /\ prot[k].ver \in Nat /\ prob[k].ver \in Nat
<1>1. origin[k] \in Value /\ prot[k] \in Entry /\ prob[k] \in Entry
  BY DEF TypeOK, TypeShared
<1>2. StripeOf[k] \in Stripes
  BY ServiceAssumption
<1>3. purged[k] \in Nat /\ epoch[StripeOf[k]] \in Nat
  BY <1>2 DEF TypeOK, TypeShared, TypeHistory
<1> QED  BY <1>1, <1>2, <1>3 DEF Value, Entry

LEMMA AppliedGains ==
  ASSUME TypeOK, NEW cmd, NEW K, origin' \in Applied(cmd, K), NEW k \in Keys
  PROVE  origin'[k].ver = origin[k].ver \/ origin'[k].ver = origin[k].ver + 1
<1>1. CASE origin' = origin
  BY <1>1
<1>2. ASSUME NEW e, origin' = [j \in Keys |-> IF j \in K THEN [ver |-> origin[j].ver + 1, exists |-> e]
                                    ELSE origin[j]]
      PROVE  origin'[k].ver = origin[k].ver \/ origin'[k].ver = origin[k].ver + 1
  BY <1>2, SMT
<1> QED  BY <1>1, <1>2 DEF Applied

LEMMA OriginGrows ==
  ASSUME TypeOK, TypeOK', [Next]_vars, NEW k \in Keys
  PROVE  origin[k].ver <= origin'[k].ver
<1>1. origin' = origin \/ \E cmd, K : origin' \in Applied(cmd, K)
  <2>1. ASSUME NEW r \in Readers, ReaderStep(r) \/ ReadTimeout(r) \/ FillStep(r)
        PROVE  origin' = origin
    BY <2>1, ReaderFrames, FillFrames DEF ReaderFrame, FillFrame
  <2>2. ASSUME NEW w \in Writers, WriterStep(w) \/ GateTimeout(w) \/ Retry(w) \/ LateApply(w)
        PROVE  origin' = origin \/ \E cmd, K : origin' \in Applied(cmd, K)
    BY <2>2 DEF WriterStep, AcquireGate, InvalidateKeys, Dispatch, WriteReply, WriteError,
         WriteThrough, WriteThroughStore, Forget, Release, WriteReturn, GateTimeout, Retry,
         LateApply
  <2>3. ASSUME NEW a \in Admins, AdminStep(a)
        PROVE  origin' = origin
    BY <2>3, AdminFrames DEF AdminFrame
  <2>4. CASE \E j \in Keys : Expire(j) \/ ExternalWrite(j)
    BY <2>4 DEF Expire, ExternalWrite
  <2>5. CASE UNCHANGED vars
    BY <2>5 DEF vars, sharedVars
  <2> QED  BY <2>1, <2>2, <2>3, <2>4, <2>5 DEF Next, Idle
<1>2. origin'[k].ver = origin[k].ver \/ origin'[k].ver = origin[k].ver + 1
  BY <1>1, AppliedGains
<1>3. origin'[k].ver \in Nat
  BY DEF TypeOK, TypeShared, Value
<1> QED  BY <1>2, <1>3, CopyTypes, NatOrder

LEMMA EpochGrows ==
  ASSUME TypeOK, TypeOK', [Next]_vars, NEW s \in Stripes
  PROVE  epoch[s] <= epoch'[s]
<1>0. epoch \in [Stripes -> Nat] /\ epoch'[s] \in Nat
  BY DEF TypeOK, TypeShared
<1>1. \/ epoch' = epoch
      \/ \E i \in Stripes : epoch' = [epoch EXCEPT ![i] = @ + 1]
      \/ epoch' = [i \in Stripes |-> epoch[i] + 1]
  <2>1. ASSUME NEW r \in Readers, ReaderStep(r) \/ ReadTimeout(r) \/ FillStep(r)
        PROVE  epoch' = epoch
    BY <2>1, ReaderFrames, FillFrames DEF ReaderFrame, FillFrame
  <2>2. ASSUME NEW w \in Writers, WriterStep(w) \/ GateTimeout(w) \/ Retry(w) \/ LateApply(w)
        PROVE  epoch' = epoch \/ \E i \in Stripes : epoch' = [epoch EXCEPT ![i] = @ + 1]
    <3>0. wkeys[w] \subseteq Keys /\ wtodo[w] \subseteq Keys
      BY DEF TypeOK, TypeWriter
    <3>1. CASE InvalidateKeys(w)
      BY <3>0, <3>1, CopyTypes DEF InvalidateKeys, InvalidateKey
    <3>2. CASE WriteThrough(w)
      BY <3>0, <3>2, CopyTypes DEF WriteThrough
    <3>3. CASE epoch' = epoch
      BY <3>3
    <3> QED
      BY <2>2, <3>1, <3>2, <3>3 DEF WriterStep, AcquireGate, Dispatch, WriteReply, WriteError,
           WriteThroughStore, Forget, Release, WriteReturn, GateTimeout, Retry,
           LateApply, OriginFrame
  <2>3. ASSUME NEW a \in Admins, AdminStep(a)
        PROVE  \/ epoch' = epoch
               \/ \E i \in Stripes : epoch' = [epoch EXCEPT ![i] = @ + 1]
               \/ epoch' = [i \in Stripes |-> epoch[i] + 1]
    <3>0. akey[a] \in Keys
      BY DEF TypeOK, TypeAdmin
    <3>1. CASE PurgeKey(a)
      BY <3>0, <3>1, CopyTypes DEF PurgeKey, InvalidateKey
    <3>2. CASE AdvanceEpochs(a)
      BY <3>2 DEF AdvanceEpochs, EpochsAdvanced
    <3>3. CASE epoch' = epoch
      BY <3>3
    <3> QED
      BY <2>3, <3>1, <3>2, <3>3 DEF AdminStep, AdvanceTracker, HandleTransitions,
           ForgetPurged, LockAllStripes, PurgeTier, CloseService
  <2>4. CASE (\E j \in Keys : Expire(j) \/ ExternalWrite(j)) \/ UNCHANGED vars
    BY <2>4 DEF Expire, ExternalWrite, vars, sharedVars
  <2> QED  BY <2>1, <2>2, <2>3, <2>4 DEF Next, Idle
<1>2. epoch'[s] = epoch[s] \/ epoch'[s] = epoch[s] + 1
  BY <1>0, <1>1
<1> QED  BY <1>0, <1>2, NatOrder

\* Who holds the stripe of a key while it stores, or prepares to store, the key.
LEMMA Holders ==
  ASSUME TypeOK, StripeDiscipline
  PROVE  /\ \A r \in Readers : pc[r] \in Holding => lock[StripeOf[cur[r]]] = r
         /\ \A r \in Readers : fpc[r] \in Reconciling => lock[StripeOf[fkey[r]]] = r
         /\ \A w \in Writers, k \in Keys :
              wpc[w] = "throughStore" /\ k \in wkeys[w] => lock[StripeOf[k]] = w
         /\ \A p \in Procs : drop[p] # None => lock[StripeOf[drop[p]]] = p
<1>1. \A r \in Readers : ReaderInv(r) /\ FillInv(r)
  BY DEF StripeDiscipline
<1>2. \A w \in Writers : WriterInv(w)
  BY DEF StripeDiscipline
<1>3. \A p \in Procs : DropInv(p)
  BY DEF StripeDiscipline
<1>4. \A r \in Readers : pc[r] \in Holding => lock[StripeOf[cur[r]]] = r
  BY <1>1 DEF ReaderInv, Stripe
<1>5. \A r \in Readers : fpc[r] \in Reconciling => lock[StripeOf[fkey[r]]] = r
  BY <1>1 DEF FillInv
<1>6. \A w \in Writers, k \in Keys :
        wpc[w] = "throughStore" /\ k \in wkeys[w] => lock[StripeOf[k]] = w
  BY <1>2 DEF WriterInv
<1> QED  BY <1>3, <1>4, <1>5, <1>6 DEF DropInv

LEMMA Distinct ==
  /\ \A r \in Readers : r # None /\ r \notin Writers /\ r \notin Admins /\ r \in Procs
  /\ \A w \in Writers : w # None /\ w \notin Admins /\ w \in Procs
  /\ \A a \in Admins : a # None /\ a \in Procs
BY ServiceAssumption DEF Procs

\* A purge of everything holds every stripe, so nobody is about to store.
LEMMA PurgingExcludes ==
  ASSUME TypeOK, StripeDiscipline, NEW a \in Admins, apc[a] \in Purging
  PROVE  /\ \A r \in Readers : pc[r] \notin Holding /\ fpc[r] \notin Reconciling
         /\ \A w \in Writers, k \in Keys : ~(wpc[w] = "throughStore" /\ k \in wkeys[w])
<1>1. \A s \in Stripes : s < NumStripes
  BY ServiceAssumption, SMT DEF Stripes
<1>2. AdminInv(a)
  BY DEF StripeDiscipline
<1>3. \A s \in Stripes : lock[s] = a
  BY <1>1, <1>2 DEF AdminInv
<1>4. \A k \in Keys : lock[StripeOf[k]] = a
  BY <1>3, CopyTypes
<1>5. ASSUME NEW r \in Readers
      PROVE  pc[r] \notin Holding /\ fpc[r] \notin Reconciling
  <2>1. r # a /\ cur[r] \in Keys /\ fkey[r] \in Keys
    BY RequestTypes, Distinct
  <2> QED  BY <1>4, <2>1, Holders
<1>6. ASSUME NEW w \in Writers, NEW k \in Keys
      PROVE  ~(wpc[w] = "throughStore" /\ k \in wkeys[w])
  BY <1>4, Holders, Distinct
<1> QED  BY <1>5, <1>6

\* The step purges k: nothing of k is left, and nothing in hand may be stored.
Purges(k) ==
  /\ purged'[k] = origin[k].ver /\ origin' = origin
  /\ ~Present(prot'[k]) /\ ~Present(prob'[k])
  /\ \A r \in Readers : ~(pc'[r] \in InHand /\ cur'[r] = k) /\ ~Storable(r, k)'

LEMMA EpochRefuses ==
  ASSUME TypeOK, StripeDiscipline, NEW r \in Readers, NEW k \in Keys, UNCHANGED ep,
         epoch'[StripeOf[k]] = epoch[StripeOf[k]] + 1
  PROVE  ~Storable(r, k)'
<1>1. FillInv(r)
  BY DEF StripeDiscipline
<1>2. ep[r][k] <= epoch[StripeOf[k]] /\ ep[r][k] \in Nat /\ epoch[StripeOf[k]] \in Nat
  BY <1>1, CopyTypes, RequestTypes DEF FillInv
<1>3. epoch'[StripeOf[k]] # ep[r][k]
  BY <1>2, NatOrder
<1> QED  BY <1>3 DEF Storable

LEMMA PurgeStep ==
  ASSUME TypeOK, StripeDiscipline, CopyDiscipline, [Next]_vars, NEW k \in Keys
  PROVE  purged'[k] = purged[k] \/ Purges(k)
<1>0. epoch \in [Stripes -> Nat] /\ purged \in [Keys -> Nat]
  BY DEF TypeOK, TypeShared, TypeHistory
<1>1. ASSUME NEW a \in Admins, PurgeKey(a)
      PROVE  purged'[k] = purged[k] \/ Purges(k)
  <2>1. akey[a] \in Keys
    BY DEF TypeOK, TypeAdmin
  <2>2. CASE akey[a] # k
    BY <1>0, <1>1, <2>1, <2>2 DEF PurgeKey
  <2>3. CASE akey[a] = k
    <3>1. /\ lock[StripeOf[k]] = None /\ epoch' = [epoch EXCEPT ![StripeOf[k]] = @ + 1]
          /\ prot' = Without(prot, k) /\ prob' = Without(prob, k)
          /\ purged' = [purged EXCEPT ![k] = origin[k].ver]
      BY <1>1, <2>3 DEF PurgeKey, InvalidateKey
    <3>2. origin' = origin /\ pc' = pc /\ cur' = cur /\ ep' = ep
      BY <1>1 DEF PurgeKey, AdminFrame, readerVars
    <3>3. ~Present(prot'[k]) /\ ~Present(prob'[k]) /\ purged'[k] = origin[k].ver
      BY <1>0, <3>1, TierTypes, LosesKey
    <3>4. epoch'[StripeOf[k]] = epoch[StripeOf[k]] + 1
      BY <1>0, <3>1, CopyTypes
    <3>5. \A r \in Readers : ~(pc'[r] \in InHand /\ cur'[r] = k)
      BY <3>1, <3>2, Holders, Distinct DEF InHand
    <3>6. \A r \in Readers : ~Storable(r, k)'
      BY <3>2, <3>4, EpochRefuses
    <3> QED  BY <3>2, <3>3, <3>5, <3>6 DEF Purges
  <2> QED  BY <2>2, <2>3
<1>2. ASSUME NEW a \in Admins, AdvanceEpochs(a)
      PROVE  Purges(k)
  <2>1. /\ apc[a] = "bump" /\ prot' = prot /\ prob' = prob
        /\ epoch' = [s \in Stripes |-> epoch[s] + 1]
        /\ purged' = [j \in Keys |-> origin[j].ver]
    BY <1>2 DEF AdvanceEpochs, EpochsAdvanced
  <2>2. origin' = origin /\ pc' = pc /\ cur' = cur /\ ep' = ep
    BY <1>2 DEF AdvanceEpochs, AdminFrame, readerVars
  <2>3. ~Present(prot'[k]) /\ ~Present(prob'[k]) /\ purged'[k] = origin[k].ver
    BY <2>1 DEF CopyDiscipline
  <2>4. epoch'[StripeOf[k]] = epoch[StripeOf[k]] + 1
    BY <2>1, CopyTypes
  <2>5. \A r \in Readers : pc'[r] \notin InHand
    BY <2>1, <2>2, PurgingExcludes DEF Purging, InHand
  <2>6. \A r \in Readers : ~Storable(r, k)'
    BY <2>2, <2>4, EpochRefuses
  <2> QED  BY <2>2, <2>3, <2>5, <2>6 DEF Purges
<1>3. purged' = purged \/ \E a \in Admins : PurgeKey(a) \/ AdvanceEpochs(a)
  <2>1. ASSUME NEW r \in Readers, ReaderStep(r) \/ ReadTimeout(r) \/ FillStep(r)
        PROVE  purged' = purged
    BY <2>1, ReaderFrames, FillFrames DEF ReaderFrame, FillFrame, histVars
  <2>2. ASSUME NEW w \in Writers, WriterStep(w) \/ GateTimeout(w) \/ Retry(w) \/ LateApply(w)
        PROVE  purged' = purged
    BY <2>2, WriterFrames DEF WriterFrame
  <2>3. CASE \E a \in Admins : AdminStep(a)
    BY <2>3 DEF AdminStep, AdvanceTracker, HandleTransitions, ForgetPurged, LockAllStripes,
         PurgeTier, CloseService
  <2>4. CASE (\E j \in Keys : Expire(j) \/ ExternalWrite(j)) \/ UNCHANGED vars
    BY <2>4 DEF Expire, ExternalWrite, vars, histVars
  <2> QED  BY <2>1, <2>2, <2>3, <2>4 DEF Next, Idle
<1> QED  BY <1>1, <1>2, <1>3

\* How far the calls that purge everything have come.
LEMMA PurgePhases ==
  ASSUME TypeOK, [Next]_vars, NEW a \in Admins
  PROVE  /\ apc'[a] \in {"purgeProb", "bump"} =>
              apc[a] \in {"purgeProb", "bump"} \/ \A k \in Keys : ~Present(prot'[k])
         /\ apc'[a] = "bump" => apc[a] = "bump" \/ \A k \in Keys : ~Present(prob'[k])
<1>0. apc \in [Admins -> AdminPC]
  BY DEF TypeOK, TypeAdmin
<1>1. ASSUME NEW b \in Admins, PurgeTier(b)
      PROVE  /\ apc'[a] \in {"purgeProb", "bump"} =>
                  apc[a] \in {"purgeProb", "bump"} \/ \A k \in Keys : ~Present(prot'[k])
             /\ apc'[a] = "bump" => apc[a] = "bump" \/ \A k \in Keys : ~Present(prob'[k])
  <2>1. CASE a # b
    BY <1>0, <1>1, <2>1 DEF PurgeTier, AGoto
  <2>2. CASE a = b
    <3>1. CASE /\ prot' = [k \in Keys |-> NoEntry] /\ apc' = [apc EXCEPT ![a] = "purgeProb"]
      BY <1>0, <3>1, LosesAll
    <3>2. CASE /\ prob' = [k \in Keys |-> NoEntry] /\ apc[a] = "purgeProb"
      BY <1>0, <3>2, LosesAll
    <3> QED  BY <1>1, <2>2, <3>1, <3>2 DEF PurgeTier, AGoto
  <2> QED  BY <2>1, <2>2
<1>2. \/ apc' = apc \/ (\E b \in Admins : PurgeTier(b))
      \/ \E b \in Admins, label \in AdminPC \ {"purgeProb", "bump"} :
           apc' = [apc EXCEPT ![b] = label]
  <2>1. ASSUME NEW r \in Readers, ReaderStep(r) \/ ReadTimeout(r) \/ FillStep(r)
        PROVE  apc' = apc
    BY <2>1, ReaderFrames, FillFrames DEF ReaderFrame, FillFrame, adminVars
  <2>2. ASSUME NEW w \in Writers, WriterStep(w) \/ GateTimeout(w) \/ Retry(w) \/ LateApply(w)
        PROVE  apc' = apc
    BY <2>2, WriterFrames DEF WriterFrame, adminVars
  <2>3. ASSUME NEW b \in Admins, AdminStep(b), ~PurgeTier(b)
        PROVE  \E label \in AdminPC \ {"purgeProb", "bump"} : apc' = [apc EXCEPT ![b] = label]
    <3>1. \E label \in {"apply", "forget", "lock", "purgeProt", "closeProt", "closeProb",
                        "closeOrigin", "done"} : AGoto(b, label)
      BY <2>3 DEF AdminStep, AdvanceTracker, HandleTransitions, PurgeKey, ForgetPurged,
           LockAllStripes, AdvanceEpochs, CloseService
    <3> QED  BY <3>1 DEF AGoto, AdminPC
  <2>4. CASE (\E j \in Keys : Expire(j) \/ ExternalWrite(j)) \/ UNCHANGED vars
    BY <2>4 DEF Expire, ExternalWrite, vars, adminVars
  <2> QED  BY <2>1, <2>2, <2>3, <2>4 DEF Next, Idle
<1>3. ASSUME NEW b \in Admins, NEW label \in AdminPC \ {"purgeProb", "bump"},
             apc' = [apc EXCEPT ![b] = label]
      PROVE  apc'[a] = apc[a] \/ apc'[a] \notin {"purgeProb", "bump"}
  BY <1>0, <1>3
<1> QED  BY <1>1, <1>2, <1>3

\* What a step is about to store is within bounds.
LEMMA SourcesInBounds ==
  ASSUME TypeOK, StripeDiscipline, WriteDiscipline, CopyDiscipline, NEW k \in Keys, NEW v
  PROVE  ProtSource(k, v) \/ ProbSource(k, v) => InBounds(v, k)
<1>1. ASSUME NEW r \in Readers, Promotes(r, k, v)
      PROVE  InBounds(v, k)
  BY <1>1 DEF Promotes, CopyDiscipline, Holding
<1>2. ASSUME NEW r \in Readers, FillsProtected(r, k, v) \/ FillsProbation(r, k, v)
      PROVE  InBounds(v, k)
  <2>1. fpc[r] \in Reconciling /\ k = fkey[r] /\ v = got[r][k].ver
    BY <1>2 DEF FillsProtected, FillsProbation, Reconciling
  <2>2. FillInv(r)
    BY DEF StripeDiscipline
  <2>3. Storable(r, k)
    BY <2>1, <2>2 DEF FillInv, Storable
  <2> QED  BY <2>1, <2>3 DEF CopyDiscipline
<1>3. ASSUME NEW w \in Writers, StoresThrough(w, k, v)
      PROVE  InBounds(v, k)
  <2>1. wpc[w] = "throughStore" /\ k \in wkeys[w] /\ v = wver[w][k]
    BY <1>3 DEF StoresThrough
  <2>2. WriterInv(w)
    BY DEF StripeDiscipline
  <2>3. v <= origin[k].ver /\ wcmd[w] = "SET" /\ v >= 1
    BY <2>1, <2>2 DEF WriterInv
  <2>4. ASSUME RefillsOnly
        PROVE  v >= purged[k]
    <3>1. Calm
      BY <2>3, <2>4 DEF RefillsOnly, CopyDiscipline
    <3>2. v # 0
      BY <2>3, SMT
    <3>3. Underway(w)
      BY <2>1 DEF Underway
    <3>4. v = origin[k].ver
      BY <2>1, <3>1, <3>2, <3>3 DEF WriteDiscipline
    <3>5. purged[k] <= origin[k].ver
      BY DEF CopyDiscipline
    <3> QED  BY <3>4, <3>5, CopyTypes, NatOrder
  <2> QED  BY <2>3, <2>4 DEF InBounds
<1> QED  BY <1>1, <1>2, <1>3 DEF ProtSource, ProbSource

\* The version v of k is within bounds after the step.
StaysInBounds(v, k) == v <= origin'[k].ver /\ (RefillsOnly => v >= purged'[k])

LEMMA BoundsStay ==
  ASSUME TypeOK, TypeOK', [Next]_vars, NEW k \in Keys, NEW v \in Nat, InBounds(v, k),
         purged'[k] = purged[k]
  PROVE  StaysInBounds(v, k)
<1>1. origin'[k].ver \in Nat
  BY DEF TypeOK, TypeShared, Value
<1>2. v <= origin[k].ver /\ origin[k].ver <= origin'[k].ver /\ origin[k].ver \in Nat
  BY OriginGrows, CopyTypes DEF InBounds
<1>3. v <= origin'[k].ver
  BY <1>1, <1>2, SMT
<1> QED  BY <1>3 DEF StaysInBounds, InBounds

LEMMA CopiesStay ==
  ASSUME TypeOK, TypeOK', StripeDiscipline, WriteDiscipline, CopyDiscipline, [Next]_vars,
         NEW k \in Keys
  PROVE  /\ purged'[k] <= origin'[k].ver
         /\ Present(prot'[k]) => StaysInBounds(prot'[k].ver, k)
         /\ Present(prob'[k]) => StaysInBounds(prob'[k].ver, k)
<1>0. origin'[k].ver \in Nat /\ purged'[k] \in Nat
  BY DEF TypeOK, TypeShared, TypeHistory, Value
<1>1. CASE Purges(k)
  BY <1>0, <1>1, NatOrder DEF Purges
<1>2. CASE purged'[k] = purged[k]
  <2>1. purged'[k] <= origin'[k].ver
    <3>1. origin[k].ver \in Nat /\ purged[k] \in Nat /\ origin[k].ver <= origin'[k].ver
      BY OriginGrows, CopyTypes
    <3>2. purged[k] <= origin[k].ver
      BY DEF CopyDiscipline
    <3> QED  BY <1>0, <1>2, <3>1, <3>2, SMT
  <2>2. \A v \in Nat : InBounds(v, k) => StaysInBounds(v, k)
    BY <1>2, BoundsStay
  <2>3. /\ Present(prot[k]) => StaysInBounds(prot[k].ver, k)
        /\ Present(prob[k]) => StaysInBounds(prob[k].ver, k)
    BY <2>2, CopyTypes DEF CopyDiscipline
  <2>4. \A v \in Nat : ProtSource(k, v) \/ ProbSource(k, v) => StaysInBounds(v, k)
    BY <2>2, SourcesInBounds
  <2>5. Present(prot'[k]) => StaysInBounds(prot'[k].ver, k)
    BY <2>3, <2>4, NextTiers DEF ProtectedStep, Loses, Gains
  <2>6. Present(prob'[k]) => StaysInBounds(prob'[k].ver, k)
    BY <2>3, <2>4, NextTiers DEF ProbationStep, Loses, Gains
  <2> QED  BY <2>1, <2>5, <2>6
<1> QED  BY <1>1, <1>2, PurgeStep

LEMMA HandsStay ==
  ASSUME TypeOK, TypeOK', StripeDiscipline, CopyDiscipline, [Next]_vars, NEW r \in Readers
  PROVE  pc'[r] \in InHand => StaysInBounds(cand'[r].ver, cur'[r])
<1> SUFFICES ASSUME pc'[r] \in InHand
             PROVE  StaysInBounds(cand'[r].ver, cur'[r])
  OBVIOUS
<1> DEFINE k == cur[r]
<1>1. k \in Keys /\ cand[r].ver \in Nat
  BY RequestTypes
<1>2. /\ cur'[r] = k
      /\ \/ pc[r] \in InHand /\ cand'[r] = cand[r]
         \/ Present(prob[k]) /\ cand'[r] = prob[k]
  BY NextHands DEF HandKept
<1>3. cand'[r].ver \in Nat /\ InBounds(cand'[r].ver, k)
  <2>1. CASE pc[r] \in InHand /\ cand'[r] = cand[r]
    BY <1>1, <2>1 DEF CopyDiscipline, InHand
  <2>2. CASE Present(prob[k]) /\ cand'[r] = prob[k]
    BY <1>1, <2>2, CopyTypes DEF CopyDiscipline
  <2> QED  BY <1>2, <2>1, <2>2
<1>4. purged'[k] = purged[k]
  BY <1>1, <1>2, PurgeStep DEF Purges
<1> QED  BY <1>1, <1>2, <1>3, <1>4, BoundsStay

LEMMA FillsStay ==
  ASSUME TypeOK, TypeOK', StripeDiscipline, CopyDiscipline, [Next]_vars, NEW r \in Readers,
         NEW k \in Keys, Storable(r, k)'
  PROVE  StaysInBounds(got'[r][k].ver, k)
<1>1. fpc'[r] \in Filling /\ k \in ftodo'[r] /\ ep'[r][k] = epoch'[StripeOf[k]]
  BY DEF Storable, Filling
<1>2. purged'[k] = purged[k]
  BY PurgeStep DEF Purges
<1>3. CASE got'[r][k] = origin[k] /\ UNCHANGED <<origin, purged>>
  <2>1. InBounds(origin[k].ver, k) /\ origin[k].ver \in Nat
    BY CopyTypes, NatOrder DEF InBounds, CopyDiscipline
  <2> QED  BY <1>2, <1>3, <2>1, BoundsStay
<1>4. CASE /\ fpc[r] \in Filling /\ k \in ftodo[r]
           /\ ep'[r][k] = ep[r][k] /\ got'[r][k] = got[r][k]
  <2>1. FillInv(r)
    BY DEF StripeDiscipline
  <2>2. ep[r][k] <= epoch[StripeOf[k]] /\ epoch[StripeOf[k]] <= ep[r][k]
    BY <1>1, <1>4, <2>1, CopyTypes, EpochGrows DEF FillInv
  <2>3. ep[r][k] = epoch[StripeOf[k]]
    BY <2>2, CopyTypes, RequestTypes, NatOrder
  <2>4. Storable(r, k)
    BY <1>4, <2>3 DEF Storable, Filling
  <2>5. InBounds(got[r][k].ver, k) /\ got[r][k].ver \in Nat
    BY <2>4, RequestTypes DEF CopyDiscipline
  <2> QED  BY <1>2, <1>4, <2>5, BoundsStay
<1> QED  BY <1>1, <1>3, <1>4, NextHands DEF FillKept

LEMMA PurgesStay ==
  ASSUME TypeOK, StripeDiscipline, CopyDiscipline, [Next]_vars, NEW a \in Admins, NEW k \in Keys
  PROVE  /\ apc'[a] \in {"purgeProb", "bump"} => ~Present(prot'[k])
         /\ apc'[a] = "bump" => ~Present(prob'[k])
<1>1. ASSUME apc[a] \in {"purgeProb", "bump"}
      PROVE  Loses(prot, prot') /\ Loses(prob, prob')
  <2>1. apc[a] \in Purging
    BY <1>1 DEF Purging
  <2>2. ASSUME NEW j \in Keys, NEW v
        PROVE  ~ProtSource(j, v) /\ ~ProbSource(j, v)
    BY <2>1, PurgingExcludes DEF ProtSource, ProbSource, Promotes, FillsProtected,
         FillsProbation, StoresThrough, Holding, Reconciling
  <2> QED  BY <2>2, NextTiers DEF ProtectedStep, ProbationStep
<1>2. apc'[a] \in {"purgeProb", "bump"} => ~Present(prot'[k])
  BY <1>1, PurgePhases DEF CopyDiscipline, Loses
<1>3. apc'[a] = "bump" => ~Present(prob'[k])
  BY <1>1, PurgePhases DEF CopyDiscipline, Loses
<1> QED  BY <1>2, <1>3

LEMMA NextCopy ==
  ASSUME TypeOK, TypeOK', StripeDiscipline, WriteDiscipline, CopyDiscipline, [Next]_vars
  PROVE  CopyDiscipline'
<1>1. wcmd' = wcmd
  <2>1. ASSUME NEW r \in Readers, ReaderStep(r) \/ ReadTimeout(r) \/ FillStep(r)
        PROVE  wcmd' = wcmd
    BY <2>1, ReaderFrames, FillFrames DEF ReaderFrame, FillFrame, writerVars
  <2>2. ASSUME NEW w \in Writers, WriterStep(w) \/ GateTimeout(w) \/ Retry(w) \/ LateApply(w)
        PROVE  wcmd' = wcmd
    BY <2>2, WriterFrames DEF WriterFrame
  <2>3. ASSUME NEW a \in Admins, AdminStep(a)
        PROVE  wcmd' = wcmd
    BY <2>3, AdminFrames DEF AdminFrame, writerVars
  <2>4. CASE (\E j \in Keys : Expire(j) \/ ExternalWrite(j)) \/ UNCHANGED vars
    BY <2>4 DEF Expire, ExternalWrite, vars, writerVars
  <2> QED  BY <2>1, <2>2, <2>3, <2>4 DEF Next, Idle
<1>2. ASSUME NEW k \in Keys
      PROVE  /\ purged'[k] <= origin'[k].ver
             /\ Present(prot[k])' => InBounds(prot[k].ver, k)'
             /\ Present(prob[k])' => InBounds(prob[k].ver, k)'
  BY CopiesStay DEF StaysInBounds, InBounds, Present
<1>3. ASSUME NEW r \in Readers
      PROVE  pc'[r] \in InHand => InBounds(cand[r].ver, cur[r])'
  BY HandsStay DEF StaysInBounds, InBounds
<1>4. ASSUME NEW r \in Readers, NEW k \in Keys
      PROVE  Storable(r, k)' => InBounds(got[r][k].ver, k)'
  BY FillsStay DEF StaysInBounds, InBounds
<1>5. ASSUME NEW a \in Admins, NEW k \in Keys
      PROVE  /\ apc'[a] \in {"purgeProb", "bump"} => ~Present(prot[k])'
             /\ apc'[a] = "bump" => ~Present(prob[k])'
  BY PurgesStay DEF Present
<1>6. (\A w \in Writers : wcmd[w] \in WriteOps)'
  BY <1>1 DEF CopyDiscipline
<1> QED  BY <1>2, <1>3, <1>4, <1>5, <1>6 DEF CopyDiscipline, InHand

LEMMA InitCopy ==
  ASSUME Init
  PROVE  CopyDiscipline
<1>1. \A k \in Keys : origin[k].ver = 0 /\ purged[k] = 0
  BY DEF Init
<1>2. \A k \in Keys : /\ Present(prot[k]) => prot[k].ver = 0
                      /\ Present(prob[k]) => prob[k].ver = 0
  <2>1. PICK warm \in SUBSET WarmKeys, candidates \in SUBSET CandidateKeys :
          /\ prot = [k \in Keys |-> IF k \in warm THEN [ver |-> 0, age |-> "fresh"] ELSE NoEntry]
          /\ prob = [k \in Keys |-> IF k \in candidates THEN [ver |-> 0, age |-> "fresh"]
                                    ELSE NoEntry]
    BY DEF Init
  <2> QED  BY <2>1, SMT DEF NoEntry
<1>3. 0 <= 0 /\ 0 >= 0
  BY SMT
<1>4. \A r \in Readers : pc[r] \notin InHand /\ \A k \in Keys : ~Storable(r, k)
  BY DEF Init, InHand, Holding, Storable, Reconciling
<1>5. \A a \in Admins : apc[a] = "start"
  BY DEF Init
<1>6. \A w \in Writers : wcmd[w] \in WriteOps
  BY DEF Init
<1> QED  BY <1>1, <1>2, <1>3, <1>4, <1>5, <1>6 DEF CopyDiscipline, InBounds, InHand
-----------------------------------------------------------------------------
(***************************************************************************)
(* The tracker and the demotions it reports.                               *)
(***************************************************************************)
\* The tracker catches up: it reports in D what leaves HOT, and promotes only
\* by EWMA, or the key that p has it admit.
Catches(p, D) ==
  \A j \in Keys :
    /\ IsHot(j) => track'[j] = "hot" \/ j \in D
    /\ track'[j] = "hot" => \/ IsHot(j) \/ "promote" \in Env
                            \/ p \in Readers /\ pc[p] = "admit" /\ j = cur[p]

Reports(p, D) ==
  pend[p] = {} /\ pend' = [pend EXCEPT ![p] = D] /\ drop' = drop /\ Catches(p, D)

\* A process goes on with the demotions that were reported to it.
Applies(p) == track' = track /\ ApplyDemotion(p)

TrackerQuiet == track' = track /\ pend' = pend /\ drop' = drop

LEMMA AdvancedHot ==
  ASSUME TypeOK, NEW D \in SUBSET Demotable, NEW P \in SUBSET (Promotable \ D), NEW j \in Keys
  PROVE  /\ IsHot(j) => Advanced(D, P)[j] = "hot" \/ j \in D
         /\ Advanced(D, P)[j] = "hot" => IsHot(j) \/ "promote" \in Env
         /\ Advanced(D, P) \in [Keys -> TrackState]
<1>1. Advanced(D, P)[j] = IF j \in D THEN "tracked" ELSE IF j \in P THEN "hot" ELSE track[j]
  BY DEF Advanced
<1>2. j \in P => "promote" \in Env
  BY DEF Promotable
<1>3. Advanced(D, P) \in [Keys -> TrackState]
  BY DEF Advanced, TypeOK, TypeShared, TrackState
<1> QED  BY <1>1, <1>2, <1>3 DEF IsHot

LEMMA ObservedHot ==
  ASSUME TypeOK, NEW k \in Keys, NEW D \in SUBSET Demotable,
         NEW P \in SUBSET (Promotable \ D), NEW t \in ObserveWithState(k, D, P), NEW j \in Keys
  PROVE  /\ IsHot(j) => t[j] = "hot" \/ j \in D
         /\ t[j] = "hot" => IsHot(j) \/ "promote" \in Env
<1> DEFINE base == Advanced(D, P)
           added == [base EXCEPT ![k] = "tracked"]
<1>1. base \in [Keys -> TrackState]
  BY AdvancedHot
<1>2. \/ t = base
      \/ base[k] = "untracked" /\ t = added
      \/ base[k] = "untracked" /\ \E v \in Keys : base[v] = "tracked" /\ t = [added EXCEPT ![v] = "untracked"]
  BY DEF ObserveWithState
<1>3. t[j] = "hot" <=> base[j] = "hot"
  <2>1. CASE t = base
    BY <2>1
  <2>2. CASE base[k] = "untracked" /\ t = added
    BY <1>1, <2>2
  <2>3. ASSUME NEW v \in Keys, base[k] = "untracked", base[v] = "tracked",
               t = [added EXCEPT ![v] = "untracked"]
        PROVE  t[j] = "hot" <=> base[j] = "hot"
    <3>1. added \in [Keys -> TrackState] /\ (added[j] = "hot" <=> base[j] = "hot")
      BY <1>1, <2>3 DEF TrackState
    <3> QED  BY <2>3, <3>1
  <2> QED  BY <1>2, <2>1, <2>2, <2>3
<1> QED  BY <1>3, AdvancedHot

LEMMA AdmittedHot ==
  ASSUME TypeOK, NEW k \in Keys, NEW D \in SUBSET Demotable,
         NEW P \in SUBSET (Promotable \ D), NEW j \in Keys
  PROVE  /\ IsHot(j) => Admit(k, D, P)[j] = "hot" \/ j \in D
         /\ Admit(k, D, P)[j] = "hot" => IsHot(j) \/ "promote" \in Env \/ j = k
<1>1. Advanced(D, P) \in [Keys -> TrackState]
  BY AdvancedHot
<1>2. Admit(k, D, P)[j] = Advanced(D, P)[j] \/ (j = k /\ Admit(k, D, P)[j] = "hot")
  BY <1>1 DEF Admit
<1> QED  BY <1>2, AdvancedHot

LEMMA ReaderTracker ==
  ASSUME TypeOK, HotDiscipline, NEW r \in Readers, ReaderStep(r) \/ ReadTimeout(r)
  PROVE  \/ TrackerQuiet \/ Applies(r)
         \/ \E D \in SUBSET Keys : Reports(r, D)
<1>0. todo[r] \subseteq Keys /\ cur[r] \in Keys
  BY RequestTypes
<1>1. CASE Observe(r)
  <2>1. pend[r] = {} /\ drop' = drop
    BY <1>1 DEF Observe, HotDiscipline, Demoting
  <2>2. CASE UNCHANGED <<track, pend>>
    BY <2>1, <2>2 DEF TrackerQuiet
  <2>3. CASE ~UNCHANGED <<track, pend>>
    <3>1. PICK k \in Keys, D \in SUBSET Demotable : \E P \in SUBSET (Promotable \ D) :
                 /\ track' \in ObserveWithState(k, D, P)
                 /\ pend' = [pend EXCEPT ![r] = D]
      BY <1>0, <1>1, <2>3 DEF Observe
    <3>2. D \in SUBSET Keys
      BY DEF Demotable
    <3>3. Reports(r, D)
      <4>1. Catches(r, D)
        BY <3>1, ObservedHot DEF Catches
      <4> QED  BY <2>1, <3>1, <4>1 DEF Reports
    <3> QED  BY <3>2, <3>3
  <2> QED  BY <2>2, <2>3
<1>2. CASE AdmitCandidate(r)
  <2>1. pend[r] = {} /\ drop' = drop /\ pc[r] = "admit"
    BY <1>2 DEF AdmitCandidate, HotDiscipline, Demoting
  <2>2. PICK D \in SUBSET Demotable : \E P \in SUBSET (Promotable \ D) :
               /\ track' = Admit(cur[r], D, P)
               /\ pend' = [pend EXCEPT ![r] = D]
    BY <1>2 DEF AdmitCandidate
  <2>3. PICK P \in SUBSET (Promotable \ D) : track' = Admit(cur[r], D, P)
    BY <2>2
  <2>4. ASSUME NEW j \in Keys
        PROVE  /\ IsHot(j) => track'[j] = "hot" \/ j \in D
               /\ track'[j] = "hot" => IsHot(j) \/ "promote" \in Env \/ j = cur[r]
    BY <1>0, <2>3, AdmittedHot
  <2>5. Catches(r, D)
    BY <2>1, <2>4 DEF Catches
  <2>6. pend' = [pend EXCEPT ![r] = D] /\ D \in SUBSET Keys
    BY <2>2 DEF Demotable
  <2> QED  BY <2>1, <2>5, <2>6 DEF Reports
<1>3. CASE HandleObservation(r) \/ HandleAdmission(r)
  BY <1>3 DEF HandleObservation, HandleAdmission, Applies
<1>4. CASE \/ LookProtected(r) \/ LookProbationary(r) \/ RecheckHot(r) \/ LoadPromotionFlag(r)
           \/ LookProtectedLocked(r) \/ TakeStripe(r) \/ SetPromotionFlag(r)
           \/ RemoveCandidate(r) \/ PromoteCandidate(r) \/ ClearPromotionFlag(r) \/ Miss(r)
  <2>1. track' = track /\ UNCHANGED transVars
    BY <1>4 DEF LookProtected, LookProbationary, RecheckHot, LoadPromotionFlag,
         LookProtectedLocked, TakeStripe, SetPromotionFlag, RemoveCandidate, PromoteCandidate,
         ClearPromotionFlag, Miss
  <2> QED  BY <2>1 DEF transVars, TrackerQuiet
<1>5. CASE AnswerFrame
  BY <1>5 DEF AnswerFrame, transVars, TrackerQuiet
<1> QED
  BY <1>1, <1>2, <1>3, <1>4, <1>5 DEF ReaderStep, Join, Receive, ReadTimeout, FetchBypass,
       FetchMissing, FinishMGet, StaleFallback

LEMMA TrackerSteps ==
  ASSUME TypeOK, HotDiscipline, [Next]_vars
  PROVE  \/ TrackerQuiet
         \/ \E p \in Readers \cup Admins : Applies(p) \/ \E D \in SUBSET Keys : Reports(p, D)
<1>1. ASSUME NEW r \in Readers, ReaderStep(r) \/ ReadTimeout(r)
      PROVE  TrackerQuiet \/ Applies(r) \/ \E D \in SUBSET Keys : Reports(r, D)
  BY <1>1, ReaderTracker
<1>2. ASSUME NEW r \in Readers, FillStep(r)
      PROVE  TrackerQuiet
  BY <1>2, FillFrames DEF FillFrame, transVars, TrackerQuiet
<1>3. ASSUME NEW w \in Writers, WriterStep(w) \/ GateTimeout(w) \/ Retry(w) \/ LateApply(w)
      PROVE  TrackerQuiet
  BY <1>3, WriterFrames DEF WriterFrame, transVars, TrackerQuiet
<1>4. ASSUME NEW a \in Admins, AdminStep(a)
      PROVE  TrackerQuiet \/ Applies(a) \/ \E D \in SUBSET Keys : Reports(a, D)
  <2>1. CASE AdvanceTracker(a)
    <3>1. pend[a] = {} /\ drop' = drop
      BY <2>1 DEF AdvanceTracker, HotDiscipline
    <3>2. PICK D \in SUBSET Demotable : \E P \in SUBSET (Promotable \ D) :
                 track' = Advanced(D, P) /\ pend' = [pend EXCEPT ![a] = D]
      BY <2>1 DEF AdvanceTracker
    <3>3. PICK P \in SUBSET (Promotable \ D) : track' = Advanced(D, P)
      BY <3>2
    <3>4. ASSUME NEW j \in Keys
          PROVE  /\ IsHot(j) => track'[j] = "hot" \/ j \in D
                 /\ track'[j] = "hot" => IsHot(j) \/ "promote" \in Env
      BY <3>3, AdvancedHot
    <3>5. Catches(a, D)
      BY <3>4 DEF Catches
    <3>6. pend' = [pend EXCEPT ![a] = D] /\ D \in SUBSET Keys
      BY <3>2 DEF Demotable
    <3> QED  BY <3>1, <3>5, <3>6 DEF Reports
  <2>2. CASE HandleTransitions(a)
    BY <2>2 DEF HandleTransitions, Applies
  <2>3. CASE track' = track /\ UNCHANGED transVars
    BY <2>3 DEF transVars, TrackerQuiet
  <2> QED
    BY <1>4, <2>1, <2>2, <2>3 DEF AdminStep, PurgeKey, ForgetPurged, LockAllStripes,
         PurgeTier, AdvanceEpochs, CloseService
<1>5. CASE \E j \in Keys : Expire(j) \/ ExternalWrite(j)
  BY <1>5 DEF Expire, ExternalWrite, transVars, TrackerQuiet
<1>6. CASE UNCHANGED vars
  BY <1>6 DEF vars, sharedVars, transVars, TrackerQuiet
<1> QED  BY <1>1, <1>2, <1>3, <1>4, <1>5, <1>6 DEF Next, Idle

\* The demotion of k is applied in this step.
Dropped(k) == \E p \in Procs : drop[p] = k /\ ~Present(prot'[k])

LEMMA DemotionApplied ==
  ASSUME TypeOK, NEW p \in Procs, ApplyDemotion(p)
  PROVE  /\ \A q \in Procs \ {p} : pend'[q] = pend[q] /\ drop'[q] = drop[q]
         /\ pend'[p] \subseteq pend[p]
         /\ \/ pend' = pend /\ drop'[p] \in Keys /\ ~IsHot(drop'[p]) /\ prot' = prot
            \/ /\ drop' = drop /\ prot' = prot /\ drop[p] = None
               /\ \E k \in Keys : IsHot(k) /\ pend'[p] = pend[p] \ {k}
            \/ /\ drop'[p] = None /\ drop[p] \in Keys /\ ~Present(prot'[drop[p]])
               /\ pend'[p] = pend[p] \ {drop[p]}
<1>0. pend \in [Procs -> SUBSET Keys] /\ drop \in [Procs -> Keys \cup {None}]
  BY DEF TypeOK, TypeTrans
<1>1. ASSUME NEW k \in pend[p], drop[p] = None, UNCHANGED <<prot, prob>>,
             IF StillDemoted(k)
             THEN drop' = [drop EXCEPT ![p] = k] /\ UNCHANGED pend
             ELSE pend' = [pend EXCEPT ![p] = @ \ {k}] /\ UNCHANGED drop
      PROVE  /\ \A q \in Procs \ {p} : pend'[q] = pend[q] /\ drop'[q] = drop[q]
             /\ pend'[p] \subseteq pend[p]
             /\ \/ pend' = pend /\ drop'[p] \in Keys /\ ~IsHot(drop'[p]) /\ prot' = prot
                \/ /\ drop' = drop /\ prot' = prot /\ drop[p] = None
                   /\ \E j \in Keys : IsHot(j) /\ pend'[p] = pend[p] \ {j}
  <2>1. k \in Keys
    BY <1>0
  <2>2. CASE StillDemoted(k)
    <3>1. pend' = pend /\ drop' = [drop EXCEPT ![p] = k] /\ prot' = prot /\ ~IsHot(k)
      BY <1>1, <2>2 DEF StillDemoted
    <3> QED  BY <1>0, <2>1, <3>1
  <2>3. CASE ~StillDemoted(k)
    <3>1. drop' = drop /\ pend' = [pend EXCEPT ![p] = @ \ {k}] /\ prot' = prot /\ IsHot(k)
      BY <1>1, <2>3 DEF StillDemoted
    <3> QED  BY <1>0, <1>1, <2>1, <3>1
  <2> QED  BY <2>2, <2>3
<1>2. ASSUME NEW k \in Keys, drop[p] = k, prot' = Without(prot, k),
             pend' = [pend EXCEPT ![p] = @ \ {k}], drop' = [drop EXCEPT ![p] = None]
      PROVE  /\ \A q \in Procs \ {p} : pend'[q] = pend[q] /\ drop'[q] = drop[q]
             /\ pend'[p] \subseteq pend[p]
             /\ drop'[p] = None /\ drop[p] \in Keys /\ ~Present(prot'[drop[p]])
             /\ pend'[p] = pend[p] \ {drop[p]}
  BY <1>0, <1>2, TierTypes, LosesKey
<1>3. CASE \E k \in pend[p] :
             /\ drop[p] = None /\ UNCHANGED <<prot, prob>>
             /\ IF StillDemoted(k)
                THEN drop' = [drop EXCEPT ![p] = k] /\ UNCHANGED pend
                ELSE pend' = [pend EXCEPT ![p] = @ \ {k}] /\ UNCHANGED drop
  BY <1>1, <1>3
<1>4. CASE \E k \in Keys : /\ drop[p] = k /\ prot' = Without(prot, k)
                           /\ pend' = [pend EXCEPT ![p] = @ \ {k}]
                           /\ drop' = [drop EXCEPT ![p] = None]
  BY <1>2, <1>4
<1> QED  BY <1>3, <1>4 DEF ApplyDemotion

\* A key that is HOT, or reported, stays so until its demotion is applied.
LEMMA HotStays ==
  ASSUME TypeOK, HotDiscipline, [Next]_vars, NEW k \in Keys, HotOrReported(k)
  PROVE  HotOrReported(k)' \/ Dropped(k)
<1>0. pend \in [Procs -> SUBSET Keys]
  BY DEF TypeOK, TypeTrans
<1>1. CASE TrackerQuiet
  BY <1>1 DEF TrackerQuiet, HotOrReported, IsHot
<1>2. ASSUME NEW p \in Procs, NEW D \in SUBSET Keys, Reports(p, D)
      PROVE  HotOrReported(k)'
  <2>1. pend'[p] = D /\ \A q \in Procs \ {p} : pend'[q] = pend[q]
    BY <1>0, <1>2 DEF Reports
  <2>2. CASE IsHot(k)
    BY <1>2, <2>1, <2>2 DEF Reports, Catches, HotOrReported, IsHot
  <2>3. ASSUME NEW q \in Procs, k \in pend[q]
        PROVE  HotOrReported(k)'
    <3>1. q # p
      BY <1>2, <2>3 DEF Reports
    <3> QED  BY <2>1, <2>3, <3>1 DEF HotOrReported
  <2> QED  BY <2>2, <2>3 DEF HotOrReported
<1>3. ASSUME NEW p \in Procs, Applies(p)
      PROVE  HotOrReported(k)' \/ Dropped(k)
  <2>1. track' = track /\ ApplyDemotion(p)
    BY <1>3 DEF Applies
  <2>2. CASE IsHot(k)
    BY <2>1, <2>2 DEF HotOrReported, IsHot
  <2>3. ASSUME NEW q \in Procs, k \in pend[q], ~IsHot(k)
        PROVE  HotOrReported(k)' \/ Dropped(k)
    <3>1. CASE k \in pend'[q]
      BY <3>1 DEF HotOrReported
    <3>2. CASE k \notin pend'[q]
      <4>1. q = p
        BY <2>1, <2>3, <3>2, DemotionApplied
      <4>2. drop[p] = k /\ ~Present(prot'[drop[p]])
        BY <2>1, <2>3, <3>2, <4>1, DemotionApplied
      <4> QED  BY <4>2 DEF Dropped
    <3> QED  BY <3>1, <3>2
  <2> QED  BY <2>2, <2>3 DEF HotOrReported
<1> QED  BY <1>1, <1>2, <1>3, TrackerSteps DEF Procs

\* No candidate, fill or write in hand is of a key whose demotion is applied.
LEMMA DroppedExcludes ==
  ASSUME TypeOK, StripeDiscipline, NEW k \in Keys, Dropped(k)
  PROVE  /\ \A r \in Readers : /\ ~(pc[r] \in Holding /\ cur[r] = k)
                               /\ ~(fpc[r] \in Reconciling /\ fkey[r] = k)
         /\ \A w \in Writers : ~(wpc[w] = "throughStore" /\ k \in wkeys[w])
<1>1. PICK p \in Procs : drop[p] = k
  BY DEF Dropped
<1>2. k # None
  BY ServiceAssumption
<1>3. lock[StripeOf[k]] = p
  BY <1>1, <1>2, Holders
<1>4. ASSUME NEW r \in Readers
      PROVE  /\ ~(pc[r] \in Holding /\ cur[r] = k)
             /\ ~(fpc[r] \in Reconciling /\ fkey[r] = k)
  <2>1. ReaderInv(r)
    BY DEF StripeDiscipline
  <2>2. drop[r] = k => pc[r] \in {"obs", "admitted"}
    BY <1>2, <2>1 DEF ReaderInv
  <2>3. ~(pc[r] \in Holding /\ cur[r] = k)
    BY <1>1, <1>3, <2>2, Holders DEF Holding
  <2>4. fpc[r] \in Reconciling => pc[r] \in {"wait", "fill", "stale", "done"}
    BY <2>1 DEF ReaderInv, Reconciling
  <2>5. ~(fpc[r] \in Reconciling /\ fkey[r] = k)
    BY <1>1, <1>3, <2>2, <2>4, Holders
  <2> QED  BY <2>3, <2>5
<1>5. ASSUME NEW w \in Writers
      PROVE  ~(wpc[w] = "throughStore" /\ k \in wkeys[w])
  <2>1. WriterInv(w)
    BY DEF StripeDiscipline
  <2> QED  BY <1>1, <1>2, <1>3, <2>1, Holders DEF WriterInv
<1> QED  BY <1>4, <1>5

\* The protected tier after a step.
LEMMA ProtectedStaysHot ==
  ASSUME TypeOK, HotDiscipline, [Next]_vars, NEW k \in Keys, Present(prot'[k])
  PROVE  HotOrReported(k)'
<1>1. ASSUME NEW v, ProtSource(k, v)
      PROVE  HotOrReported(k)
  BY <1>1 DEF ProtSource, Promotes, FillsProtected, StoresThrough, HotDiscipline
<1>2. HotOrReported(k)
  BY <1>1, NextTiers DEF ProtectedStep, Loses, Gains, HotDiscipline
<1> QED  BY <1>2, HotStays DEF Dropped

Transfer == {"flagOn", "takeCand", "promote"}

\* The state in which Admit left the key of a request, and the demotions it
\* has to apply.
HotHand(r) ==
  /\ pc'[r] \in Transfer /\ hot'[r] =>
       \/ pc[r] \in Transfer /\ hot[r] /\ cur'[r] = cur[r]
       \/ track'[cur'[r]] = "hot"
  /\ pc'[r] = "promote" => hot'[r]
  /\ pend'[r] # {} => pc'[r] \in Demoting

LEMMA SameHotHand ==
  ASSUME HotDiscipline, NEW r \in Readers, pc'[r] = pc[r], hot'[r] = hot[r], cur'[r] = cur[r],
         pend'[r] = pend[r]
  PROVE  HotHand(r)
BY DEF HotHand, HotDiscipline, Transfer

LEMMA ReaderHotHands ==
  ASSUME TypeOK, HotDiscipline, NEW r \in Readers, ReaderStep(r) \/ ReadTimeout(r)
  PROVE  \A q \in Readers : HotHand(q)
<1>0. pend \in [Procs -> SUBSET Keys] /\ r \in Procs
  BY DEF TypeOK, TypeTrans, Procs
<1>1. CASE \/ LookProtected(r) \/ LookProbationary(r) \/ RecheckHot(r) \/ LoadPromotionFlag(r)
           \/ LookProtectedLocked(r)
  <2>1. pend' = pend /\ hot' = hot /\ cur' = cur
    BY <1>1 DEF LookProtected, LookProbationary, RecheckHot, LoadPromotionFlag,
         LookProtectedLocked, LookupFrame, transVars
  <2>2. pc[r] \notin Demoting
    BY <1>1 DEF LookProtected, LookProbationary, RecheckHot, LoadPromotionFlag,
         LookProtectedLocked, Demoting
  <2>3. pc'[r] \notin Transfer
    BY <1>1, LookupGoes DEF Transfer
  <2>4. HotHand(r)
    BY <2>1, <2>2, <2>3 DEF HotHand, HotDiscipline, Transfer
  <2> QED  BY <1>1, <2>1, <2>4, LookupGoes, SameHotHand
<1>2. CASE \/ Miss(r) \/ Join(r) \/ Receive(r) \/ ReadTimeout(r) \/ FetchBypass(r)
           \/ FetchMissing(r) \/ FinishMGet(r) \/ StaleFallback(r)
  <2>1. pend' = pend /\ hot' = hot /\ cur' = cur
    BY <1>2 DEF Miss, Join, Receive, ReadTimeout, FetchBypass, FetchMissing, FinishMGet,
         StaleFallback, AnswerFrame, transVars
  <2>2. pc[r] \notin Demoting
    BY <1>2 DEF Miss, Join, Receive, ReadTimeout, FetchBypass, FetchMissing, FinishMGet,
         StaleFallback, Demoting
  <2>3. pc'[r] \notin Transfer
    BY <1>2, AnswerGoes DEF Transfer
  <2>4. HotHand(r)
    BY <2>1, <2>2, <2>3 DEF HotHand, HotDiscipline, Transfer
  <2> QED  BY <1>2, <2>1, <2>4, AnswerGoes, SameHotHand
<1>3. CASE Observe(r)
  <2>1. /\ \A q \in Readers \ {r} : hot'[q] = hot[q] /\ cur'[q] = cur[q]
        /\ \A q \in Readers \ {r} : pend'[q] = pend[q]
    BY ZenonT(30), <1>0, <1>3 DEF Observe, TypeOK, TypeReader, Procs
  <2>2. pc'[r] \notin Transfer
    BY <1>3, AnswerGoes DEF Transfer
  <2>3. pend'[r] = {} \/ pc'[r] = "obs"
    <3>1. pend[r] = {}
      BY <1>3 DEF Observe, HotDiscipline, Demoting
    <3>2. \/ pend' = pend
          \/ \E D : pend' = [pend EXCEPT ![r] = D] /\ (D = {} \/ Goto(r, "obs"))
      BY <1>3 DEF Observe
    <3> QED  BY <1>0, <3>1, <3>2, GoesTo
  <2>4. HotHand(r)
    BY <2>2, <2>3 DEF HotHand, Transfer, Demoting
  <2> QED  BY <1>3, <2>1, <2>4, AnswerGoes, SameHotHand
<1>4. CASE HandleObservation(r)
  <2>1. hot' = hot /\ cur' = cur /\ ApplyDemotion(r)
    BY <1>4 DEF HandleObservation, LookupFrame
  <2>2. pc'[r] \notin Transfer
    BY <1>4, AnswerGoes DEF Transfer
  <2>3. pend'[r] = {} \/ pc'[r] = "obs"
    <3>1. pend'[r] = {} \/ Goto(r, "obs")
      BY <1>4 DEF HandleObservation, NoHit
    <3> QED  BY <3>1, GoesTo
  <2>4. HotHand(r)
    BY <2>2, <2>3 DEF HotHand, Transfer, Demoting
  <2> QED  BY <1>0, <1>4, <2>1, <2>4, AnswerGoes, DemotionApplied, SameHotHand DEF Procs
<1>5. CASE TakeStripe(r)
  <2>1. pend' = pend /\ hot' = hot /\ cur' = cur /\ pc[r] \notin Demoting
    BY <1>5 DEF TakeStripe, LookupFrame, transVars, Demoting
  <2>2. /\ \A q \in Readers \ {r} : pc'[q] = pc[q]
        /\ pc'[r] \in {"admit", "miss", "next", "mfetch", "done"}
    <3>1. miss[r] \in SUBSET Keys
      BY DEF TypeOK, TypeReader
    <3>2. Goto(r, "admit") \/ Goto(r, "miss") \/ Goto(r, AfterKey(r, miss[r]))
      BY <1>5 DEF TakeStripe, Hit, NoHit
    <3> QED  BY <3>1, <3>2, GoesTo, Labels
  <2>3. pc'[r] \notin Transfer
    BY <2>2 DEF Transfer
  <2>4. HotHand(r)
    BY <2>1, <2>3 DEF HotHand, HotDiscipline, Transfer
  <2> QED  BY <2>1, <2>2, <2>4, SameHotHand
<1>6. CASE AdmitCandidate(r)
  <2>1. /\ cur' = cur
        /\ hot'[r] = (track'[cur[r]] = "hot")
        /\ \A q \in Readers \ {r} : hot'[q] = hot[q]
        /\ \A q \in Readers \ {r} : pend'[q] = pend[q]
    BY <1>0, <1>6 DEF AdmitCandidate, LookupFrame, TypeOK, TypeReader, Procs
  <2>2. Goto(r, "flagOn") \/ Goto(r, "takeCand")
    BY <1>6 DEF AdmitCandidate, NoHit
  <2>3. /\ \A q \in Readers \ {r} : pc'[q] = pc[q]
        /\ pc'[r] \in {"flagOn", "takeCand"}
    BY <2>2, GoesTo
  <2>4. HotHand(r)
    BY <2>1, <2>3 DEF HotHand, Demoting
  <2> QED  BY <2>1, <2>3, <2>4, SameHotHand
<1>7. CASE SetPromotionFlag(r) \/ RemoveCandidate(r) \/ PromoteCandidate(r) \/ ClearPromotionFlag(r)
  <2>1. pend' = pend /\ hot' = hot /\ cur' = cur
    BY <1>7 DEF SetPromotionFlag, RemoveCandidate, PromoteCandidate, ClearPromotionFlag,
         LookupFrame, transVars
  <2>2. \/ pc[r] = "flagOn" /\ Goto(r, "takeCand")
        \/ pc[r] = "takeCand" /\ Goto(r, "promote") /\ hot[r]
        \/ Goto(r, "flagOff")
        \/ \E c : AfterPromotion(r, pend[r], c)
    BY <1>7 DEF SetPromotionFlag, RemoveCandidate, PromoteCandidate, ClearPromotionFlag, NoHit
  <2>3. /\ \A q \in Readers \ {r} : pc'[q] = pc[q]
        /\ \/ pc[r] = "flagOn" /\ pc'[r] = "takeCand"
           \/ pc[r] = "takeCand" /\ pc'[r] = "promote" /\ hot[r]
           \/ pc'[r] = "flagOff" \/ pc'[r] = "admitted"
           \/ pend[r] = {} /\ pc'[r] \in {"next", "mfetch", "done", "miss"}
    BY <2>2, GoesTo, PromotionGoes
  <2>4. HotHand(r)
    BY <2>1, <2>3 DEF HotHand, Transfer, Demoting
  <2> QED  BY <2>1, <2>3, <2>4, SameHotHand
<1>8. CASE HandleAdmission(r)
  <2>1. hot' = hot /\ cur' = cur /\ ApplyDemotion(r) /\ AfterPromotion(r, pend'[r], cand[r])
    BY <1>8 DEF HandleAdmission, LookupFrame
  <2>2. /\ \A q \in Readers \ {r} : pc'[q] = pc[q]
        /\ \/ pc'[r] = "admitted"
           \/ pend'[r] = {} /\ pc'[r] \in {"next", "mfetch", "done", "miss"}
    BY <2>1, PromotionGoes
  <2>3. HotHand(r)
    BY <2>2 DEF HotHand, Transfer, Demoting
  <2> QED  BY <1>0, <2>1, <2>2, <2>3, DemotionApplied, SameHotHand DEF Procs
<1> QED  BY <1>1, <1>2, <1>3, <1>4, <1>5, <1>6, <1>7, <1>8 DEF ReaderStep

\* Fills: the tracker is read in the step before the value is stored.
HotFill(r) ==
  fpc'[r] = "storeProt" => \/ fpc[r] = "storeProt" /\ fkey'[r] = fkey[r]
                           \/ IsHot(fkey'[r]) /\ track' = track

LEMMA NextHotHands ==
  ASSUME TypeOK, HotDiscipline, [Next]_vars, NEW q \in Readers
  PROVE  HotHand(q) /\ HotFill(q)
<1>0. q \in Procs /\ pend \in [Procs -> SUBSET Keys]
  BY DEF TypeOK, TypeTrans, Procs
<1>1. ASSUME NEW r \in Readers, ReaderStep(r) \/ ReadTimeout(r)
      PROVE  HotHand(q) /\ HotFill(q)
  <2>1. fkey' = fkey /\ (fpc'[q] = fpc[q] \/ fpc'[q] # "storeProt")
    <3>1. CASE UNCHANGED fillVars
      BY <3>1 DEF fillVars
    <3>2. CASE Join(r) \/ FetchMissing(r) \/ FinishMGet(r)
      <4>1. fkey' = fkey
        BY <3>2 DEF Join, FetchMissing, FinishMGet
      <4>2. fpc' = fpc \/ \E label \in {"fetch", "end", "lock", "done"} : fpc' = [fpc EXCEPT ![r] = label]
        BY <3>2 DEF Join, FetchMissing, FinishMGet
      <4> QED  BY <4>1, <4>2, FillGoesTo
    <3>3. \/ UNCHANGED fillVars \/ Join(r) \/ FetchMissing(r) \/ FinishMGet(r)
      <4>1. CASE LookupFrame
        BY <4>1 DEF LookupFrame
      <4>2. CASE Observe(r) \/ Miss(r) \/ Receive(r) \/ ReadTimeout(r) \/ FetchBypass(r)
                 \/ StaleFallback(r)
        BY <4>2 DEF Observe, Miss, Receive, ReadTimeout, FetchBypass, StaleFallback
      <4> QED
        BY <1>1, <4>1, <4>2 DEF ReaderStep, HandleObservation, LookProtected, LookProbationary,
             RecheckHot, LoadPromotionFlag, LookProtectedLocked, TakeStripe, AdmitCandidate,
             SetPromotionFlag, RemoveCandidate, PromoteCandidate, ClearPromotionFlag,
             HandleAdmission
    <3> QED  BY <3>1, <3>2, <3>3
  <2> QED  BY <1>1, <2>1, ReaderHotHands DEF HotFill
<1>2. ASSUME NEW r \in Readers, FillStep(r)
      PROVE  HotHand(q) /\ HotFill(q)
  <2>1. pc' = pc /\ hot' = hot /\ cur' = cur /\ pend' = pend /\ track' = track
    BY <1>2, FillFrames DEF FillFrame, readerVars, transVars
  <2>2. HotFill(q)
    <3>1. CASE FillDrop(r)
      <4>1. fkey' = fkey
        BY <3>1 DEF FillDrop
      <4>2. \/ IsHot(fkey[r]) /\ fpc' = [fpc EXCEPT ![r] = "storeProt"]
            \/ \E label \in {"storeProb", "end", "lock"} : fpc' = [fpc EXCEPT ![r] = label]
        BY <3>1 DEF FillDrop, FillNext
      <4>3. fpc'[q] = fpc[q] \/ fpc'[q] # "storeProt" \/ (IsHot(fkey[r]) /\ q = r)
        BY <4>2, FillGoesTo
      <4> QED  BY <2>1, <4>1, <4>3 DEF HotFill
    <3>2. CASE FillStore(r) \/ FlightFetch(r) \/ FlightDone(r)
      <4>1. fkey' = fkey
        BY <3>2 DEF FillStore, FlightFetch, FlightDone
      <4>2. \E label \in {"end", "lock", "done"} : fpc' = [fpc EXCEPT ![r] = label]
        BY <3>2 DEF FillStore, FillNext, FlightFetch, FlightDone
      <4>3. fpc'[q] = fpc[q] \/ fpc'[q] # "storeProt"
        BY <4>2, FillGoesTo
      <4> QED  BY <4>1, <4>3 DEF HotFill
    <3>3. CASE FillCheck(r)
      <4>1. /\ fpc[r] = "lock"
            /\ \E label \in {"drop", "end", "lock"} : fpc' = [fpc EXCEPT ![r] = label]
        BY <3>3 DEF FillCheck
      <4>2. fkey' = fkey \/ \E k \in Keys : fkey' = [fkey EXCEPT ![r] = k]
        BY <3>3, RequestTypes DEF FillCheck
      <4>3. \A p \in Readers \ {r} : fkey'[p] = fkey[p] /\ fpc'[p] = fpc[p]
        BY <4>1, <4>2, FillGoesTo DEF TypeOK, TypeFill
      <4>4. fpc'[r] # "storeProt"
        BY <4>1, FillGoesTo
      <4> QED  BY <4>3, <4>4 DEF HotFill
    <3> QED  BY <1>2, <3>1, <3>2, <3>3 DEF FillStep
  <2> QED  BY <2>1, <2>2, SameHotHand
<1>3. ASSUME pc' = pc, hot' = hot, cur' = cur, pend'[q] = pend[q], fpc' = fpc, fkey' = fkey
      PROVE  HotHand(q) /\ HotFill(q)
  BY <1>3, SameHotHand DEF HotFill
<1>4. ASSUME NEW w \in Writers, WriterStep(w) \/ GateTimeout(w) \/ Retry(w) \/ LateApply(w)
      PROVE  HotHand(q) /\ HotFill(q)
  <2>1. UNCHANGED <<readerVars, fillVars, transVars>>
    BY <1>4, WriterFrames DEF WriterFrame
  <2> QED  BY <1>3, <2>1 DEF readerVars, fillVars, transVars
<1>5. ASSUME NEW a \in Admins, AdminStep(a)
      PROVE  HotHand(q) /\ HotFill(q)
  <2>1. UNCHANGED <<readerVars, fillVars>>
    BY <1>5, AdminFrames DEF AdminFrame
  <2>2. q # a /\ a \in Procs
    BY Distinct
  <2>3. pend'[q] = pend[q]
    <3>1. CASE AdvanceTracker(a)
      <4>1. \E D : pend' = [pend EXCEPT ![a] = D]
        BY <3>1 DEF AdvanceTracker
      <4> QED  BY <1>0, <2>2, <4>1
    <3>2. CASE HandleTransitions(a)
      BY <1>0, <2>2, <3>2, DemotionApplied DEF HandleTransitions
    <3>3. CASE UNCHANGED transVars
      BY <3>3 DEF transVars
    <3> QED
      BY <1>5, <3>1, <3>2, <3>3 DEF AdminStep, PurgeKey, ForgetPurged, LockAllStripes,
           PurgeTier, AdvanceEpochs, CloseService
  <2> QED  BY <1>3, <2>1, <2>3 DEF readerVars, fillVars
<1>6. CASE (\E j \in Keys : Expire(j) \/ ExternalWrite(j)) \/ UNCHANGED vars
  <2>1. UNCHANGED <<readerVars, fillVars, transVars>>
    BY <1>6 DEF Expire, ExternalWrite, vars
  <2> QED  BY <1>3, <2>1 DEF readerVars, fillVars, transVars
<1> QED  BY <1>1, <1>2, <1>4, <1>5, <1>6 DEF Next, Idle

\* What a request is about to store as HOT is HOT or reported after the step,
\* as the demotion that would apply the report needs the stripe it holds.
LEMMA ReadersStayHot ==
  ASSUME TypeOK, TypeOK', StripeDiscipline, HotDiscipline, [Next]_vars, NEW r \in Readers
  PROVE  /\ pc'[r] = "promote" => hot'[r]
         /\ pc'[r] \in Transfer /\ hot'[r] => HotOrReported(cur[r])'
         /\ fpc'[r] = "storeProt" => HotOrReported(fkey[r])'
         /\ pend'[r] # {} => pc'[r] \in Demoting
<1>0. HotHand(r) /\ HotFill(r)
  BY NextHotHands
<1>1. cur[r] \in Keys /\ fkey[r] \in Keys
  BY RequestTypes DEF TypeOK, TypeFill
<1>2. ASSUME pc'[r] \in Transfer, hot'[r]
      PROVE  HotOrReported(cur[r])'
  <2>1. CASE track'[cur'[r]] = "hot"
    BY <2>1 DEF HotOrReported, IsHot
  <2>2. CASE pc[r] \in Transfer /\ hot[r] /\ cur'[r] = cur[r]
    <3>1. HotOrReported(cur[r])
      BY <2>2 DEF HotDiscipline, Transfer
    <3>2. pc[r] \in Holding
      BY <2>2 DEF Transfer, Holding
    <3>3. ~Dropped(cur[r])
      BY <1>1, <3>2, DroppedExcludes
    <3>4. \A k \in Keys : HotOrReported(k) => HotOrReported(k)' \/ Dropped(k)
      BY HotStays
    <3>5. track'[cur[r]] = "hot" \/ \E p \in Procs : cur[r] \in pend'[p]
      BY <1>1, <3>1, <3>3, <3>4 DEF HotOrReported, IsHot
    <3> QED  BY <2>2, <3>5 DEF HotOrReported, IsHot
  <2> QED  BY <1>0, <1>2, <2>1, <2>2 DEF HotHand
<1>3. ASSUME fpc'[r] = "storeProt"
      PROVE  HotOrReported(fkey[r])'
  <2>1. CASE IsHot(fkey'[r]) /\ track' = track
    BY <2>1 DEF HotOrReported, IsHot
  <2>2. CASE fpc[r] = "storeProt" /\ fkey'[r] = fkey[r]
    <3>1. HotOrReported(fkey[r])
      BY <2>2 DEF HotDiscipline
    <3>2. fpc[r] \in Reconciling
      BY <2>2 DEF Reconciling
    <3>3. ~Dropped(fkey[r])
      BY <1>1, <3>2, DroppedExcludes
    <3>4. \A k \in Keys : HotOrReported(k) => HotOrReported(k)' \/ Dropped(k)
      BY HotStays
    <3>5. track'[fkey[r]] = "hot" \/ \E p \in Procs : fkey[r] \in pend'[p]
      BY <1>1, <3>1, <3>3, <3>4 DEF HotOrReported, IsHot
    <3> QED  BY <2>2, <3>5 DEF HotOrReported, IsHot
  <2> QED  BY <1>0, <1>3, <2>1, <2>2 DEF HotFill
<1> QED  BY <1>0, <1>2, <1>3 DEF HotHand

\* writeThroughSet: the tracker is read under the stripe that the store keeps.
HotThrough(w) ==
  wpc'[w] = "throughStore" /\ whot'[w] =>
    \/ wpc[w] = "throughStore" /\ whot[w] /\ wkeys'[w] = wkeys[w]
    \/ track' = track /\ \A k \in wkeys'[w] : WritesThrough(k)

LEMMA NextThrough ==
  ASSUME TypeOK, StripeDiscipline, [Next]_vars, NEW w \in Writers
  PROVE  HotThrough(w)
<1>0. wpc \in [Writers -> WriterPC] /\ whot \in [Writers -> BOOLEAN]
  BY DEF TypeOK, TypeWriter
<1>1. ASSUME UNCHANGED writerVars
      PROVE  HotThrough(w)
  BY <1>1 DEF writerVars, HotThrough
<1>2. ASSUME NEW v \in Writers, WriterStep(v) \/ GateTimeout(v) \/ Retry(v) \/ LateApply(v)
      PROVE  HotThrough(w)
  <2>1. wkeys' = wkeys /\ track' = track
    BY <1>2, WriterFrames DEF WriterFrame, transVars
  <2>2. CASE WriteThrough(v)
    <3>1. PICK k \in wkeys[v] : whot' = [whot EXCEPT ![v] = WritesThrough(k)]
      BY <2>2 DEF WriteThrough
    <3>2. wpc[v] = "through" /\ wpc' = [wpc EXCEPT ![v] = "throughStore"]
      BY <2>2 DEF WriteThrough, WGoto
    <3>3. WriterInv(v)
      BY DEF StripeDiscipline
    <3>4. wkeys[v] = {k}
      BY <3>1, <3>2, <3>3 DEF WriterInv
    <3>5. CASE w = v
      <4>1. whot'[w] => WritesThrough(k)
        BY <1>0, <3>1, <3>5
      <4> QED  BY <2>1, <3>4, <3>5, <4>1 DEF HotThrough
    <3>6. CASE w # v
      BY <1>0, <2>1, <3>1, <3>2, <3>6 DEF HotThrough
    <3> QED  BY <3>5, <3>6
  <2>3. CASE ~WriteThrough(v)
    <3>1. whot' = whot
      BY <1>2, <2>3 DEF WriterStep, AcquireGate, InvalidateKeys, Dispatch, WriteReply,
           WriteError, WriteThroughStore, Forget, Release, WriteReturn, GateTimeout, Retry,
           LateApply
    <3>2. wpc' = wpc \/ \E label \in WriterPC \ {"throughStore"} :
                           wpc' = [wpc EXCEPT ![v] = label]
      BY <1>2, <2>3 DEF WriterStep, AcquireGate, InvalidateKeys, Dispatch, WriteReply,
           WriteError, WriteThroughStore, Forget, Release, WriteReturn, GateTimeout, Retry,
           LateApply, WGoto, WriterPC
    <3>3. wpc'[w] = wpc[w] \/ wpc'[w] # "throughStore"
      BY <1>0, <3>2
    <3> QED  BY <2>1, <3>1, <3>3 DEF HotThrough
  <2> QED  BY <2>2, <2>3
<1>3. ASSUME NEW r \in Readers, ReaderStep(r) \/ ReadTimeout(r) \/ FillStep(r)
      PROVE  UNCHANGED writerVars
  BY <1>3, ReaderFrames, FillFrames DEF ReaderFrame, FillFrame
<1>4. ASSUME NEW a \in Admins, AdminStep(a)
      PROVE  UNCHANGED writerVars
  BY <1>4, AdminFrames DEF AdminFrame
<1>5. CASE (\E j \in Keys : Expire(j) \/ ExternalWrite(j)) \/ UNCHANGED vars
  BY <1>1, <1>5 DEF Expire, ExternalWrite, vars
<1> QED  BY <1>1, <1>2, <1>3, <1>4, <1>5 DEF Next, Idle

LEMMA WritersStayHot ==
  ASSUME TypeOK, TypeOK', StripeDiscipline, HotDiscipline, [Next]_vars, NEW w \in Writers
  PROVE  /\ pend'[w] = {}
         /\ wpc'[w] = "throughStore" /\ whot'[w] =>
              \A k \in wkeys'[w] : track'[k] = "hot" \/ \E p \in Procs : k \in pend'[p]
<1>0. HotThrough(w) /\ wkeys[w] \subseteq Keys
  BY NextThrough DEF TypeOK, TypeWriter
<1>1. pend[w] = {} /\ pend \in [Procs -> SUBSET Keys]
  BY DEF HotDiscipline, TypeOK, TypeTrans
<1>2. pend'[w] = {}
  <2>1. CASE TrackerQuiet
    BY <1>1, <2>1 DEF TrackerQuiet
  <2>2. ASSUME NEW p \in Readers \cup Admins, Applies(p)
        PROVE  pend'[w] = {}
    <3>1. p \in Procs /\ w \in Procs \ {p}
      BY Distinct
    <3> QED  BY <1>1, <2>2, <3>1, DemotionApplied DEF Applies
  <2>3. ASSUME NEW p \in Readers \cup Admins, NEW D \in SUBSET Keys, Reports(p, D)
        PROVE  pend'[w] = {}
    <3>1. p \in Procs /\ w \in Procs /\ w # p
      BY Distinct
    <3> QED  BY <1>1, <2>3, <3>1 DEF Reports
  <2> QED  BY <2>1, <2>2, <2>3, TrackerSteps
<1>3. ASSUME wpc'[w] = "throughStore", whot'[w], NEW k \in wkeys'[w]
      PROVE  track'[k] = "hot" \/ \E p \in Procs : k \in pend'[p]
  <2>1. CASE track' = track /\ \A j \in wkeys'[w] : WritesThrough(j)
    BY <1>3, <2>1 DEF WritesThrough, IsHot
  <2>2. CASE wpc[w] = "throughStore" /\ whot[w] /\ wkeys'[w] = wkeys[w]
    <3>1. HotOrReported(k) /\ k \in Keys
      BY <1>0, <1>3, <2>2 DEF HotDiscipline
    <3>2. ~Dropped(k)
      BY <1>3, <2>2, <3>1, DroppedExcludes
    <3>3. HotOrReported(k)'
      BY <3>1, <3>2, HotStays
    <3> QED  BY <3>3 DEF HotOrReported, IsHot
  <2> QED  BY <1>0, <1>3, <2>1, <2>2 DEF HotThrough
<1> QED  BY <1>2, <1>3

\* A catch-up that still has demotions to apply is in applyTransitions.
LEMMA AdminsStayDemoting ==
  ASSUME TypeOK, HotDiscipline, [Next]_vars, NEW a \in Admins
  PROVE  pend'[a] # {} => apc'[a] = "apply"
<1>0. /\ pend \in [Procs -> SUBSET Keys] /\ apc \in [Admins -> AdminPC] /\ a \in Procs
      /\ pend[a] # {} => apc[a] = "apply"
  BY Distinct DEF TypeOK, TypeTrans, TypeAdmin, HotDiscipline
<1>1. ASSUME apc'[a] = apc[a], pend'[a] = pend[a]
      PROVE  pend'[a] # {} => apc'[a] = "apply"
  BY <1>0, <1>1
<1>2. ASSUME NEW b \in Admins, AdminStep(b)
      PROVE  pend'[a] # {} => apc'[a] = "apply"
  <2>0. b \in Procs
    BY Distinct
  <2>1. CASE AdvanceTracker(b)
    <3>1. PICK D : /\ pend' = [pend EXCEPT ![b] = D]
                   /\ AGoto(b, IF D = {} THEN "done" ELSE "apply")
      BY <2>1 DEF AdvanceTracker
    <3>2. CASE a = b
      <4>1. pend'[a] = D /\ (D # {} => apc'[a] = "apply")
        BY <1>0, <3>1, <3>2 DEF AGoto
      <4> QED  BY <4>1
    <3>3. CASE a # b
      BY <1>0, <1>1, <3>1, <3>3 DEF AGoto
    <3> QED  BY <3>2, <3>3
  <2>2. CASE HandleTransitions(b)
    <3>1. ApplyDemotion(b) /\ AGoto(b, IF pend'[b] = {} THEN "done" ELSE "apply")
      BY <2>2 DEF HandleTransitions
    <3>2. CASE a = b
      BY <1>0, <3>1, <3>2 DEF AGoto
    <3>3. CASE a # b
      <4>1. pend'[a] = pend[a]
        BY <1>0, <2>0, <3>1, <3>3, DemotionApplied
      <4>2. apc'[a] = apc[a]
        BY <1>0, <3>1, <3>3 DEF AGoto
      <4> QED  BY <1>1, <4>1, <4>2
    <3> QED  BY <3>2, <3>3
  <2>3. CASE ~AdvanceTracker(b) /\ ~HandleTransitions(b)
    <3>1. pend' = pend
      BY <1>2, <2>3 DEF AdminStep, PurgeKey, ForgetPurged, LockAllStripes, PurgeTier,
           AdvanceEpochs, CloseService, transVars
    <3>2. apc[b] # "apply" /\ \E label : apc' = [apc EXCEPT ![b] = label]
      BY <1>2, <2>3 DEF AdminStep, PurgeKey, ForgetPurged, LockAllStripes, PurgeTier,
           AdvanceEpochs, CloseService, AGoto
    <3>3. CASE a = b
      BY <1>0, <3>1, <3>2, <3>3
    <3>4. CASE a # b
      BY <1>0, <1>1, <3>1, <3>2, <3>4
    <3> QED  BY <3>3, <3>4
  <2> QED  BY <2>1, <2>2, <2>3
<1>3. ASSUME NEW r \in Readers, ReaderStep(r) \/ ReadTimeout(r) \/ FillStep(r)
      PROVE  apc' = apc /\ pend'[a] = pend[a]
  <2>1. apc' = apc
    BY <1>3, ReaderFrames, FillFrames DEF ReaderFrame, FillFrame, adminVars
  <2>2. r \in Procs /\ a # r
    BY Distinct
  <2>3. CASE FillStep(r)
    BY <2>1, <2>3, FillFrames DEF FillFrame, transVars
  <2>4. CASE TrackerQuiet
    BY <2>1, <2>4 DEF TrackerQuiet
  <2>5. CASE Applies(r)
    BY <1>0, <2>1, <2>2, <2>5, DemotionApplied DEF Applies
  <2>6. CASE \E D \in SUBSET Keys : Reports(r, D)
    BY <1>0, <2>1, <2>2, <2>6 DEF Reports
  <2> QED  BY <1>3, <2>3, <2>4, <2>5, <2>6, ReaderTracker
<1>4. ASSUME NEW w \in Writers, WriterStep(w) \/ GateTimeout(w) \/ Retry(w) \/ LateApply(w)
      PROVE  apc' = apc /\ pend' = pend
  BY <1>4, WriterFrames DEF WriterFrame, adminVars, transVars
<1>5. CASE (\E j \in Keys : Expire(j) \/ ExternalWrite(j)) \/ UNCHANGED vars
  BY <1>1, <1>5 DEF Expire, ExternalWrite, vars, adminVars, transVars
<1> QED  BY <1>1, <1>2, <1>3, <1>4, <1>5 DEF Next, Idle

\* Between the recheck of applyTransitions and its removal the key does not
\* become HOT: an admission needs the stripe, and only an EWMA promotion does not.
LEMMA DropStaysDemoted ==
  ASSUME TypeOK, StripeDiscipline, HotDiscipline, [Next]_vars, "promote" \notin Env,
         NEW q \in Procs, drop'[q] # None
  PROVE  track'[drop'[q]] # "hot"
<1>0. drop \in [Procs -> Keys \cup {None}] /\ (drop[q] # None => ~IsHot(drop[q]))
  BY DEF TypeOK, TypeTrans, HotDiscipline
<1>1. CASE TrackerQuiet
  BY <1>0, <1>1 DEF TrackerQuiet, IsHot
<1>2. ASSUME NEW p \in Procs, Applies(p)
      PROVE  track'[drop'[q]] # "hot"
  <2>1. track' = track /\ ApplyDemotion(p)
    BY <1>2 DEF Applies
  <2>2. CASE drop'[q] = drop[q]
    BY <1>0, <2>1, <2>2 DEF IsHot
  <2>3. CASE drop'[q] # drop[q]
    <3>1. q = p
      BY <2>1, <2>3, DemotionApplied
    <3>2. ~IsHot(drop'[p])
      BY <2>1, <2>3, <3>1, DemotionApplied
    <3> QED  BY <2>1, <3>1, <3>2 DEF IsHot
  <2> QED  BY <2>2, <2>3
<1>3. ASSUME NEW p \in Procs, NEW D \in SUBSET Keys, Reports(p, D), track'[drop'[q]] = "hot"
      PROVE  FALSE
  <2>1. drop'[q] = drop[q] /\ Catches(p, D)
    BY <1>3 DEF Reports
  <2>2. drop[q] \in Keys /\ drop[q] # None
    BY <1>0, <2>1
  <2>3. ~IsHot(drop[q])
    BY <1>0, <2>2
  <2>4. p \in Readers /\ pc[p] = "admit" /\ drop[q] = cur[p]
    BY <1>3, <2>1, <2>2, <2>3 DEF Catches
  <2>5. lock[StripeOf[drop[q]]] = q
    BY <2>2, Holders
  <2>6. lock[StripeOf[cur[p]]] = p
    BY <2>4, Holders DEF Holding
  <2>7. p = q
    BY <2>4, <2>5, <2>6
  <2>8. ReaderInv(p)
    BY <2>4 DEF StripeDiscipline
  <2> QED  BY <2>2, <2>4, <2>7, <2>8 DEF ReaderInv
<1> QED  BY <1>1, <1>2, <1>3, TrackerSteps DEF Procs

\* A step preserves the discipline of the tracker and of applyTransitions.
LEMMA NextHot ==
  ASSUME TypeOK, TypeOK', StripeDiscipline, HotDiscipline, [Next]_vars
  PROVE  HotDiscipline'
<1>1. \A k \in Keys : Present(prot'[k]) => HotOrReported(k)'
  BY ProtectedStaysHot
<1>2. \A r \in Readers :
         /\ pc'[r] = "promote" => hot'[r]
         /\ pc'[r] \in {"flagOn", "takeCand", "promote"} /\ hot'[r] => HotOrReported(cur[r])'
         /\ fpc'[r] = "storeProt" => HotOrReported(fkey[r])'
         /\ pend'[r] # {} => pc'[r] \in Demoting
  BY ReadersStayHot DEF Transfer
<1>3. \A w \in Writers :
         /\ pend'[w] = {}
         /\ wpc'[w] = "throughStore" /\ whot'[w] => \A k \in wkeys'[w] : HotOrReported(k)'
  BY WritersStayHot DEF HotOrReported, IsHot
<1>4. \A a \in Admins : pend'[a] # {} => apc'[a] = "apply"
  BY AdminsStayDemoting
<1>5. \A p \in Procs : drop'[p] # None /\ "promote" \notin Env => track'[drop'[p]] # "hot"
  BY DropStaysDemoted
<1> QED  BY <1>1, <1>2, <1>3, <1>4, <1>5 DEF HotDiscipline, IsHot

LEMMA InitHot ==
  ASSUME Init
  PROVE  HotDiscipline
<1>1. PICK warm \in SUBSET WarmKeys, candidates \in SUBSET CandidateKeys :
        /\ prot = [k \in Keys |-> IF k \in warm THEN [ver |-> 0, age |-> "fresh"] ELSE NoEntry]
        /\ track = [k \in Keys |-> IF k \in warm THEN "hot"
                                   ELSE IF k \in candidates THEN "tracked" ELSE "untracked"]
  BY DEF Init
<1>2. ASSUME NEW k \in Keys, Present(prot[k])
      PROVE  HotOrReported(k)
  BY <1>1, <1>2 DEF Present, NoEntry, HotOrReported, IsHot
<1>3. /\ \A p \in Procs : pend[p] = {} /\ drop[p] = None
      /\ \A r \in Readers : pc[r] = "next" /\ fpc[r] = "none"
      /\ \A w \in Writers : w \in Procs /\ wpc[w] # "throughStore"
      /\ \A a \in Admins : a \in Procs
      /\ \A r \in Readers : r \in Procs
  BY DEF Init, Procs
<1> QED  BY <1>2, <1>3 DEF HotDiscipline

\* The step that takes a reported demotion off the list leaves the protected
\* copy of a key that is HOT alone.
LEMMA NextKeepsHotCopy ==
  ASSUME TypeOK, HotDiscipline, [Next]_vars, "promote" \notin Env,
         NEW p \in Procs, NEW k \in Keys, k \in pend[p] \ pend'[p], Present(prot[k]), IsHot(k)
  PROVE  Present(prot'[k])
<1>0. /\ pend \in [Procs -> SUBSET Keys] /\ k # None
      /\ \A q \in Procs : drop[q] # None => ~IsHot(drop[q])
  BY ServiceAssumption DEF TypeOK, TypeTrans, HotDiscipline
<1>1. CASE TrackerQuiet
  BY <1>1 DEF TrackerQuiet
<1>2. ASSUME NEW q \in Procs, Applies(q)
      PROVE  Present(prot'[k])
  <2>1. ApplyDemotion(q)
    BY <1>2 DEF Applies
  <2>2. q = p
    <3>1. \A o \in Procs \ {q} : pend'[o] = pend[o]
      BY <2>1, DemotionApplied
    <3> QED  BY <3>1
  <2>3. drop[p] # k
    BY <1>0
  <2>4. pend' # pend
    OBVIOUS
  <2>5. prot' = prot \/ pend'[p] = pend[p] \ {drop[p]}
    BY <2>1, <2>2, <2>4, DemotionApplied
  <2> QED  BY <2>3, <2>5
<1>3. ASSUME NEW q \in Procs, NEW D \in SUBSET Keys, Reports(q, D)
      PROVE  FALSE
  BY <1>0, <1>3 DEF Reports
<1> QED  BY <1>1, <1>2, <1>3, TrackerSteps DEF Procs
-----------------------------------------------------------------------------
(***************************************************************************)
(* Moves between the tiers.                                                *)
(***************************************************************************)
LEMMA SteadyEnv ==
  ASSUME Steady
  PROVE  /\ Demotable = {} /\ Promotable = {}
         /\ "reject" \notin Env /\ "evict" \notin Env /\ "promote" \notin Env
<1>1. /\ "demote" \notin Env /\ "promote" \notin Env
      /\ "reject" \notin Env /\ "evict" \notin Env
  BY DEF Steady
<1> QED
  BY <1>1 DEF Demotable, Promotable

\* A catch-up changes nothing and reports nothing.
LEMMA SteadyAdvance ==
  ASSUME TypeOK, Steady, NEW D \in SUBSET Demotable, NEW P \in SUBSET (Promotable \ D)
  PROVE  D = {} /\ Advanced(D, P) = track
<1>1. D = {} /\ P = {}
  BY SteadyEnv
<1>2. track = [j \in Keys |-> track[j]]
  BY DEF TypeOK, TypeShared
<1>3. Advanced(D, P) = [j \in Keys |-> track[j]]
  BY <1>1 DEF Advanced
<1> QED
  BY <1>1, <1>2, <1>3

\* A tier that is open takes what it is given and keeps the rest.
Takes(t, u, k) == Fresh(u[k]) /\ Present(u[k]) /\ \A j \in Keys \ {k} : u[j] = t[j]

LEMMA SteadyPut ==
  ASSUME Steady, NEW t \in [Keys -> Entry], NEW k \in Keys, NEW v \in Nat,
         NEW u \in Put(t, FALSE, k, v)
  PROVE  Takes(t, u, k)
<1>1. u = [j \in Keys |-> IF j = k THEN [ver |-> v, age |-> "fresh"]
                          ELSE IF j \in {} THEN NoEntry ELSE t[j]]
  BY SteadyEnv DEF Put, Refuses
<1>2. u[k] = [ver |-> v, age |-> "fresh"]
  BY <1>1
<1>3. u[k].age = "fresh"
  BY SMT, <1>2
<1> QED
  BY <1>1, <1>3 DEF Takes, Fresh, Present

LEMMA OpenTiers ==
  ASSUME TypeOK, SteadyInv
  PROVE  closed["prot"] = FALSE /\ closed["prob"] = FALSE
BY DEF TypeOK, TypeShared, SteadyInv, Parts

\* A lookup removes no entry that is fresh.
LEMMA FreshKept ==
  ASSUME NEW t \in [Keys -> Entry], NEW k \in Keys, NEW keep, NEW j \in Keys, Fresh(t[j])
  PROVE  Fresh(AfterGet(t, k, keep)[j])
<1>1. CASE AfterGet(t, k, keep) = t
  BY <1>1
<1>2. CASE ~Fresh(t[k]) /\ AfterGet(t, k, keep) = [t EXCEPT ![k] = NoEntry]
  BY <1>2
<1> QED
  BY <1>1, <1>2 DEF AfterGet, Without

LEMMA NoDemotions ==
  ASSUME SteadyInv, NEW p \in Procs
  PROVE  ~ApplyDemotion(p)
<1>1. pend[p] = {} /\ drop[p] = None
  BY DEF SteadyInv
<1>2. \A k \in Keys : k # None
  BY ServiceAssumption
<1> QED
  BY <1>1, <1>2 DEF ApplyDemotion

LEMMA SteadyAdmins ==
  ASSUME SteadyInv, NEW a \in Admins, AdminStep(a)
  PROVE  AdvanceTracker(a)
<1>1. aop[a] = "advance" /\ apc[a] \in {"start", "done"} /\ a \in Procs
  BY Distinct DEF SteadyInv
<1>2. ~HandleTransitions(a) /\ ~ForgetPurged(a) /\ ~PurgeTier(a) /\ ~AdvanceEpochs(a)
  BY <1>1 DEF HandleTransitions, ForgetPurged, PurgeTier, AdvanceEpochs
<1>3. ~PurgeKey(a) /\ ~LockAllStripes(a) /\ ~CloseService(a)
  BY <1>1 DEF PurgeKey, LockAllStripes, CloseService
<1> QED
  BY <1>2, <1>3 DEF AdminStep

\* What the tracker learns in a step: of a key that it did not know, or that a
\* candidate was admitted.
Learns(k) == /\ track[k] = "untracked" /\ track' = [track EXCEPT ![k] = "tracked"]
             /\ pend' = pend /\ drop' = drop
Admits(r) == /\ pc[r] = "admit" /\ IsTracked(cur[r])
             /\ track' = [track EXCEPT ![cur[r]] = "hot"]
             /\ pc'[r] = "flagOn" /\ cur' = cur
             /\ pend' = pend /\ drop' = drop

LEMMA SteadyReaders ==
  ASSUME TypeOK, Steady, SteadyInv, NEW r \in Readers, ReaderStep(r) \/ ReadTimeout(r)
  PROVE  TrackerQuiet \/ Admits(r) \/ \E k \in Keys : Learns(k)
<1>0. todo[r] \subseteq Keys /\ cur[r] \in Keys /\ r \in Procs
  BY RequestTypes
<1>1. pend[r] = {} /\ pend \in [Procs -> SUBSET Keys] /\ track \in [Keys -> TrackState]
  BY <1>0 DEF SteadyInv, TypeOK, TypeTrans, TypeShared
<1>2. [pend EXCEPT ![r] = {}] = pend
  BY <1>0, <1>1
<1>3. CASE Observe(r)
  <2>1. drop' = drop
    BY <1>3 DEF Observe
  <2>2. CASE UNCHANGED <<track, pend>>
    BY <2>1, <2>2 DEF TrackerQuiet
  <2>3. CASE ~UNCHANGED <<track, pend>>
    <3>1. PICK k \in Keys, D \in SUBSET Demotable : \E P \in SUBSET (Promotable \ D) :
                 /\ track' \in ObserveWithState(k, D, P)
                 /\ pend' = [pend EXCEPT ![r] = D]
      BY <1>0, <1>3, <2>3 DEF Observe
    <3>2. PICK P \in SUBSET (Promotable \ D) : track' \in ObserveWithState(k, D, P)
      BY <3>1
    <3>3. D = {} /\ Advanced(D, P) = track
      BY SteadyAdvance
    <3>4. pend' = pend
      BY <1>2, <3>1, <3>3
    <3>5. track' = track \/ (track[k] = "untracked" /\ track' = [track EXCEPT ![k] = "tracked"])
      BY <3>2, <3>3, SteadyEnv DEF ObserveWithState
    <3> QED
      BY <2>1, <3>4, <3>5 DEF TrackerQuiet, Learns
  <2> QED
    BY <2>2, <2>3
<1>4. CASE AdmitCandidate(r)
  <2>1. drop' = drop /\ pc[r] = "admit" /\ cur' = cur
    BY <1>4 DEF AdmitCandidate, LookupFrame
  <2>2. PICK D \in SUBSET Demotable : \E P \in SUBSET (Promotable \ D) :
               /\ track' = Admit(cur[r], D, P)
               /\ pend' = [pend EXCEPT ![r] = D]
    BY <1>4 DEF AdmitCandidate
  <2>3. PICK P \in SUBSET (Promotable \ D) : track' = Admit(cur[r], D, P)
    BY <2>2
  <2>4. D = {} /\ Advanced(D, P) = track
    BY SteadyAdvance
  <2>5. pend' = pend
    BY <1>2, <2>2, <2>4
  <2>6. CASE track[cur[r]] = "untracked"
    BY <2>1, <2>3, <2>4, <2>5, <2>6 DEF Admit, TrackerQuiet
  <2>7. CASE track[cur[r]] # "untracked"
    <3>1. track' = [track EXCEPT ![cur[r]] = "hot"]
      BY <2>3, <2>4, <2>7 DEF Admit
    <3>2. track'[cur[r]] = "hot"
      BY <1>0, <1>1, <3>1
    <3>3. Goto(r, "flagOn")
      BY <1>4, <3>2 DEF AdmitCandidate, NoHit
    <3> QED
      BY <2>1, <2>5, <2>7, <3>1, <3>3, GoesTo DEF Admits, IsTracked
  <2> QED
    BY <2>6, <2>7
<1>5. CASE HandleObservation(r) \/ HandleAdmission(r)
  BY <1>0, <1>5, NoDemotions DEF HandleObservation, HandleAdmission
<1>6. CASE \/ LookProtected(r) \/ LookProbationary(r) \/ RecheckHot(r) \/ LoadPromotionFlag(r)
           \/ LookProtectedLocked(r) \/ TakeStripe(r) \/ SetPromotionFlag(r)
           \/ RemoveCandidate(r) \/ PromoteCandidate(r) \/ ClearPromotionFlag(r) \/ Miss(r)
  <2>1. track' = track /\ UNCHANGED transVars
    BY <1>6 DEF LookProtected, LookProbationary, RecheckHot, LoadPromotionFlag,
         LookProtectedLocked, TakeStripe, SetPromotionFlag, RemoveCandidate, PromoteCandidate,
         ClearPromotionFlag, Miss
  <2> QED
    BY <2>1 DEF transVars, TrackerQuiet
<1>7. CASE AnswerFrame
  BY <1>7 DEF AnswerFrame, transVars, TrackerQuiet
<1> QED
  BY <1>3, <1>4, <1>5, <1>6, <1>7 DEF ReaderStep, Join, Receive, ReadTimeout, FetchBypass,
       FetchMissing, FinishMGet, StaleFallback

\* What a step does to the tracker.
LEMMA SteadySteps ==
  ASSUME TypeOK, Steady, SteadyInv, [Next]_vars
  PROVE  TrackerQuiet \/ (\E r \in Readers : Admits(r)) \/ \E k \in Keys : Learns(k)
<1>1. ASSUME NEW r \in Readers, FillStep(r)
      PROVE  TrackerQuiet
  BY <1>1, FillFrames DEF FillFrame, transVars, TrackerQuiet
<1>2. ASSUME NEW w \in Writers, WriterStep(w) \/ GateTimeout(w) \/ Retry(w) \/ LateApply(w)
      PROVE  TrackerQuiet
  BY <1>2, WriterFrames DEF WriterFrame, transVars, TrackerQuiet
<1>3. ASSUME NEW a \in Admins, AdminStep(a)
      PROVE  TrackerQuiet
  <2>1. AdvanceTracker(a) /\ a \in Procs
    BY <1>3, SteadyAdmins, Distinct
  <2>2. PICK D \in SUBSET Demotable : \E P \in SUBSET (Promotable \ D) :
               track' = Advanced(D, P) /\ pend' = [pend EXCEPT ![a] = D]
    BY <2>1 DEF AdvanceTracker
  <2>3. PICK P \in SUBSET (Promotable \ D) : track' = Advanced(D, P)
    BY <2>2
  <2>4. D = {} /\ track' = track
    BY <2>3, SteadyAdvance
  <2>5. pend[a] = {} /\ pend \in [Procs -> SUBSET Keys]
    BY <2>1 DEF SteadyInv, TypeOK, TypeTrans
  <2>6. pend' = pend
    BY <2>1, <2>2, <2>4, <2>5
  <2> QED
    BY <2>1, <2>4, <2>6 DEF AdvanceTracker, TrackerQuiet
<1>4. CASE \E j \in Keys : Expire(j) \/ ExternalWrite(j)
  BY <1>4 DEF Expire, ExternalWrite, transVars, TrackerQuiet
<1>5. CASE UNCHANGED vars
  BY <1>5 DEF vars, sharedVars, transVars, TrackerQuiet
<1> QED
  BY <1>1, <1>2, <1>3, <1>4, <1>5, SteadyReaders DEF Next, Idle

\* The tracker forgets and demotes nothing, and a key becomes HOT only when its
\* candidate is admitted.
LEMMA SteadyTrack ==
  ASSUME TypeOK, Steady, SteadyInv, [Next]_vars, NEW k \in Keys
  PROVE  /\ IsTracked(k) => track'[k] # "untracked"
         /\ IsHot(k) => track'[k] = "hot"
         /\ track'[k] = "hot" => IsHot(k) \/ \E r \in Readers : Admits(r) /\ cur[r] = k
<1>0. track \in [Keys -> TrackState]
  BY DEF TypeOK, TypeShared
<1>1. CASE TrackerQuiet
  BY <1>1 DEF TrackerQuiet, IsTracked, IsHot
<1>2. ASSUME NEW r \in Readers, Admits(r)
      PROVE  /\ IsTracked(k) => track'[k] # "untracked"
             /\ IsHot(k) => track'[k] = "hot"
             /\ track'[k] = "hot" => IsHot(k) \/ \E q \in Readers : Admits(q) /\ cur[q] = k
  <2>1. track' = [track EXCEPT ![cur[r]] = "hot"] /\ cur[r] \in Keys
    BY <1>2, RequestTypes DEF Admits
  <2>2. CASE cur[r] = k
    BY <1>0, <1>2, <2>1, <2>2 DEF IsTracked, IsHot
  <2>3. CASE cur[r] # k
    BY <1>0, <2>1, <2>3 DEF IsTracked, IsHot
  <2> QED
    BY <2>2, <2>3
<1>3. ASSUME NEW j \in Keys, Learns(j)
      PROVE  /\ IsTracked(k) => track'[k] # "untracked"
             /\ IsHot(k) => track'[k] = "hot"
             /\ track'[k] = "hot" => IsHot(k)
  <2>1. track[j] = "untracked" /\ track' = [track EXCEPT ![j] = "tracked"]
    BY <1>3 DEF Learns
  <2>2. CASE j = k
    BY <1>0, <2>1, <2>2 DEF IsTracked, IsHot
  <2>3. CASE j # k
    BY <1>0, <2>1, <2>3 DEF IsTracked, IsHot
  <2> QED
    BY <2>2, <2>3
<1> QED
  BY <1>1, <1>2, <1>3, SteadySteps

\* Nobody returns to the gate, and a write that is late has been sent.
LEMMA WritersMove ==
  ASSUME TypeOK, [Next]_vars, NEW w \in Writers
  PROVE  /\ wkeys'[w] = wkeys[w]
         /\ wpc'[w] = "gate" => wpc[w] = "gate"
         /\ late'[w] => late[w] \/ wpc'[w] # "gate"
<1>0. wpc \in [Writers -> WriterPC] /\ late \in [Writers -> BOOLEAN]
  BY DEF TypeOK, TypeWriter
<1>1. CASE UNCHANGED writerVars
  BY <1>1 DEF writerVars
<1>2. ASSUME NEW v \in Writers, WriterStep(v) \/ GateTimeout(v) \/ Retry(v) \/ LateApply(v)
      PROVE  /\ wkeys'[w] = wkeys[w]
             /\ wpc'[w] = "gate" => wpc[w] = "gate"
             /\ late'[w] => late[w] \/ wpc'[w] # "gate"
  <2>1. wkeys' = wkeys
    BY <1>2, WriterFrames DEF WriterFrame
  <2>2. CASE WriteError(v)
    <3>1. /\ wpc' = [wpc EXCEPT ![v] = "final"]
          /\ \A u \in Writers \ {v} : late'[u] = late[u]
      BY <1>0, <2>2 DEF WriteError, WGoto
    <3> QED
      BY <1>0, <2>1, <3>1
  <2>3. CASE ~WriteError(v)
    <3>1. late' = late \/ late' = [late EXCEPT ![v] = FALSE]
      BY <1>2, <2>3 DEF WriterStep, AcquireGate, InvalidateKeys, Dispatch, WriteReply,
           WriteThrough, WriteThroughStore, Forget, Release, WriteReturn, GateTimeout, Retry,
           LateApply
    <3>2. late'[w] => late[w]
      BY <1>0, <3>1
    <3>3. wpc' = wpc \/ \E label \in WriterPC \ {"gate"} : wpc' = [wpc EXCEPT ![v] = label]
      <4>1. CASE AcquireGate(v) \/ InvalidateKeys(v) \/ Dispatch(v) \/ WriteReply(v)
        BY <4>1 DEF AcquireGate, InvalidateKeys, Dispatch, WriteReply, WGoto, WriterPC
      <4>2. CASE ~(AcquireGate(v) \/ InvalidateKeys(v) \/ Dispatch(v) \/ WriteReply(v))
        BY <1>2, <2>3, <4>2 DEF WriterStep, WriteThrough, WriteThroughStore, Forget, Release,
             WriteReturn, GateTimeout, Retry, LateApply, WGoto, WriterPC
      <4> QED
        BY <4>1, <4>2
    <3>4. wpc'[w] = "gate" => wpc[w] = "gate"
      BY <1>0, <3>3
    <3> QED
      BY <2>1, <3>2, <3>4
  <2> QED
    BY <2>2, <2>3
<1>3. ASSUME NEW r \in Readers, ReaderStep(r) \/ ReadTimeout(r) \/ FillStep(r)
      PROVE  UNCHANGED writerVars
  BY <1>3, ReaderFrames, FillFrames DEF ReaderFrame, FillFrame
<1>4. ASSUME NEW a \in Admins, AdminStep(a)
      PROVE  UNCHANGED writerVars
  BY <1>4, AdminFrames DEF AdminFrame
<1>5. CASE (\E j \in Keys : Expire(j) \/ ExternalWrite(j)) \/ UNCHANGED vars
  BY <1>1, <1>5 DEF Expire, ExternalWrite, vars
<1> QED
  BY <1>1, <1>2, <1>3, <1>4, <1>5 DEF Next, Idle

LEMMA UntouchedBefore ==
  ASSUME TypeOK, [Next]_vars, NEW k \in Keys, Untouched(k)'
  PROVE  Untouched(k)
BY WritersMove DEF Untouched

LEMMA NextSteady ==
  ASSUME TypeOK, StripeDiscipline, Steady, SteadyInv, [Next]_vars
  PROVE  SteadyInv'
<1>1. pend' = pend /\ drop' = drop
  BY SteadySteps DEF TrackerQuiet, Admits, Learns
<1>2. /\ closed' = closed /\ aop' = aop
      /\ \A a \in Admins : apc'[a] \in {"start", "done"}
  <2>0. \A a \in Admins : apc[a] \in {"start", "done"}
    BY DEF SteadyInv
  <2>1. CASE closed' = closed /\ UNCHANGED adminVars
    BY <2>0, <2>1 DEF adminVars
  <2>2. ASSUME NEW a \in Admins, AdminStep(a)
        PROVE  /\ closed' = closed /\ aop' = aop
               /\ \A b \in Admins : apc'[b] \in {"start", "done"}
    <3>1. AdvanceTracker(a)
      BY <2>2, SteadyAdmins
    <3>2. \E D \in SUBSET Demotable : AGoto(a, IF D = {} THEN "done" ELSE "apply")
      BY <3>1 DEF AdvanceTracker
    <3>3. apc' = [apc EXCEPT ![a] = "done"]
      BY <3>2, SteadyEnv DEF AGoto
    <3>4. apc \in [Admins -> AdminPC]
      BY DEF TypeOK, TypeAdmin
    <3> QED
      BY <2>0, <3>1, <3>3, <3>4 DEF AdvanceTracker, AdminFrame
  <2>3. ASSUME NEW r \in Readers, ReaderStep(r) \/ ReadTimeout(r) \/ FillStep(r)
        PROVE  closed' = closed /\ UNCHANGED adminVars
    BY <2>3, ReaderFrames, FillFrames DEF ReaderFrame, FillFrame
  <2>4. ASSUME NEW w \in Writers, WriterStep(w) \/ GateTimeout(w) \/ Retry(w) \/ LateApply(w)
        PROVE  closed' = closed /\ UNCHANGED adminVars
    BY <2>4, WriterFrames DEF WriterFrame
  <2>5. CASE (\E j \in Keys : Expire(j) \/ ExternalWrite(j)) \/ UNCHANGED vars
    BY <2>1, <2>5 DEF Expire, ExternalWrite, vars, sharedVars
  <2> QED
    BY <2>1, <2>2, <2>3, <2>4, <2>5 DEF Next, Idle
<1>3. ASSUME NEW w \in Writers
      PROVE  /\ late'[w] => wpc'[w] # "gate"
             /\ wpc'[w] = "throughStore" /\ whot'[w] => wkeys'[w] \subseteq CacheKeys
  <2>1. late'[w] => wpc'[w] # "gate"
    BY WritersMove DEF SteadyInv
  <2>2. wpc'[w] = "throughStore" /\ whot'[w] => wkeys'[w] \subseteq CacheKeys
    BY NextThrough DEF HotThrough, SteadyInv, WritesThrough
  <2> QED
    BY <2>1, <2>2
<1> QED
  BY <1>1, <1>2, <1>3 DEF SteadyInv

\* A request that takes no part in a step.
SameRequest(q) == /\ pc'[q] = pc[q] /\ cur'[q] = cur[q] /\ hot'[q] = hot[q]
                  /\ cand'[q] = cand[q] /\ had'[q] = had[q]
SameFilling(q) == /\ fpc'[q] = fpc[q] /\ ftodo'[q] = ftodo[q] /\ fkey'[q] = fkey[q]
                  /\ got'[q] = got[q]

LEMMA ReaderOthers ==
  ASSUME TypeOK, NEW r \in Readers, ReaderStep(r) \/ ReadTimeout(r), NEW q \in Readers \ {r}
  PROVE  SameRequest(q) /\ SameFilling(q)
<1>1. CASE \/ LookProtected(r) \/ LookProbationary(r) \/ RecheckHot(r) \/ LoadPromotionFlag(r)
           \/ LookProtectedLocked(r)
  <2>1. /\ cur' = cur /\ cand' = cand /\ hot' = hot /\ had' = had /\ UNCHANGED fillVars
    BY <1>1 DEF LookProtected, LookProbationary, RecheckHot, LoadPromotionFlag,
         LookProtectedLocked, LookupFrame
  <2>2. pc'[q] = pc[q]
    BY <1>1, LookupGoes
  <2> QED
    BY <2>1, <2>2 DEF SameRequest, SameFilling, fillVars
<1>2. CASE TakeStripe(r) \/ AdmitCandidate(r) \/ SetPromotionFlag(r) \/ PromoteCandidate(r)
  <2>1. cur' = cur /\ had' = had /\ UNCHANGED fillVars
    BY <1>2 DEF TakeStripe, AdmitCandidate, SetPromotionFlag, PromoteCandidate, LookupFrame
  <2>2. /\ hot' = hot \/ \E h : hot' = [hot EXCEPT ![r] = h]
        /\ cand' = cand \/ \E c : cand' = [cand EXCEPT ![r] = c]
    BY <1>2 DEF TakeStripe, AdmitCandidate, SetPromotionFlag, PromoteCandidate
  <2>3. \E label : Goto(r, label)
    BY <1>2 DEF TakeStripe, AdmitCandidate, SetPromotionFlag, PromoteCandidate, Hit, NoHit
  <2>4. hot'[q] = hot[q] /\ cand'[q] = cand[q]
    BY <2>2 DEF TypeOK, TypeReader
  <2> QED
    BY <2>1, <2>3, <2>4, GoesTo DEF SameRequest, SameFilling, fillVars
<1>3. CASE RemoveCandidate(r) \/ ClearPromotionFlag(r) \/ HandleAdmission(r)
  <2>1. cur' = cur /\ had' = had /\ hot' = hot /\ UNCHANGED fillVars
    BY <1>3 DEF RemoveCandidate, ClearPromotionFlag, HandleAdmission, LookupFrame
  <2>2. cand' = cand \/ \E c : cand' = [cand EXCEPT ![r] = c]
    BY <1>3 DEF RemoveCandidate, ClearPromotionFlag, HandleAdmission
  <2>3. Goto(r, "promote") \/ \E D, c : AfterPromotion(r, D, c)
    BY <1>3 DEF RemoveCandidate, ClearPromotionFlag, HandleAdmission, NoHit
  <2>4. pc'[q] = pc[q]
    BY <2>3, GoesTo, PromotionGoes
  <2>5. cand'[q] = cand[q]
    BY <2>2 DEF TypeOK, TypeReader
  <2> QED
    BY <2>1, <2>4, <2>5 DEF SameRequest, SameFilling, fillVars
<1>4. CASE \/ Observe(r) \/ HandleObservation(r) \/ Miss(r) \/ Join(r) \/ Receive(r)
           \/ ReadTimeout(r) \/ FetchBypass(r) \/ FetchMissing(r) \/ FinishMGet(r)
           \/ StaleFallback(r)
  <2>1. pc'[q] = pc[q]
    BY <1>4, AnswerGoes
  <2>2. CASE Observe(r)
    <3>1. cand' = cand /\ UNCHANGED fillVars
      BY <2>2 DEF Observe
    <3>2. PICK k \in todo[r] : /\ cur' = [cur EXCEPT ![r] = k]
                               /\ \E h : hot' = [hot EXCEPT ![r] = h]
                               /\ \E h : had' = [had EXCEPT ![r] = h]
      BY <2>2 DEF Observe
    <3>3. cur'[q] = cur[q] /\ hot'[q] = hot[q] /\ had'[q] = had[q]
      BY <3>2 DEF TypeOK, TypeReader, TypeHistory
    <3> QED
      BY <2>1, <3>1, <3>3 DEF SameRequest, SameFilling, fillVars
  <2>3. CASE ~Observe(r)
    <3>1. cur' = cur /\ cand' = cand /\ hot' = hot /\ had' = had
      BY <1>4, <2>3 DEF HandleObservation, Miss, Join, Receive, ReadTimeout, FetchBypass,
           FetchMissing, FinishMGet, StaleFallback, LookupFrame, AnswerFrame
    <3>2. CASE UNCHANGED fillVars
      BY <2>1, <3>1, <3>2 DEF SameRequest, SameFilling, fillVars
    <3>3. CASE Join(r) \/ FinishMGet(r)
      <4>1. UNCHANGED <<ftodo, fkey, got>>
        BY <3>3 DEF Join, FinishMGet
      <4>2. fpc' = fpc \/ \E label : fpc' = [fpc EXCEPT ![r] = label]
        BY <3>3 DEF Join, FinishMGet
      <4> QED
        BY <2>1, <3>1, <4>1, <4>2, FillGoesTo DEF SameRequest, SameFilling
    <3>4. CASE FetchMissing(r)
      <4>1. fkey' = fkey
        BY <3>4 DEF FetchMissing
      <4>2. /\ fpc' = fpc \/ \E label : fpc' = [fpc EXCEPT ![r] = label]
            /\ ftodo' = ftodo \/ \E K : ftodo' = [ftodo EXCEPT ![r] = K]
            /\ got' = got \/ \E g : got' = [got EXCEPT ![r] = g]
        BY <3>4 DEF FetchMissing
      <4>3. fpc'[q] = fpc[q] /\ ftodo'[q] = ftodo[q] /\ got'[q] = got[q]
        BY <4>2 DEF TypeOK, TypeFill
      <4> QED
        BY <2>1, <3>1, <4>1, <4>3 DEF SameRequest, SameFilling
    <3> QED
      BY <1>4, <2>3, <3>2, <3>3, <3>4 DEF HandleObservation, Miss, Receive, ReadTimeout,
           FetchBypass, StaleFallback, LookupFrame
  <2> QED
    BY <2>2, <2>3
<1> QED
  BY <1>1, <1>2, <1>3, <1>4 DEF ReaderStep

LEMMA FillOthers ==
  ASSUME TypeOK, NEW r \in Readers, FillStep(r)
  PROVE  /\ \A q \in Readers : SameRequest(q)
         /\ \A q \in Readers \ {r} : SameFilling(q)
<1>1. UNCHANGED <<readerVars, histVars>>
  BY FillFrames DEF FillFrame
<1>2. \A q \in Readers : SameRequest(q)
  BY <1>1 DEF readerVars, histVars, SameRequest
<1>3. ASSUME NEW q \in Readers \ {r}
      PROVE  SameFilling(q)
  <2>1. CASE FlightFetch(r)
    <3>1. /\ fkey' = fkey
          /\ \E label : fpc' = [fpc EXCEPT ![r] = label]
          /\ ftodo' = ftodo \/ \E K : ftodo' = [ftodo EXCEPT ![r] = K]
          /\ got' = got \/ \E v : got' = [got EXCEPT ![r][cur[r]] = v]
      BY <2>1 DEF FlightFetch
    <3>2. fpc'[q] = fpc[q] /\ ftodo'[q] = ftodo[q] /\ got'[q] = got[q]
      BY <3>1 DEF TypeOK, TypeFill
    <3> QED
      BY <3>1, <3>2 DEF SameFilling
  <2>2. CASE FillCheck(r)
    <3>1. /\ got' = got
          /\ \E label : fpc' = [fpc EXCEPT ![r] = label]
          /\ ftodo' = ftodo \/ \E k : ftodo' = [ftodo EXCEPT ![r] = ftodo[r] \ {k}]
          /\ fkey' = fkey \/ \E k : fkey' = [fkey EXCEPT ![r] = k]
      BY <2>2 DEF FillCheck, AfterRefusal
    <3>2. fpc'[q] = fpc[q] /\ ftodo'[q] = ftodo[q] /\ fkey'[q] = fkey[q]
      BY <3>1 DEF TypeOK, TypeFill
    <3> QED
      BY <3>1, <3>2 DEF SameFilling
  <2>3. CASE FillDrop(r) \/ FillStore(r)
    <3>1. got' = got /\ fkey' = fkey
      BY <2>3 DEF FillDrop, FillStore
    <3>2. /\ \E label : fpc' = [fpc EXCEPT ![r] = label]
          /\ ftodo' = ftodo \/ ftodo' = [ftodo EXCEPT ![r] = ftodo[r] \ {fkey[r]}]
      <4>1. CASE FillNext(r)
        BY <4>1 DEF FillNext
      <4>2. CASE ~FillNext(r)
        BY <2>3, <4>2 DEF FillDrop, FillStore
      <4> QED
        BY <4>1, <4>2
    <3> QED
      BY <3>1, <3>2, FillGoesTo, FillLeaves DEF SameFilling
  <2>4. CASE FlightDone(r)
    BY <2>4, FillGoesTo DEF FlightDone, SameFilling
  <2> QED
    BY <2>1, <2>2, <2>3, <2>4 DEF FillStep
<1> QED
  BY <1>2, <1>3

\* What the step leaves of the copies of k.
CopyKept(k) ==
  /\ Fresh(prot[k]) => Fresh(prot'[k])
  /\ InTransit(k) => Arriving(k)'
  /\ Fresh(prob[k]) => Servable(k)'

LEMMA TransitKept ==
  ASSUME NEW k \in Keys, \A q \in Readers : pc[q] = "promote" => pc'[q] = pc[q] /\ cur'[q] = cur[q],
         Fresh(prot[k]) => Fresh(prot'[k]), Fresh(prob[k]) => Fresh(prob'[k])
  PROVE  CopyKept(k)
BY DEF CopyKept, InTransit, Arriving, Servable

LEMMA ReaderCopies ==
  ASSUME TypeOK, Steady, MoveDiscipline, NEW r \in Readers, ReaderStep(r) \/ ReadTimeout(r),
         NEW k \in Keys
  PROVE  CopyKept(k)
<1>0. /\ prot \in [Keys -> Entry] /\ prob \in [Keys -> Entry] /\ cur[r] \in Keys
      /\ todo[r] \subseteq Keys /\ r \in Procs /\ cand[r].ver \in Nat
  BY TierTypes, RequestTypes
<1>1. \A q \in Readers \ {r} : pc'[q] = pc[q] /\ cur'[q] = cur[q]
  BY ReaderOthers DEF SameRequest
<1>2. CASE prot' = prot /\ prob' = prob /\ pc[r] # "promote"
  BY <1>1, <1>2, TransitKept
<1>3. CASE \/ LookProtected(r) \/ LookProbationary(r) \/ LookProtectedLocked(r) \/ TakeStripe(r)
  <2>1. pc[r] # "promote"
    BY <1>3 DEF LookProtected, LookProbationary, LookProtectedLocked, TakeStripe
  <2>2. prot' = prot \/ prot' = AfterGet(prot, cur[r], AllowStale)
    BY <1>3 DEF LookProtected, LookProbationary, LookProtectedLocked, TakeStripe,
         GetFreshProtected
  <2>3. prob' = prob \/ prob' = AfterGet(prob, cur[r], FALSE)
    BY <1>3 DEF LookProtected, LookProbationary, LookProtectedLocked, TakeStripe
  <2>4. Fresh(prot[k]) => Fresh(prot'[k])
    BY <1>0, <2>2, FreshKept
  <2>5. Fresh(prob[k]) => Fresh(prob'[k])
    BY <1>0, <2>3, FreshKept
  <2> QED
    BY <1>1, <2>1, <2>4, <2>5, TransitKept
<1>4. CASE RemoveCandidate(r)
  <2>1. pc[r] = "takeCand" /\ prot' = prot /\ cur' = cur /\ prob' = [prob EXCEPT ![cur[r]] = NoEntry]
    BY <1>4 DEF RemoveCandidate, LookupFrame, AfterTaking, Without
  <2>2. PromotionInv(r)
    BY DEF MoveDiscipline
  <2>3. hot[r]
    BY <2>1, <2>2 DEF PromotionInv, Holding
  <2>4. Goto(r, "promote")
    BY <1>4, <2>3 DEF RemoveCandidate, NoHit
  <2>5. pc'[r] = "promote"
    BY <2>4, GoesTo
  <2>6. CASE k = cur[r]
    <3>1. InTransit(k)'
      BY <2>1, <2>5, <2>6 DEF InTransit
    <3> QED
      BY <2>1, <3>1 DEF CopyKept, Arriving, Servable
  <2>7. CASE k # cur[r]
    <3>1. prob'[k] = prob[k]
      BY <1>0, <2>1, <2>7
    <3> QED
      BY <1>1, <2>1, <3>1, TransitKept
  <2> QED
    BY <2>6, <2>7
<1>5. CASE PromoteCandidate(r)
  <2>1. /\ cur' = cur /\ prob' = prob
        /\ prot' \in Put(prot, closed["prot"], cur[r], cand[r].ver)
    BY <1>5 DEF PromoteCandidate, LookupFrame
  <2>2. closed["prot"] = FALSE
    BY OpenTiers DEF MoveDiscipline
  <2>3. Takes(prot, prot', cur[r])
    BY <1>0, <2>1, <2>2, SteadyPut
  <2>4. Fresh(prot[k]) => Fresh(prot'[k])
    BY <2>3 DEF Takes
  <2>5. InTransit(k) => Arriving(k)'
    <3>1. CASE k = cur[r]
      BY <2>3, <3>1 DEF Arriving, Takes
    <3>2. CASE k # cur[r]
      BY <1>1, <3>2 DEF InTransit, Arriving
    <3> QED
      BY <3>1, <3>2
  <2> QED
    BY <2>1, <2>4, <2>5 DEF CopyKept, Servable
<1>6. CASE StaleFallback(r)
  <2>1. pc[r] # "promote" /\ prob' = prob
    BY <1>6 DEF StaleFallback, AnswerFrame
  <2>2. PICK j \in todo[r] : prot' = IF j \in CacheKeys /\ prot[j].age = "dead"
                                     THEN Without(prot, j) ELSE prot
    BY <1>6 DEF StaleFallback
  <2>3. Fresh(prot[k]) => Fresh(prot'[k])
    BY <1>0, <2>2 DEF Without, Fresh
  <2> QED
    BY <1>1, <2>1, <2>3, TransitKept
<1>7. CASE HandleObservation(r) \/ HandleAdmission(r)
  BY <1>0, <1>7, NoDemotions DEF HandleObservation, HandleAdmission, MoveDiscipline
<1>8. CASE Observe(r) \/ RecheckHot(r) \/ LoadPromotionFlag(r) \/ AdmitCandidate(r)
           \/ SetPromotionFlag(r) \/ ClearPromotionFlag(r) \/ Miss(r)
  BY <1>2, <1>8 DEF Observe, RecheckHot, LoadPromotionFlag, AdmitCandidate, SetPromotionFlag,
       ClearPromotionFlag, Miss
<1>9. CASE Join(r) \/ Receive(r) \/ ReadTimeout(r) \/ FetchBypass(r) \/ FetchMissing(r)
           \/ FinishMGet(r)
  BY <1>2, <1>9 DEF Join, Receive, ReadTimeout, FetchBypass, FetchMissing, FinishMGet,
       AnswerFrame
<1> QED
  BY <1>3, <1>4, <1>5, <1>6, <1>7, <1>8, <1>9 DEF ReaderStep

\* Whoever holds the stripe of a key keeps its candidate from being admitted.
LEMMA StripeExcludes ==
  ASSUME TypeOK, StripeDiscipline, NEW r \in Readers, fpc[r] \in Reconciling,
         NEW q \in Readers, pc[q] \in Holding
  PROVE  cur[q] # fkey[r]
<1>1. pc[r] \notin Holding
  BY DEF StripeDiscipline, ReaderInv, Reconciling, Holding
<1> QED
  BY <1>1, Holders

LEMMA FillCopies ==
  ASSUME TypeOK, StripeDiscipline, HotDiscipline, Steady, MoveDiscipline, NEW r \in Readers,
         FillStep(r), NEW k \in Keys, Untouched(k)
  PROVE  CopyKept(k)
<1>0. /\ prot \in [Keys -> Entry] /\ prob \in [Keys -> Entry] /\ fkey[r] \in Keys
      /\ got[r][fkey[r]].ver \in Nat
  BY TierTypes, RequestTypes
<1>1. \A q \in Readers : pc'[q] = pc[q] /\ cur'[q] = cur[q]
  BY FillOthers DEF SameRequest
<1>2. SteadyInv /\ PlaceInv(k) /\ PlacementInv(r)
  BY DEF MoveDiscipline
<1>3. FillInv(r)
  BY DEF StripeDiscipline
<1>4. CASE prot' = prot /\ prob' = prob
  BY <1>1, <1>4, TransitKept
<1>5. CASE FillDrop(r)
  <2>1. fpc[r] = "drop" /\ fpc[r] \in Reconciling
    BY <1>5 DEF FillDrop, Reconciling
  <2>2. CASE k # fkey[r]
    <3>1. /\ prot' = prot \/ prot' = [prot EXCEPT ![fkey[r]] = NoEntry]
          /\ prob' = prob \/ prob' = [prob EXCEPT ![fkey[r]] = NoEntry]
      BY <1>5 DEF FillDrop, Without
    <3>2. prot'[k] = prot[k] /\ prob'[k] = prob[k]
      BY <1>0, <2>2, <3>1
    <3> QED
      BY <1>1, <3>2, TransitKept
  <2>3. CASE k = fkey[r]
    <3>1. got[r][k].exists
      BY <1>2, <1>3, <2>1, <2>3 DEF PlacementInv, FillInv
    <3>2. CASE IsHot(k)
      <4>1. prot' = prot
        BY <1>5, <2>3, <3>1, <3>2 DEF FillDrop
      <4>2. ~Taking(k)
        BY <2>1, <2>3, StripeExcludes DEF Taking, Holding
      <4>3. ~Fresh(prob[k])
        BY <1>2, <3>2, <4>2 DEF PlaceInv, Fresh, Present
      <4> QED
        BY <1>1, <4>1, <4>3, TransitKept
    <3>3. CASE ~IsHot(k)
      <4>1. prob' = prob
        BY <1>5, <2>3, <3>1, <3>3 DEF FillDrop
      <4>2. \A p \in Procs : pend[p] = {}
        BY <1>2 DEF SteadyInv
      <4>3. ~Present(prot[k])
        BY <3>3, <4>2 DEF HotDiscipline, HotOrReported
      <4> QED
        BY <1>1, <4>1, <4>3, TransitKept DEF Fresh, Present
    <3> QED
      BY <3>2, <3>3
  <2> QED
    BY <2>2, <2>3
<1>6. CASE FillStore(r)
  <2>1. closed["prot"] = FALSE /\ closed["prob"] = FALSE
    BY <1>2, OpenTiers
  <2>2. /\ prot' = prot \/ prot' \in Put(prot, closed["prot"], fkey[r], got[r][fkey[r]].ver)
        /\ prob' = prob \/ prob' \in Put(prob, closed["prob"], fkey[r], got[r][fkey[r]].ver)
    BY <1>6 DEF FillStore
  <2>3. /\ prot' = prot \/ Takes(prot, prot', fkey[r])
        /\ prob' = prob \/ Takes(prob, prob', fkey[r])
    BY <1>0, <2>1, <2>2, SteadyPut
  <2>4. (Fresh(prot[k]) => Fresh(prot'[k])) /\ (Fresh(prob[k]) => Fresh(prob'[k]))
    BY <2>3 DEF Takes
  <2> QED
    BY <1>1, <2>4, TransitKept
<1>7. CASE FlightFetch(r) \/ FillCheck(r) \/ FlightDone(r)
  BY <1>4, <1>7 DEF FlightFetch, FillCheck, FlightDone
<1> QED
  BY <1>5, <1>6, <1>7 DEF FillStep

\* A write removes copies of its own keys only, and only after its gates.
LEMMA WriterCopies ==
  ASSUME TypeOK, WriteDiscipline, Steady, MoveDiscipline, NEW w \in Writers,
         WriterStep(w) \/ GateTimeout(w) \/ Retry(w) \/ LateApply(w), NEW k \in Keys, Untouched(k)
  PROVE  CopyKept(k)
<1>0. prot \in [Keys -> Entry] /\ prob \in [Keys -> Entry] /\ wkeys[w] \subseteq Keys
  BY TierTypes DEF TypeOK, TypeWriter
<1>1. pc' = pc /\ cur' = cur
  BY WriterFrames DEF WriterFrame, readerVars
<1>2. CASE prot'[k] = prot[k] /\ prob'[k] = prob[k]
  BY <1>1, <1>2, TransitKept
<1>3. CASE InvalidateKeys(w)
  <2>1. PICK j \in wtodo[w] : prot' = [prot EXCEPT ![j] = NoEntry] /\ prob' = [prob EXCEPT ![j] = NoEntry]
    BY <1>3 DEF InvalidateKeys, InvalidateKey, Without
  <2>2. j \in wkeys[w] /\ wpc[w] # "gate"
    BY <1>3 DEF WriteDiscipline, OrderInv, InvalidateKeys
  <2>3. k # j
    BY <2>2 DEF Untouched
  <2> QED
    BY <1>0, <1>2, <2>1, <2>3
<1>4. CASE WriteThrough(w)
  <2>1. PICK j \in wkeys[w] : prob' = [prob EXCEPT ![j] = NoEntry]
    BY <1>4 DEF WriteThrough, Without
  <2>2. wpc[w] # "gate" /\ prot' = prot
    BY <1>4 DEF WriteThrough
  <2>3. k # j
    BY <2>2 DEF Untouched
  <2> QED
    BY <1>0, <1>2, <2>1, <2>2, <2>3
<1>5. CASE WriteThroughStore(w)
  <2>1. PICK j \in wkeys[w] : prot' \in IF whot[w] THEN Put(prot, closed["prot"], j, wver[w][j])
                                        ELSE {Without(prot, j)}
    BY <1>5 DEF WriteThroughStore
  <2>2. wpc[w] # "gate" /\ prob' = prob
    BY <1>5 DEF WriteThroughStore
  <2>3. k # j /\ closed["prot"] = FALSE
    BY <2>2, OpenTiers DEF Untouched, MoveDiscipline
  <2>0. j \in Keys /\ wver[w][j] \in Nat
    BY <1>0 DEF TypeOK, TypeWriter
  <2>4. \A u \in Put(prot, closed["prot"], j, wver[w][j]) : u[k] = prot[k]
    <3>1. \A u \in Put(prot, closed["prot"], j, wver[w][j]) : Takes(prot, u, j)
      BY <1>0, <2>0, <2>3, SteadyPut
    <3> QED
      BY <2>3, <3>1 DEF Takes
  <2>5. Without(prot, j)[k] = prot[k]
    BY <1>0, <2>3 DEF Without
  <2> QED
    BY <1>2, <2>1, <2>2, <2>4, <2>5
<1>6. CASE ~(InvalidateKeys(w) \/ WriteThrough(w) \/ WriteThroughStore(w))
  <2>1. prot' = prot /\ prob' = prob
    BY <1>6 DEF WriterStep, AcquireGate, Dispatch, WriteReply, WriteError, Forget, Release,
         WriteReturn, GateTimeout, Retry, LateApply, OriginFrame
  <2> QED
    BY <1>2, <2>1
<1> QED
  BY <1>3, <1>4, <1>5, <1>6

\* A step leaves the copies of a key of which no write has begun, unless they age.
LEMMA NextCopies ==
  ASSUME TypeOK, StripeDiscipline, WriteDiscipline, HotDiscipline, Steady, MoveDiscipline,
         [Next]_vars, NEW k \in Keys, Untouched(k)
  PROVE  CopyKept(k) \/ Expire(k)
<1>1. ASSUME pc' = pc, cur' = cur, prot'[k] = prot[k], prob'[k] = prob[k]
      PROVE  CopyKept(k)
  BY <1>1, TransitKept
<1>2. ASSUME NEW a \in Admins, AdminStep(a)
      PROVE  CopyKept(k)
  <2>1. AdvanceTracker(a)
    BY <1>2, SteadyAdmins DEF MoveDiscipline
  <2> QED
    BY <1>1, <2>1 DEF AdvanceTracker, AdminFrame, readerVars
<1>3. ASSUME NEW j \in Keys, Expire(j) \/ ExternalWrite(j)
      PROVE  CopyKept(k) \/ Expire(k)
  <2>1. prot \in [Keys -> Entry] /\ prob \in [Keys -> Entry]
    BY TierTypes
  <2>2. CASE j # k
    <3>1. pc' = pc /\ cur' = cur
      BY <1>3 DEF Expire, ExternalWrite, readerVars
    <3>2. /\ prot' = prot \/ \E e : prot' = [prot EXCEPT ![j] = e]
          /\ prob' = prob \/ \E e : prob' = [prob EXCEPT ![j] = e]
      BY <1>3 DEF Expire, ExternalWrite
    <3>3. prot'[k] = prot[k] /\ prob'[k] = prob[k]
      BY <2>1, <2>2, <3>2
    <3> QED
      BY <1>1, <3>1, <3>3
  <2>3. CASE j = k
    BY <1>1, <1>3, <2>3 DEF ExternalWrite, readerVars
  <2> QED
    BY <2>2, <2>3
<1>4. CASE UNCHANGED vars
  BY <1>1, <1>4 DEF vars, sharedVars, readerVars
<1> QED
  BY <1>2, <1>3, <1>4, ReaderCopies, FillCopies, WriterCopies DEF Next, Idle

\* The flag of a stripe goes down when its promotion is over.
LEMMA FlagKept ==
  ASSUME TypeOK, [Next]_vars, NEW s \in Stripes, promoting[s]
  PROVE  promoting'[s] \/ \E r \in Readers : pc[r] = "flagOff" /\ Stripe(r) = s /\ pc'[r] \notin Holding
<1>0. promoting \in [Stripes -> BOOLEAN]
  BY DEF TypeOK, TypeShared
<1>1. CASE promoting' = promoting
  BY <1>1
<1>2. ASSUME NEW r \in Readers, ReaderStep(r) \/ ReadTimeout(r)
      PROVE  \/ promoting'[s]
             \/ pc[r] = "flagOff" /\ Stripe(r) = s /\ pc'[r] \notin Holding
  <2>1. CASE SetPromotionFlag(r)
    <3>1. promoting' = [promoting EXCEPT ![Stripe(r)] = TRUE]
      BY <2>1 DEF SetPromotionFlag
    <3> QED
      BY <1>0, <3>1
  <2>2. CASE ClearPromotionFlag(r)
    <3>1. pc[r] = "flagOff" /\ promoting' = [promoting EXCEPT ![Stripe(r)] = FALSE]
      BY <2>2 DEF ClearPromotionFlag
    <3>2. AfterPromotion(r, pend[r], cand[r])
      BY <2>2 DEF ClearPromotionFlag
    <3>3. pc'[r] \notin Holding
      BY <3>2, PromotionGoes DEF Holding
    <3> QED
      BY <1>0, <3>1, <3>3
  <2>3. CASE AnswerFrame \/ Observe(r) \/ Miss(r)
    BY <1>1, <2>3 DEF AnswerFrame, Observe, Miss
  <2>4. CASE ~(AnswerFrame \/ Observe(r) \/ Miss(r) \/ SetPromotionFlag(r) \/ ClearPromotionFlag(r))
    BY <1>1, <1>2, <2>4 DEF ReaderStep, HandleObservation, LookProtected, LookProbationary,
         RecheckHot, LoadPromotionFlag, LookProtectedLocked, TakeStripe, AdmitCandidate,
         RemoveCandidate, PromoteCandidate, HandleAdmission, Join, Receive, ReadTimeout,
         FetchBypass, FetchMissing, FinishMGet, StaleFallback
  <2> QED
    BY <2>1, <2>2, <2>3, <2>4
<1>3. ASSUME NEW r \in Readers, FillStep(r)
      PROVE  promoting' = promoting
  BY <1>3, FillFrames DEF FillFrame
<1>4. ASSUME NEW w \in Writers, WriterStep(w) \/ GateTimeout(w) \/ Retry(w) \/ LateApply(w)
      PROVE  promoting' = promoting
  BY <1>4, WriterFrames DEF WriterFrame
<1>5. ASSUME NEW a \in Admins, AdminStep(a)
      PROVE  promoting' = promoting
  BY <1>5, AdminFrames DEF AdminFrame
<1>6. CASE (\E j \in Keys : Expire(j) \/ ExternalWrite(j)) \/ UNCHANGED vars
  BY <1>1, <1>6 DEF Expire, ExternalWrite, vars, sharedVars
<1> QED
  BY <1>1, <1>2, <1>3, <1>4, <1>5, <1>6 DEF Next, Idle

LEMMA AppliedKeeps ==
  ASSUME TypeOK, NEW cmd, NEW K, origin' \in Applied(cmd, K), NEW k \in Keys,
         k \notin K \/ cmd = "SET", origin[k].exists
  PROVE  origin'[k].exists
<1>1. CASE origin' = origin
  BY <1>1
<1>2. ASSUME NEW e \in BOOLEAN, cmd = "SET" => e = TRUE,
             origin' = [j \in Keys |-> IF j \in K THEN [ver |-> origin[j].ver + 1, exists |-> e]
                                       ELSE origin[j]]
      PROVE  origin'[k].exists
  <2>1. CASE k \notin K
    BY <1>2, <2>1
  <2>2. CASE k \in K
    <3>1. origin'[k] = [ver |-> origin[k].ver + 1, exists |-> e] /\ e = TRUE
      BY <1>2, <2>2
    <3> QED
      BY SMT, <3>1
  <2> QED
    BY <2>1, <2>2
<1> QED
  BY <1>1, <1>2 DEF Applied

\* A key of which no write has begun is still there.
LEMMA ExistsKept ==
  ASSUME TypeOK, SteadyInv, [Next]_vars, NEW k \in Keys, Untouched(k), origin[k].exists
  PROVE  origin'[k].exists
<1>1. CASE origin' = origin
  BY <1>1
<1>2. ASSUME NEW w \in Writers, WriterStep(w) \/ GateTimeout(w) \/ Retry(w) \/ LateApply(w)
      PROVE  origin'[k].exists
  <2>1. CASE Dispatch(w) \/ LateApply(w)
    <3>1. wpc[w] # "gate" /\ origin' \in Applied(wcmd[w], wkeys[w])
      BY <2>1 DEF Dispatch, LateApply, SteadyInv
    <3>2. k \notin wkeys[w]
      BY <3>1 DEF Untouched
    <3> QED
      BY <3>1, <3>2, AppliedKeeps
  <2>2. CASE ~(Dispatch(w) \/ LateApply(w))
    BY <1>1, <1>2, <2>2 DEF WriterStep, AcquireGate, InvalidateKeys, WriteReply, WriteError,
         WriteThrough, WriteThroughStore, Forget, Release, WriteReturn, GateTimeout, Retry
  <2> QED
    BY <2>1, <2>2
<1>3. ASSUME NEW j \in Keys, ExternalWrite(j)
      PROVE  origin'[k].exists
  <2>1. origin' \in Applied("SET", {j})
    BY <1>3 DEF ExternalWrite
  <2> QED
    BY <2>1, AppliedKeeps
<1>4. ASSUME NEW r \in Readers, ReaderStep(r) \/ ReadTimeout(r) \/ FillStep(r)
      PROVE  origin' = origin
  BY <1>4, ReaderFrames, FillFrames DEF ReaderFrame, FillFrame
<1>5. ASSUME NEW a \in Admins, AdminStep(a)
      PROVE  origin' = origin
  BY <1>5, AdminFrames DEF AdminFrame
<1>6. CASE (\E j \in Keys : Expire(j)) \/ UNCHANGED vars
  BY <1>1, <1>6 DEF Expire, vars, sharedVars
<1> QED
  BY <1>1, <1>2, <1>3, <1>4, <1>5, <1>6 DEF Next, Idle

\* A request in its promotion section.
LEMMA PromotionOwn ==
  ASSUME TypeOK, Steady, MoveDiscipline, [Next]_vars, NEW r \in Readers,
         ReaderStep(r) \/ ReadTimeout(r)
  PROVE  PromotionInv(r)'
<1>0. cur[r] \in Keys /\ r \in Procs /\ Stripe(r) \in Stripes /\ promoting \in [Stripes -> BOOLEAN]
  BY RequestTypes, CopyTypes DEF TypeOK, TypeShared, Stripe
<1>1. SteadyInv /\ PlaceInv(cur[r]) /\ PromotionInv(r)
  BY <1>0 DEF MoveDiscipline
<1>2. pend[r] = {}
  BY <1>0, <1>1 DEF SteadyInv
<1>3. ASSUME pc'[r] \notin Holding \cup {"obs", "admitted"}
      PROVE  PromotionInv(r)'
  BY <1>3 DEF PromotionInv, Holding
<1>4. CASE \/ LookProtected(r) \/ LookProbationary(r) \/ RecheckHot(r) \/ LoadPromotionFlag(r)
           \/ LookProtectedLocked(r)
  <2>1. pc'[r] \notin Holding \cup {"obs", "admitted"}
    BY <1>4, LookupGoes DEF Holding
  <2> QED
    BY <1>3, <2>1
<1>5. CASE Observe(r)
  <2>1. Goto(r, "miss") \/ \E k, h : Goto(r, Lookup(k, h))
    BY <1>5, SteadyEnv DEF Observe
  <2>2. pc'[r] \in {"miss", "lookProt", "lookProb"}
    BY <2>1, GoesTo, Labels
  <2> QED
    BY <1>3, <2>2 DEF Holding
<1>6. CASE Miss(r) \/ Join(r) \/ Receive(r) \/ ReadTimeout(r) \/ FetchBypass(r)
           \/ FetchMissing(r) \/ FinishMGet(r) \/ StaleFallback(r)
  <2>1. pc'[r] \in {"obs", "miss", "lookProt", "lookProb", "next", "mfetch", "done",
                    "join", "wait", "fetch", "fill", "stale"}
    BY <1>6, AnswerGoes
  <2>2. pc'[r] # "obs"
    <3>1. CASE StaleFallback(r)
      <4>1. CASE Goto(r, "done")
        <5>1. pc'[r] = "done"
          BY <4>1, GoesTo
        <5> QED
          BY <5>1
      <4>2. CASE pc' = pc /\ pc[r] = "stale"
        BY <4>2
      <4> QED
        BY <3>1, <4>1, <4>2 DEF StaleFallback
    <3>2. CASE Miss(r)
      <4>1. \E label : Goto(r, label) /\ (label \in {"join", "fetch"} \/ label = AfterKey(r, {cur[r]}))
        BY <3>2 DEF Miss, NoHit
      <4>2. AfterKey(r, {cur[r]}) # "obs"
        BY DEF AfterKey
      <4> QED
        BY <4>1, <4>2, GoesTo
    <3>3. CASE ~(StaleFallback(r) \/ Miss(r))
      <4>1. \E label : Goto(r, label) /\ label \in {"wait", "done", "stale", "fill"}
        BY <1>6, <3>3 DEF Join, Receive, ReadTimeout, FetchBypass, FetchMissing, FinishMGet,
             NoHit, ReadFailed
      <4> QED
        BY <4>1, GoesTo
    <3> QED
      BY <3>1, <3>2, <3>3
  <2> QED
    BY <1>3, <2>1, <2>2 DEF Holding
<1>7. CASE TakeStripe(r)
  <2>1. cur' = cur /\ track' = track
    BY <1>7 DEF TakeStripe, LookupFrame
  <2>2. \/ Goto(r, "admit") /\ Fresh(prob[cur[r]]) /\ cand' = [cand EXCEPT ![r] = prob[cur[r]]]
        \/ Goto(r, AfterKey(r, miss[r])) \/ Goto(r, "miss")
    BY <1>7 DEF TakeStripe, NoHit, Hit
  <2>3. CASE Goto(r, "admit") /\ Fresh(prob[cur[r]]) /\ cand' = [cand EXCEPT ![r] = prob[cur[r]]]
    <3>1. pc'[r] = "admit"
      BY <2>3, GoesTo
    <3>2. Present(prob[cur[r]]) /\ cand'[r] = prob[cur[r]]
      BY <2>3 DEF Fresh, Present, TypeOK, TypeReader
    <3>3. cur[r] \in CacheKeys /\ IsTracked(cur[r]) /\ Probationary
      BY <1>1, <3>2 DEF PlaceInv
    <3> QED
      BY <2>1, <3>1, <3>2, <3>3 DEF PromotionInv, IsTracked, Present
  <2>4. CASE Goto(r, AfterKey(r, miss[r])) \/ Goto(r, "miss")
    <3>1. miss[r] \in SUBSET Keys
      BY DEF TypeOK, TypeReader
    <3>2. pc'[r] \in {"next", "mfetch", "done", "miss"}
      BY <2>4, <3>1, GoesTo, Labels
    <3> QED
      BY <1>3, <3>2 DEF Holding
  <2> QED
    BY <2>2, <2>3, <2>4
<1>8. CASE AdmitCandidate(r)
  <2>1. pc[r] = "admit" /\ cur' = cur /\ cand' = cand
    BY <1>8 DEF AdmitCandidate, LookupFrame
  <2>2. cur[r] \in CacheKeys /\ IsTracked(cur[r]) /\ Present(cand[r]) /\ Probationary
    BY <1>1, <2>1 DEF PromotionInv, Holding
  <2>3. PICK D \in SUBSET Demotable : \E P \in SUBSET (Promotable \ D) :
               track' = Admit(cur[r], D, P)
    BY <1>8 DEF AdmitCandidate
  <2>4. PICK P \in SUBSET (Promotable \ D) : track' = Admit(cur[r], D, P)
    BY <2>3
  <2>5. track' = [track EXCEPT ![cur[r]] = "hot"]
    BY <2>2, <2>4, SteadyAdvance DEF Admit, IsTracked
  <2>6. track'[cur[r]] = "hot"
    BY <1>0, <2>5 DEF TypeOK, TypeShared
  <2>7. hot' = [hot EXCEPT ![r] = TRUE] /\ Goto(r, "flagOn")
    BY <1>8, <2>6 DEF AdmitCandidate, NoHit
  <2>8. hot'[r] /\ pc'[r] = "flagOn"
    BY <2>7, GoesTo DEF TypeOK, TypeReader
  <2> QED
    BY <2>1, <2>2, <2>6, <2>8 DEF PromotionInv, IsTracked, IsHot, Present
<1>9. CASE SetPromotionFlag(r) \/ RemoveCandidate(r) \/ PromoteCandidate(r)
  <2>1. /\ cur' = cur /\ track' = track /\ hot' = hot
        /\ pc[r] \in {"flagOn", "takeCand", "promote"}
    BY <1>9 DEF SetPromotionFlag, RemoveCandidate, PromoteCandidate, LookupFrame
  <2>2. /\ cur[r] \in CacheKeys /\ IsTracked(cur[r]) /\ Present(cand[r]) /\ Probationary
        /\ hot[r] /\ IsHot(cur[r])
    BY <1>1, <2>1 DEF PromotionInv, Holding
  <2>3. cand'[r] = cand[r]
    <3>1. CASE SetPromotionFlag(r) \/ RemoveCandidate(r)
      BY <2>2, <3>1 DEF SetPromotionFlag, RemoveCandidate
    <3>2. CASE PromoteCandidate(r)
      <4>1. closed["prot"] = FALSE /\ prot \in [Keys -> Entry] /\ cand[r].ver \in Nat
        BY <1>1, OpenTiers, TierTypes, RequestTypes
      <4>2. prot' \in Put(prot, closed["prot"], cur[r], cand[r].ver)
        BY <3>2 DEF PromoteCandidate
      <4>3. Takes(prot, prot', cur[r])
        BY <1>0, <4>1, <4>2, SteadyPut
      <4>4. Present(prot'[cur[r]])
        BY <4>3 DEF Takes
      <4>5. cand' = [cand EXCEPT ![r] = cand[r]]
        BY <3>2, <4>4 DEF PromoteCandidate
      <4> QED
        BY <4>5 DEF TypeOK, TypeReader
    <3> QED
      BY <1>9, <3>1, <3>2
  <2>4. pc'[r] \in {"takeCand", "promote", "flagOff"}
    <3>1. Goto(r, "takeCand") \/ Goto(r, "promote") \/ Goto(r, "flagOff")
      BY <1>9, <2>2 DEF SetPromotionFlag, RemoveCandidate, PromoteCandidate, NoHit
    <3> QED
      BY <3>1, GoesTo
  <2>5. promoting'[Stripe(r)]
    <3>1. CASE SetPromotionFlag(r)
      <4>1. promoting' = [promoting EXCEPT ![Stripe(r)] = TRUE]
        BY <3>1 DEF SetPromotionFlag
      <4> QED
        BY <1>0, <4>1
    <3>2. CASE RemoveCandidate(r) \/ PromoteCandidate(r)
      <4>1. promoting' = promoting /\ pc[r] \in {"takeCand", "promote"}
        BY <3>2 DEF RemoveCandidate, PromoteCandidate
      <4> QED
        BY <1>1, <4>1 DEF PromotionInv
    <3> QED
      BY <1>9, <3>1, <3>2
  <2> QED
    BY <2>1, <2>2, <2>3, <2>4, <2>5 DEF PromotionInv, IsTracked, IsHot, Present, Stripe
<1>10. CASE ClearPromotionFlag(r)
  <2>1. AfterPromotion(r, pend[r], cand[r])
    BY <1>10 DEF ClearPromotionFlag
  <2>2. pc'[r] \in {"next", "mfetch", "done", "miss"}
    BY <1>2, <2>1, PromotionGoes
  <2> QED
    BY <1>3, <2>2 DEF Holding
<1>11. CASE HandleObservation(r) \/ HandleAdmission(r)
  BY <1>0, <1>1, <1>11, NoDemotions DEF HandleObservation, HandleAdmission
<1> QED
  BY <1>4, <1>5, <1>6, <1>7, <1>8, <1>9, <1>10, <1>11 DEF ReaderStep

\* A request and its fill move by their own steps.
Standing(q) == /\ pc'[q] = pc[q] /\ cur'[q] = cur[q] /\ hot'[q] = hot[q]
               /\ cand'[q] = cand[q] /\ (had'[q] => had[q])

LEMMA WhoSteps ==
  ASSUME TypeOK, [Next]_vars, NEW q \in Readers
  PROVE  ReaderStep(q) \/ ReadTimeout(q) \/ (Standing(q) /\ (FillStep(q) \/ SameFilling(q)))
<1>1. CASE SameRequest(q) /\ (FillStep(q) \/ SameFilling(q))
  BY <1>1 DEF SameRequest, Standing
<1>2. CASE UNCHANGED <<readerVars, fillVars>> /\ (had'[q] => had[q])
  BY <1>2 DEF readerVars, fillVars, Standing, SameFilling
<1>3. ASSUME NEW r \in Readers, ReaderStep(r) \/ ReadTimeout(r), r # q
      PROVE  SameRequest(q) /\ SameFilling(q)
  BY <1>3, ReaderOthers
<1>4. ASSUME NEW r \in Readers, FillStep(r)
      PROVE  SameRequest(q) /\ (FillStep(q) \/ SameFilling(q))
  <2>1. CASE r = q
    BY <1>4, <2>1, FillOthers
  <2>2. CASE r # q
    BY <1>4, <2>2, FillOthers
  <2> QED
    BY <2>1, <2>2
<1>5. ASSUME NEW w \in Writers, WriterStep(w) \/ GateTimeout(w) \/ Retry(w) \/ LateApply(w)
      PROVE  UNCHANGED <<readerVars, fillVars>> /\ (had'[q] => had[q])
  BY <1>5, WriterFrames DEF WriterFrame
<1>6. ASSUME NEW a \in Admins, AdminStep(a)
      PROVE  UNCHANGED <<readerVars, fillVars>> /\ (had'[q] => had[q])
  BY <1>6, AdminFrames DEF AdminFrame
<1>7. ASSUME NEW j \in Keys, Expire(j)
      PROVE  UNCHANGED <<readerVars, fillVars>> /\ (had'[q] => had[q])
  BY <1>7 DEF Expire
<1>8. CASE (\E j \in Keys : ExternalWrite(j)) \/ UNCHANGED vars
  BY <1>2, <1>8 DEF ExternalWrite, vars, histVars
<1> QED
  BY <1>1, <1>2, <1>3, <1>4, <1>5, <1>6, <1>7, <1>8 DEF Next, Idle

\* Fills are led for keys of policy cache, and one that stores on probation has
\* just found that its key is not HOT.
FillPlace(q) ==
  /\ pc'[q] = "join" \/ fpc'[q] = "fetch" => cur'[q] \in CacheKeys
  /\ ftodo'[q] \subseteq CacheKeys
  /\ fpc'[q] = "storeProb" => /\ fkey'[q] = fkey[q] /\ ~IsHot(fkey[q])
                              /\ fpc[q] \in {"drop", "storeProb"}
                              /\ fpc[q] = "storeProb" \/ track' = track

LEMMA SamePlace ==
  ASSUME NEW q \in Readers, PlacementInv(q), SameFilling(q), cur'[q] = cur[q] \/ fpc[q] = "none",
         pc'[q] # "join" \/ (pc'[q] = pc[q] /\ cur'[q] = cur[q])
  PROVE  FillPlace(q)
BY DEF PlacementInv, SameFilling, FillPlace

LEMMA ReaderPlace ==
  ASSUME TypeOK, StripeDiscipline, SteadyInv, NEW r \in Readers, PlacementInv(r),
         ReaderStep(r) \/ ReadTimeout(r)
  PROVE  FillPlace(r)
<1>0. /\ r \in Procs /\ cur[r] \in Keys /\ miss[r] \in SUBSET Keys
      /\ pc[r] \notin {"wait", "fill", "stale", "done"} => fpc[r] = "none"
  BY RequestTypes DEF StripeDiscipline, ReaderInv, TypeOK, TypeReader
<1>2. CASE \/ LookProtected(r) \/ LookProbationary(r) \/ RecheckHot(r) \/ LoadPromotionFlag(r)
           \/ LookProtectedLocked(r)
  <2>1. cur' = cur /\ SameFilling(r)
    BY <1>2 DEF LookProtected, LookProbationary, RecheckHot, LoadPromotionFlag,
         LookProtectedLocked, LookupFrame, fillVars, SameFilling
  <2>2. pc'[r] # "join"
    BY <1>2, LookupGoes
  <2> QED
    BY <2>1, <2>2, SamePlace
<1>3. CASE TakeStripe(r) \/ AdmitCandidate(r) \/ SetPromotionFlag(r) \/ PromoteCandidate(r)
  <2>1. cur' = cur /\ SameFilling(r)
    BY <1>3 DEF TakeStripe, AdmitCandidate, SetPromotionFlag, PromoteCandidate, LookupFrame,
         fillVars, SameFilling
  <2>2. \E label \in {AfterKey(r, miss[r]), "miss", "admit", "flagOn", "takeCand", "flagOff"} :
           Goto(r, label)
    BY <1>3 DEF TakeStripe, AdmitCandidate, SetPromotionFlag, PromoteCandidate, NoHit, Hit
  <2>3. pc'[r] # "join"
    BY <1>0, <2>2, GoesTo, Labels
  <2> QED
    BY <2>1, <2>3, SamePlace
<1>4. CASE RemoveCandidate(r) \/ ClearPromotionFlag(r)
  <2>1. cur' = cur /\ SameFilling(r)
    BY <1>4 DEF RemoveCandidate, ClearPromotionFlag, LookupFrame, fillVars, SameFilling
  <2>2. Goto(r, "promote") \/ \E D, c : AfterPromotion(r, D, c)
    BY <1>4 DEF RemoveCandidate, ClearPromotionFlag, NoHit
  <2>3. CASE Goto(r, "promote")
    <3>1. pc'[r] = "promote"
      BY <2>3, GoesTo
    <3>2. pc'[r] # "join"
      BY <3>1
    <3> QED
      BY <2>1, <3>2, SamePlace
  <2>4. CASE \E D, c : AfterPromotion(r, D, c)
    <3>1. pc'[r] # "join"
      BY <2>4, PromotionGoes
    <3> QED
      BY <2>1, <3>1, SamePlace
  <2> QED
    BY <2>2, <2>3, <2>4
<1>5. CASE HandleObservation(r) \/ HandleAdmission(r)
  BY <1>0, <1>5, NoDemotions DEF HandleObservation, HandleAdmission
<1>6. CASE Observe(r)
  <2>1. pc[r] = "next" /\ SameFilling(r)
    BY <1>6 DEF Observe, fillVars, SameFilling
  <2>2. Goto(r, "miss") \/ Goto(r, "obs") \/ \E k, h : Goto(r, Lookup(k, h))
    BY <1>6 DEF Observe
  <2>3. pc'[r] \in {"miss", "obs", "lookProt", "lookProb"}
    BY <2>2, GoesTo, Labels
  <2>4. fpc[r] = "none" /\ pc'[r] # "join"
    BY <1>0, <2>1, <2>3
  <2> QED
    BY <2>1, <2>4, SamePlace
<1>7. CASE Miss(r)
  <2>1. cur' = cur /\ SameFilling(r) /\ fpc[r] = "none"
    BY <1>0, <1>7 DEF Miss, fillVars, SameFilling
  <2>2. \/ Goto(r, AfterKey(r, {cur[r]})) \/ Goto(r, "fetch")
        \/ Goto(r, "join") /\ cur[r] \in CacheKeys
    BY <1>7 DEF Miss, NoHit
  <2>3. CASE Goto(r, AfterKey(r, {cur[r]})) \/ Goto(r, "fetch")
    <3>1. {cur[r]} \in SUBSET Keys
      BY <1>0
    <3>2. pc'[r] \in {"next", "mfetch", "done", "fetch"}
      BY <2>3, <3>1, GoesTo, Labels
    <3>3. pc'[r] # "join"
      BY <3>2
    <3> QED
      BY <2>1, <3>3, SamePlace
  <2>4. CASE cur[r] \in CacheKeys
    BY <2>1, <2>4 DEF FillPlace, SameFilling, PlacementInv
  <2> QED
    BY <2>2, <2>3, <2>4
<1>8. CASE Join(r)
  <2>1. cur[r] \in CacheKeys /\ fpc[r] = "none" /\ cur' = cur /\ ftodo' = ftodo
    BY <1>0, <1>8 DEF Join, AnswerFrame, PlacementInv
  <2>2. fpc' = fpc \/ fpc' = [fpc EXCEPT ![r] = "fetch"]
    BY <1>8 DEF Join
  <2>3. fpc'[r] \in {"none", "fetch"}
    BY <2>1, <2>2, FillGoesTo
  <2>4. fpc'[r] # "storeProb"
    BY <2>3
  <2> QED
    BY <2>1, <2>4 DEF FillPlace, PlacementInv
<1>9. CASE Receive(r) \/ ReadTimeout(r) \/ FetchBypass(r)
  <2>1. cur' = cur /\ SameFilling(r)
    BY <1>9 DEF Receive, ReadTimeout, FetchBypass, AnswerFrame, fillVars, SameFilling
  <2>2. Goto(r, "stale") \/ Goto(r, "done")
    BY <1>9 DEF Receive, ReadTimeout, FetchBypass, ReadFailed
  <2>3. pc'[r] \in {"stale", "done"}
    BY <2>2, GoesTo
  <2>4. pc'[r] # "join"
    BY <2>3
  <2> QED
    BY <2>1, <2>4, SamePlace
<1>10. CASE StaleFallback(r)
  <2>1. cur' = cur /\ SameFilling(r)
    BY <1>10 DEF StaleFallback, AnswerFrame, fillVars, SameFilling
  <2>2. Goto(r, "done") \/ pc' = pc
    BY <1>10 DEF StaleFallback
  <2>3. pc'[r] # "join" \/ pc'[r] = pc[r]
    BY <2>2, GoesTo
  <2> QED
    BY <2>1, <2>3, SamePlace
<1>11. CASE FetchMissing(r)
  <2>1. cur' = cur /\ fkey' = fkey /\ pc[r] = "mfetch"
    BY <1>11 DEF FetchMissing, AnswerFrame
  <2>2. Goto(r, "stale") \/ Goto(r, "done") \/ Goto(r, "fill")
    BY <1>11 DEF FetchMissing, ReadFailed
  <2>a. pc'[r] \in {"stale", "done", "fill"}
    BY <2>2, GoesTo
  <2>3. pc'[r] # "join"
    BY <2>a
  <2>4. CASE UNCHANGED <<got, ftodo, fpc>>
    <3>1. SameFilling(r)
      BY <2>1, <2>4 DEF SameFilling
    <3> QED
      BY <2>1, <2>3, <3>1, SamePlace
  <2>5. CASE /\ ftodo' = [ftodo EXCEPT ![r] = miss[r] \cap CacheKeys]
             /\ fpc' = [fpc EXCEPT ![r] = IF miss[r] \cap CacheKeys = {} THEN "end" ELSE "lock"]
    <3>1. ftodo'[r] = miss[r] \cap CacheKeys
      BY <2>5 DEF TypeOK, TypeFill
    <3>2. fpc'[r] \in {"end", "lock"}
      BY <2>5, FillGoesTo
    <3>3. fpc'[r] # "fetch" /\ fpc'[r] # "storeProb"
      BY <3>2
    <3> QED
      BY <2>3, <3>1, <3>3 DEF FillPlace
  <2> QED
    BY <1>11, <2>4, <2>5 DEF FetchMissing
<1>12. CASE FinishMGet(r)
  <2>1. fpc' = [fpc EXCEPT ![r] = "done"] /\ Goto(r, "done") /\ ftodo' = ftodo
    BY <1>12 DEF FinishMGet
  <2>2. fpc'[r] = "done" /\ pc'[r] = "done"
    BY <2>1, FillGoesTo, GoesTo
  <2> QED
    BY <2>1, <2>2 DEF FillPlace, PlacementInv
<1> QED
  BY <1>2, <1>3, <1>4, <1>5, <1>6, <1>7, <1>8, <1>9, <1>10, <1>11, <1>12 DEF ReaderStep

LEMMA FillStepPlace ==
  ASSUME TypeOK, NEW r \in Readers, PlacementInv(r), FillStep(r)
  PROVE  FillPlace(r)
<1>0. pc' = pc /\ cur' = cur /\ track' = track
  BY FillFrames DEF FillFrame, readerVars
<1>1. ASSUME ftodo'[r] \subseteq CacheKeys, fpc'[r] \in {"lock", "drop", "storeProt", "end", "done"}
      PROVE  FillPlace(r)
  <2>1. fpc'[r] # "fetch" /\ fpc'[r] # "storeProb"
    BY <1>1
  <2> QED
    BY <1>0, <1>1, <2>1 DEF FillPlace, PlacementInv
<1>2. ftodo[r] \subseteq CacheKeys
  BY DEF PlacementInv
<1>3. CASE FlightFetch(r)
  <2>1. cur[r] \in CacheKeys
    BY <1>3 DEF FlightFetch, PlacementInv
  <2>2. ftodo' = ftodo \/ ftodo' = [ftodo EXCEPT ![r] = {cur[r]}]
    BY <1>3 DEF FlightFetch
  <2>3. ftodo'[r] \subseteq CacheKeys
    <3>1. ftodo'[r] = ftodo[r] \/ ftodo'[r] = {cur[r]}
      BY <2>2 DEF TypeOK, TypeFill
    <3>2. {cur[r]} \subseteq CacheKeys
      BY <2>1
    <3> QED
      BY <1>2, <3>1, <3>2
  <2>4. fpc' = [fpc EXCEPT ![r] = "lock"] \/ fpc' = [fpc EXCEPT ![r] = "end"]
    BY <1>3 DEF FlightFetch
  <2>5. fpc'[r] \in {"lock", "end"}
    BY <2>4, FillGoesTo
  <2> QED
    BY <1>1, <2>3, <2>5
<1>4. CASE FillCheck(r)
  <2>1. PICK k \in ftodo[r] :
           \/ fpc' = [fpc EXCEPT ![r] = "drop"] /\ ftodo' = ftodo
           \/ /\ ftodo' = [ftodo EXCEPT ![r] = AfterRefusal(r, k)]
              /\ \E label \in {"end", fpc[r]} : fpc' = [fpc EXCEPT ![r] = label]
    BY <1>4 DEF FillCheck
  <2>2. ftodo'[r] \subseteq CacheKeys
    BY <1>2, <2>1, FillLeaves DEF AfterRefusal
  <2>3. fpc[r] = "lock"
    BY <1>4 DEF FillCheck
  <2>4. fpc'[r] \in {"drop", "end", "lock"}
    BY <2>1, <2>3, FillGoesTo
  <2> QED
    BY <1>1, <2>2, <2>4
<1>5. CASE FillNext(r)
  <2>1. ftodo' = [ftodo EXCEPT ![r] = ftodo[r] \ {fkey[r]}]
    BY <1>5 DEF FillNext
  <2>2. ftodo'[r] \subseteq CacheKeys
    BY <1>2, <2>1, FillLeaves
  <2>3. \E label \in {"end", "lock"} : fpc' = [fpc EXCEPT ![r] = label]
    BY <1>5 DEF FillNext
  <2>4. fpc'[r] \in {"end", "lock"}
    BY <2>3, FillGoesTo
  <2> QED
    BY <1>1, <2>2, <2>4
<1>6. CASE FillDrop(r) /\ ~FillNext(r)
  <2>1. fpc[r] = "drop" /\ fkey' = fkey /\ ftodo' = ftodo
    BY <1>6 DEF FillDrop
  <2>2. \/ fpc' = [fpc EXCEPT ![r] = "storeProt"]
        \/ fpc' = [fpc EXCEPT ![r] = "storeProb"] /\ ~IsHot(fkey[r])
    BY <1>6 DEF FillDrop
  <2>3. fpc'[r] = "storeProt" \/ (fpc'[r] = "storeProb" /\ ~IsHot(fkey[r]))
    BY <2>2, FillGoesTo
  <2>4. CASE fpc'[r] = "storeProt"
    BY <1>1, <1>2, <2>1, <2>4
  <2>5. CASE fpc'[r] = "storeProb" /\ ~IsHot(fkey[r])
    <3>1. fpc'[r] # "fetch"
      BY <2>5
    <3> QED
      BY <1>0, <1>2, <2>1, <2>5, <3>1 DEF FillPlace, PlacementInv
  <2> QED
    BY <2>3, <2>4, <2>5
<1>7. CASE FillStore(r)
  BY <1>5, <1>7 DEF FillStore
<1>8. CASE FlightDone(r)
  <2>1. fpc' = [fpc EXCEPT ![r] = "done"] /\ ftodo' = ftodo
    BY <1>8 DEF FlightDone
  <2>2. fpc'[r] = "done"
    BY <2>1, FillGoesTo
  <2> QED
    BY <1>1, <1>2, <2>1, <2>2
<1> QED
  BY <1>3, <1>4, <1>5, <1>6, <1>7, <1>8 DEF FillStep

LEMMA NextPlacement ==
  ASSUME TypeOK, StripeDiscipline, Steady, MoveDiscipline, [Next]_vars, NEW q \in Readers
  PROVE  PlacementInv(q)'
<1>0. SteadyInv /\ PlacementInv(q) /\ \A k \in Keys : PlaceInv(k)
  BY DEF MoveDiscipline
<1>1. FillPlace(q)
  <2>1. CASE ReaderStep(q) \/ ReadTimeout(q)
    BY <1>0, <2>1, ReaderPlace
  <2>2. CASE FillStep(q)
    BY <1>0, <2>2, FillStepPlace
  <2>3. CASE Standing(q) /\ SameFilling(q)
    BY <1>0, <2>3, SamePlace DEF Standing
  <2> QED
    BY <2>1, <2>2, <2>3, WhoSteps
<1>2. fpc'[q] = "storeProb" => track'[fkey'[q]] # "hot"
  <2>1. SUFFICES ASSUME fpc'[q] = "storeProb" PROVE track'[fkey[q]] # "hot"
    BY <1>1 DEF FillPlace
  <2>2. fkey[q] \in Keys /\ ~IsHot(fkey[q]) /\ fpc[q] \in Reconciling
    BY <1>1, <2>1, RequestTypes DEF FillPlace, Reconciling
  <2>3. ASSUME NEW r \in Readers, Admits(r), cur[r] = fkey[q]
        PROVE  FALSE
    <3>1. pc[r] \in Holding
      BY <2>3 DEF Admits, Holding
    <3> QED
      BY <2>2, <2>3, <3>1, StripeExcludes
  <2> QED
    BY <1>0, <2>2, <2>3, SteadyTrack
<1>3. ASSUME NEW k \in ftodo'[q], fpc'[q] \in {"lock"} \cup Reconciling, Untouched(k)'
      PROVE  got'[q][k].exists
  <2>1. k \in Keys
    BY <1>1, <1>3 DEF FillPlace, CacheKeys
  <2>2. Untouched(k)
    BY <1>3, <2>1, UntouchedBefore
  <2>3. FillKept(q)
    BY NextHands
  <2>4. CASE fpc[q] \in Filling /\ k \in ftodo[q] /\ got'[q][k] = got[q][k]
    BY <1>0, <2>2, <2>4 DEF PlacementInv, Filling
  <2>5. CASE got'[q][k] = origin[k]
    BY <1>0, <2>1, <2>2, <2>5 DEF PlaceInv
  <2> QED
    BY <1>3, <2>1, <2>3, <2>4, <2>5 DEF FillKept, Filling
<1> QED
  BY <1>1, <1>2, <1>3 DEF PlacementInv, FillPlace, IsHot

LEMMA NextPromotion ==
  ASSUME TypeOK, StripeDiscipline, Steady, MoveDiscipline, [Next]_vars, NEW q \in Readers
  PROVE  PromotionInv(q)'
<1>0. SteadyInv /\ PromotionInv(q) /\ cur[q] \in Keys /\ Stripe(q) \in Stripes
  BY RequestTypes, CopyTypes DEF MoveDiscipline, Stripe
<1>1. CASE ReaderStep(q) \/ ReadTimeout(q)
  BY <1>1, PromotionOwn
<1>2. CASE Standing(q)
  <2>1. pc'[q] = pc[q] /\ cur'[q] = cur[q] /\ hot'[q] = hot[q] /\ cand'[q] = cand[q]
    BY <1>2 DEF Standing
  <2>2. /\ IsTracked(cur[q]) => track'[cur[q]] # "untracked"
        /\ IsHot(cur[q]) => track'[cur[q]] = "hot"
    BY <1>0, SteadyTrack
  <2>3. ASSUME pc[q] \in {"takeCand", "promote", "flagOff"}
        PROVE  promoting'[Stripe(q)]
    <3>1. promoting[Stripe(q)] /\ pc[q] \in Holding
      BY <1>0, <2>3 DEF PromotionInv, Holding
    <3>2. ASSUME NEW r \in Readers, pc[r] = "flagOff", Stripe(r) = Stripe(q), pc'[r] \notin Holding
          PROVE  FALSE
      <4>1. lock[Stripe(q)] = q /\ lock[Stripe(q)] = r
        BY <3>1, <3>2, Holders DEF Stripe, Holding
      <4> QED
        BY <2>1, <3>1, <3>2, <4>1
    <3> QED
      BY <1>0, <3>1, <3>2, FlagKept
  <2> QED
    BY <1>0, <2>1, <2>2, <2>3 DEF PromotionInv, IsTracked, IsHot, Present, Stripe
<1> QED
  BY <1>1, <1>2, WhoSteps

\* A key that is HOT and on probation is about to leave it.
LEMMA TakingKept ==
  ASSUME TypeOK, MoveDiscipline, [Next]_vars, NEW k \in Keys, Taking(k)
  PROVE  Taking(k)' \/ ~Present(prob'[k])
<1>1. PICK q \in Readers : pc[q] \in {"flagOn", "takeCand"} /\ cur[q] = k
  BY DEF Taking
<1>2. PromotionInv(q) /\ prob \in [Keys -> Entry]
  BY TierTypes DEF MoveDiscipline
<1>3. hot[q]
  BY <1>1, <1>2 DEF PromotionInv, Holding
<1>4. CASE Standing(q)
  BY <1>1, <1>4 DEF Standing, Taking
<1>5. CASE SetPromotionFlag(q)
  <2>1. Goto(q, "takeCand") /\ cur' = cur
    BY <1>5 DEF SetPromotionFlag, NoHit, LookupFrame
  <2>2. pc'[q] = "takeCand" /\ cur'[q] = k
    BY <1>1, <2>1, GoesTo
  <2> QED
    BY <2>2 DEF Taking
<1>6. CASE RemoveCandidate(q)
  <2>1. prob' = [prob EXCEPT ![k] = NoEntry]
    BY <1>1, <1>6 DEF RemoveCandidate, AfterTaking, Without
  <2>2. prob'[k] = NoEntry
    BY <1>2, <2>1
  <2>3. NoEntry.age = "none"
    BY SMT DEF NoEntry
  <2> QED
    BY <2>2, <2>3 DEF Present
<1>7. CASE ReaderStep(q) \/ ReadTimeout(q)
  <2>1. SetPromotionFlag(q) \/ RemoveCandidate(q)
    BY <1>1, <1>7 DEF ReaderStep, Observe, HandleObservation, LookProtected, LookProbationary,
         RecheckHot, LoadPromotionFlag, LookProtectedLocked, TakeStripe, AdmitCandidate,
         PromoteCandidate, ClearPromotionFlag, HandleAdmission, Miss, Join, Receive,
         ReadTimeout, FetchBypass, FetchMissing, FinishMGet, StaleFallback
  <2> QED
    BY <1>5, <1>6, <2>1
<1> QED
  BY <1>4, <1>7, WhoSteps

LEMMA NextPlace ==
  ASSUME TypeOK, StripeDiscipline, Steady, MoveDiscipline, [Next]_vars, NEW k \in Keys
  PROVE  PlaceInv(k)'
<1>0. SteadyInv /\ PlaceInv(k) /\ \A r \in Readers : PromotionInv(r) /\ PlacementInv(r)
  BY DEF MoveDiscipline
<1>1. ProtectedStep /\ ProbationStep
  BY NextTiers
<1>2. ASSUME NEW r \in Readers, fpc[r] \in Reconciling
      PROVE  fkey[r] \in CacheKeys
  BY <1>0, <1>2 DEF StripeDiscipline, FillInv, PlacementInv
<1>3. Present(prot'[k]) => k \in CacheKeys
  <2>1. ASSUME NEW v, ProtSource(k, v)
        PROVE  k \in CacheKeys
    <3>1. ASSUME NEW r \in Readers, Promotes(r, k, v)
          PROVE  k \in CacheKeys
      BY <1>0, <3>1 DEF Promotes, PromotionInv, Holding
    <3>2. ASSUME NEW r \in Readers, FillsProtected(r, k, v)
          PROVE  k \in CacheKeys
      BY <1>2, <3>2 DEF FillsProtected, Reconciling
    <3>3. ASSUME NEW w \in Writers, StoresThrough(w, k, v)
          PROVE  k \in CacheKeys
      BY <1>0, <3>3 DEF StoresThrough, SteadyInv
    <3> QED
      BY <2>1, <3>1, <3>2, <3>3 DEF ProtSource
  <2> QED
    BY <1>0, <1>1, <2>1 DEF ProtectedStep, Loses, Gains, PlaceInv
<1>4. Present(prob'[k]) =>
         \/ Present(prob[k])
         \/ \E r \in Readers : /\ fpc[r] = "storeProb" /\ k = fkey[r]
                               /\ Probationary /\ IsTracked(k)
  BY <1>1 DEF ProbationStep, Loses, Gains, ProbSource, FillsProbation
<1>5. Present(prob'[k]) => k \in CacheKeys /\ IsTracked(k) /\ Probationary
  BY <1>0, <1>2, <1>4 DEF PlaceInv, Reconciling
<1>6. IsTracked(k) => track'[k] # "untracked"
  BY <1>0, SteadyTrack
<1>7. ASSUME Present(prob'[k]), track'[k] = "hot"
      PROVE  Taking(k)'
  <2>1. CASE IsHot(k)
    <3>1. Present(prob[k])
      BY <1>0, <1>4, <1>7, <2>1 DEF PlacementInv
    <3>2. Taking(k)
      BY <1>0, <2>1, <3>1 DEF PlaceInv
    <3> QED
      BY <1>7, <3>2, TakingKept
  <2>2. CASE \E r \in Readers : Admits(r) /\ cur[r] = k
    BY <2>2 DEF Admits, Taking
  <2> QED
    BY <1>0, <1>7, <2>1, <2>2, SteadyTrack
<1>8. Untouched(k)' => origin'[k].exists
  BY <1>0, UntouchedBefore, ExistsKept DEF PlaceInv
<1> QED
  BY <1>3, <1>5, <1>6, <1>7, <1>8 DEF PlaceInv, IsTracked, IsHot, Present

\* What a request that found a copy of k has yet to find at a label.
Found(label, k) ==
  /\ label # "miss"
  /\ label = "lookProb" => Probationary
  /\ label \in {"lookProt", "lookProb", "lockCand"} => Servable(k)
  /\ label \in {"recheck", "flag", "lockProt"} => Arriving(k)
  /\ label = "lateProt" => Fresh(prot[k])

ArrivingAfter(k) == Fresh(prot'[k]) \/ \E q \in Readers : pc'[q] = "promote" /\ cur'[q] = k
ServableAfter(k) == Fresh(prob'[k]) \/ ArrivingAfter(k)
UntouchedAfter(k) == \A w \in Writers : k \in wkeys'[w] => wpc'[w] = "gate"

FoundAfter(label, k) ==
  /\ label # "miss"
  /\ label = "lookProb" => Probationary
  /\ label \in {"lookProt", "lookProb", "lockCand"} => ServableAfter(k)
  /\ label \in {"recheck", "flag", "lockProt"} => ArrivingAfter(k)
  /\ label = "lateProt" => Fresh(prot'[k])

LEMMA FoundLifts ==
  ASSUME NEW k \in Keys, CopyKept(k), NEW label, Found(label, k)
  PROVE  FoundAfter(label, k)
<1>1. Arriving(k) => ArrivingAfter(k)
  BY DEF CopyKept, Arriving, ArrivingAfter, InTransit, Fresh
<1>2. Servable(k) => ServableAfter(k)
  BY <1>1 DEF CopyKept, Servable, ServableAfter, Arriving, ArrivingAfter, InTransit, Fresh
<1> QED
  BY <1>1, <1>2 DEF Found, FoundAfter, CopyKept, Fresh

LEMMA FoundElsewhere ==
  ASSUME NEW k, NEW label \in ReaderPC \ {"miss", "lookProb", "lookProt", "lockCand", "recheck",
                                          "flag", "lockProt", "lateProt"}
  PROVE  Found(label, k)
BY DEF Found

\* The key of a copy in the protected tier, or on its way there, is HOT.
LEMMA ArrivingHot ==
  ASSUME HotDiscipline, MoveDiscipline, NEW k \in Keys, Arriving(k)
  PROVE  IsHot(k)
<1>1. CASE Fresh(prot[k])
  <2>1. Present(prot[k])
    BY <1>1 DEF Fresh, Present
  <2>2. HotOrReported(k)
    BY <2>1 DEF HotDiscipline
  <2> QED
    BY <2>2 DEF HotOrReported, MoveDiscipline, SteadyInv
<1>2. CASE InTransit(k)
  BY <1>2 DEF InTransit, MoveDiscipline, PromotionInv, Holding
<1> QED
  BY <1>1, <1>2 DEF Arriving

\* Nothing of a key is in transit while its stripe is free.
LEMMA FreeStripe ==
  ASSUME TypeOK, StripeDiscipline, NEW k \in Keys, lock[StripeOf[k]] = None
  PROVE  ~InTransit(k)
<1>1. ASSUME NEW q \in Readers, pc[q] = "promote", cur[q] = k
      PROVE  FALSE
  <2>1. lock[StripeOf[k]] = q
    BY <1>1, Holders DEF Holding
  <2>2. q # None
    BY ServiceAssumption
  <2> QED
    BY <2>1, <2>2
<1> QED
  BY <1>1 DEF InTransit

LEMMA ServableProbation ==
  ASSUME MoveDiscipline, NEW k \in Keys, Servable(k), ~Fresh(prot[k])
  PROVE  Probationary
<1>1. CASE Fresh(prob[k])
  <2>1. Present(prob[k])
    BY <1>1 DEF Fresh, Present
  <2> QED
    BY <2>1 DEF MoveDiscipline, PlaceInv
<1>2. CASE InTransit(k)
  BY <1>2 DEF InTransit, MoveDiscipline, PromotionInv, Holding
<1> QED
  BY <1>1, <1>2 DEF Servable, Arriving

\* Where a request that found a copy goes next: the lookups.
LEMMA LookupFound ==
  ASSUME TypeOK, StripeDiscipline, HotDiscipline, MoveDiscipline, NEW r \in Readers,
         had[r], Untouched(cur[r]),
         \/ LookProtected(r) \/ LookProbationary(r) \/ RecheckHot(r) \/ LoadPromotionFlag(r)
         \/ LookProtectedLocked(r) \/ TakeStripe(r)
  PROVE  Found(pc'[r], cur[r])
<1> DEFINE k == cur[r]
<1>0. k \in Keys /\ miss[r] \in SUBSET Keys /\ Stripe(r) = StripeOf[k]
  BY RequestTypes DEF TypeOK, TypeReader, Stripe
<1>1. Found(pc[r], k)
  BY DEF MoveDiscipline, FoundInv, Found
<1>2. ASSUME NEW v, Hit(r, v)
      PROVE  Found(pc'[r], k)
  <2>1. Goto(r, AfterKey(r, miss[r]))
    BY <1>2 DEF Hit
  <2>2. pc'[r] \in {"next", "mfetch", "done"}
    BY <1>0, <2>1, GoesTo, Labels
  <2> QED
    BY <2>2, FoundElsewhere DEF ReaderPC
<1>3. CASE LookProtected(r)
  <2>1. CASE Fresh(prot[k])
    BY <1>2, <1>3, <2>1 DEF LookProtected
  <2>2. CASE ~Fresh(prot[k])
    <3>1. pc[r] = "lookProt"
      BY <1>1, <1>3, <2>2 DEF LookProtected, Found
    <3>2. Goto(r, "lookProb")
      BY <1>3, <2>2, <3>1 DEF LookProtected, NoHit
    <3>3. pc'[r] = "lookProb"
      BY <3>2, GoesTo
    <3>4. Servable(k)
      BY <1>1, <3>1 DEF Found
    <3>5. Probationary
      BY <1>0, <2>2, <3>4, ServableProbation
    <3> QED
      BY <3>3, <3>4, <3>5 DEF Found
  <2> QED
    BY <2>1, <2>2
<1>4. CASE LookProbationary(r)
  <2>1. pc[r] = "lookProb"
    BY <1>4 DEF LookProbationary
  <2>2. Probationary /\ Servable(k)
    BY <1>1, <2>1 DEF Found
  <2>3. CASE Fresh(prob[k])
    <3>1. Goto(r, "lockCand")
      BY <1>4, <2>2, <2>3 DEF LookProbationary, NoHit
    <3>2. pc'[r] = "lockCand"
      BY <3>1, GoesTo
    <3> QED
      BY <2>2, <3>2 DEF Found
  <2>4. CASE ~Fresh(prob[k])
    <3>1. Goto(r, "recheck")
      BY <1>4, <2>2, <2>4 DEF LookProbationary, NoHit
    <3>2. pc'[r] = "recheck"
      BY <3>1, GoesTo
    <3>3. Arriving(k)
      BY <2>2, <2>4 DEF Servable
    <3> QED
      BY <3>2, <3>3 DEF Found
  <2> QED
    BY <2>3, <2>4
<1>5. CASE RecheckHot(r)
  <2>1. pc[r] = "recheck"
    BY <1>5 DEF RecheckHot
  <2>2. Arriving(k)
    BY <1>1, <2>1 DEF Found
  <2>3. IsHot(k)
    BY <1>0, <2>2, ArrivingHot
  <2>4. Goto(r, "flag")
    BY <1>5, <2>3 DEF RecheckHot, NoHit
  <2>5. pc'[r] = "flag"
    BY <2>4, GoesTo
  <2> QED
    BY <2>2, <2>5 DEF Found
<1>6. CASE LoadPromotionFlag(r)
  <2>1. pc[r] = "flag"
    BY <1>6 DEF LoadPromotionFlag
  <2>2. Arriving(k)
    BY <1>1, <2>1 DEF Found
  <2>3. CASE promoting[Stripe(r)]
    <3>1. Goto(r, "lockProt")
      BY <1>6, <2>3 DEF LoadPromotionFlag, TransferRunning, NoHit
    <3>2. pc'[r] = "lockProt"
      BY <3>1, GoesTo
    <3> QED
      BY <2>2, <3>2 DEF Found
  <2>4. CASE ~promoting[Stripe(r)]
    <3>1. Goto(r, "lateProt")
      BY <1>6, <2>4 DEF LoadPromotionFlag, TransferRunning, NoHit
    <3>2. pc'[r] = "lateProt"
      BY <3>1, GoesTo
    <3>3. ~InTransit(k)
      BY <2>4 DEF InTransit, MoveDiscipline, PromotionInv, Stripe
    <3>4. Fresh(prot[k])
      BY <2>2, <3>3 DEF Arriving
    <3> QED
      BY <3>2, <3>4 DEF Found
  <2> QED
    BY <2>3, <2>4
<1>7. CASE LookProtectedLocked(r)
  <2>1. pc[r] = "lockProt" /\ lock[StripeOf[k]] = None
    BY <1>0, <1>7 DEF LookProtectedLocked
  <2>2. Arriving(k) /\ ~InTransit(k)
    BY <1>0, <1>1, <2>1, FreeStripe DEF Found
  <2>3. Fresh(prot[k])
    BY <2>2 DEF Arriving
  <2> QED
    BY <1>2, <1>7, <2>3 DEF LookProtectedLocked
<1>8. CASE TakeStripe(r)
  <2>1. pc[r] = "lockCand" /\ lock[StripeOf[k]] = None
    BY <1>0, <1>8 DEF TakeStripe
  <2>2. Servable(k) /\ ~InTransit(k)
    BY <1>0, <1>1, <2>1, FreeStripe DEF Found
  <2>3. CASE Fresh(prot[k])
    <3>1. IsHot(k)
      BY <1>0, <2>3, ArrivingHot DEF Arriving
    <3> QED
      BY <1>2, <1>8, <2>3, <3>1 DEF TakeStripe
  <2>4. CASE ~Fresh(prot[k])
    <3>1. Fresh(prob[k])
      BY <2>2, <2>4 DEF Servable, Arriving
    <3>2. Goto(r, "admit")
      BY <1>8, <2>4, <3>1 DEF TakeStripe, NoHit
    <3>3. pc'[r] = "admit"
      BY <3>2, GoesTo
    <3> QED
      BY <3>3, FoundElsewhere DEF ReaderPC
  <2> QED
    BY <2>3, <2>4
<1> QED
  BY <1>3, <1>4, <1>5, <1>6, <1>7, <1>8

\* The first step with a key: a copy is found where the lookup begins.
LEMMA ObserveFound ==
  ASSUME TypeOK, Steady, MoveDiscipline, NEW r \in Readers, Observe(r), had'[r]
  PROVE  Found(pc'[r], cur'[r])
<1>1. PICK k \in todo[r] :
        /\ cur' = [cur EXCEPT ![r] = k]
        /\ had' = [had EXCEPT ![r] = \/ track'[k] = "hot" /\ Fresh(prot[k])
                                     \/ track'[k] # "untracked" /\ Fresh(prob[k])]
        /\ \/ PolicyMode[k] = "deny" /\ Goto(r, "miss")
           \/ \E D \in SUBSET Demotable :
                Goto(r, IF D = {} THEN Lookup(k, track'[k] = "hot") ELSE "obs")
  BY DEF Observe
<1>2. k \in Keys /\ PlaceInv(k)
  BY RequestTypes DEF MoveDiscipline
<1>3. cur'[r] = k
  BY <1>1 DEF TypeOK, TypeReader
<1>4. \/ track'[k] = "hot" /\ Fresh(prot[k])
      \/ track'[k] # "untracked" /\ Fresh(prob[k])
  BY <1>1 DEF TypeOK, TypeHistory
<1>5. PolicyMode[k] = "cache"
  <2>1. Present(prot[k]) \/ Present(prob[k])
    BY <1>4 DEF Fresh, Present
  <2> QED
    BY <1>2, <2>1 DEF PlaceInv, CacheKeys
<1>6. Goto(r, Lookup(k, track'[k] = "hot"))
  BY <1>1, <1>5, SteadyEnv
<1>7. Servable(k)
  BY <1>4 DEF Servable, Arriving
<1>8. CASE track'[k] = "hot"
  <2>1. Goto(r, "lookProt")
    BY <1>5, <1>6, <1>8 DEF Lookup
  <2>2. pc'[r] = "lookProt"
    BY <2>1, GoesTo
  <2> QED
    BY <1>3, <1>7, <2>2 DEF Found
<1>9. CASE track'[k] # "hot"
  <2>1. Goto(r, "lookProb")
    BY <1>5, <1>6, <1>9 DEF Lookup
  <2>2. pc'[r] = "lookProb"
    BY <2>1, GoesTo
  <2>3. Present(prob[k])
    BY <1>4, <1>9 DEF Fresh, Present
  <2>4. Probationary
    BY <1>2, <2>3 DEF PlaceInv
  <2> QED
    BY <1>3, <1>7, <2>2, <2>4 DEF Found
<1> QED
  BY <1>8, <1>9

\* The promotion section, and what comes after the lookups.
LEMMA OtherFound ==
  ASSUME TypeOK, MoveDiscipline, NEW r \in Readers, had[r], Untouched(cur[r]),
         ReaderStep(r) \/ ReadTimeout(r),
         ~(LookProtected(r) \/ LookProbationary(r) \/ RecheckHot(r) \/ LoadPromotionFlag(r)),
         ~(LookProtectedLocked(r) \/ TakeStripe(r) \/ Observe(r))
  PROVE  Found(pc'[r], cur[r])
<1>0. /\ r \in Procs /\ cur[r] \in Keys /\ miss[r] \in SUBSET Keys /\ pc \in [Readers -> ReaderPC]
      /\ SteadyInv /\ PromotionInv(r)
  BY RequestTypes DEF TypeOK, TypeReader, MoveDiscipline
<1>1. CASE AdmitCandidate(r) \/ SetPromotionFlag(r) \/ PromoteCandidate(r)
  <2>1. \E label \in {"flagOn", "takeCand", "flagOff"} : Goto(r, label)
    BY <1>1 DEF AdmitCandidate, SetPromotionFlag, PromoteCandidate, NoHit
  <2>2. pc'[r] \in {"flagOn", "takeCand", "flagOff"}
    BY <2>1, GoesTo
  <2> QED
    BY <2>2, FoundElsewhere DEF ReaderPC
<1>2. CASE RemoveCandidate(r)
  <2>1. hot[r]
    BY <1>0, <1>2 DEF RemoveCandidate, PromotionInv, Holding
  <2>2. Goto(r, "promote")
    BY <1>2, <2>1 DEF RemoveCandidate, NoHit
  <2>3. pc'[r] = "promote"
    BY <2>2, GoesTo
  <2> QED
    BY <2>3, FoundElsewhere DEF ReaderPC
<1>3. CASE ClearPromotionFlag(r)
  <2>1. pend[r] = {} /\ Present(cand[r])
    BY <1>0, <1>3 DEF ClearPromotionFlag, PromotionInv, Holding, SteadyInv
  <2>2. Goto(r, AfterKey(r, miss[r]))
    BY <1>3, <2>1 DEF ClearPromotionFlag, AfterPromotion, Hit
  <2>3. pc'[r] \in {"next", "mfetch", "done"}
    BY <1>0, <2>2, GoesTo, Labels
  <2> QED
    BY <2>3, FoundElsewhere DEF ReaderPC
<1>4. CASE HandleObservation(r) \/ HandleAdmission(r)
  BY <1>0, <1>4, NoDemotions DEF HandleObservation, HandleAdmission
<1>5. CASE Miss(r)
  BY <1>5 DEF Miss, MoveDiscipline, FoundInv
<1>6. CASE Join(r) \/ Receive(r) \/ ReadTimeout(r) \/ FetchBypass(r) \/ FetchMissing(r)
           \/ FinishMGet(r)
  <2>1. \E label \in {"wait", "done", "stale", "fill"} : Goto(r, label)
    BY <1>6 DEF Join, Receive, ReadTimeout, FetchBypass, FetchMissing, FinishMGet, NoHit,
         ReadFailed
  <2>2. pc'[r] \in {"wait", "done", "stale", "fill"}
    BY <2>1, GoesTo
  <2> QED
    BY <2>2, FoundElsewhere DEF ReaderPC
<1>7. CASE StaleFallback(r)
  <2>1. Goto(r, "done") \/ (pc' = pc /\ pc[r] = "stale")
    BY <1>7 DEF StaleFallback
  <2>2. pc'[r] \in {"done", "stale"}
    BY <2>1, GoesTo
  <2> QED
    BY <2>2, FoundElsewhere DEF ReaderPC
<1> QED
  BY <1>1, <1>2, <1>3, <1>4, <1>5, <1>6, <1>7 DEF ReaderStep

LEMMA NextFound ==
  ASSUME TypeOK, StripeDiscipline, WriteDiscipline, HotDiscipline, Steady, MoveDiscipline,
         [Next]_vars, NEW q \in Readers
  PROVE  FoundInv(q)'
<1>0. cur[q] \in Keys /\ cur \in [Readers -> Keys]
  BY DEF TypeOK, TypeReader
<1>1. \A k \in Keys : UntouchedAfter(k) => Untouched(k)
  BY UntouchedBefore DEF UntouchedAfter, Untouched
<1>2. SUFFICES ASSUME had'[q], UntouchedAfter(cur'[q])
               PROVE  FoundAfter(pc'[q], cur'[q])
  BY DEF FoundInv, FoundAfter, ServableAfter, ArrivingAfter, UntouchedAfter, Servable, Arriving,
       InTransit, Untouched, Fresh
<1>3. CASE ReaderStep(q) \/ ReadTimeout(q)
  <2>1. \A k \in Keys : CopyKept(k)
    BY <1>3, ReaderCopies
  <2>2. \A k \in Keys : \A label : Found(label, k) => FoundAfter(label, k)
    BY <2>1, FoundLifts
  <2>3. CASE Observe(q)
    <3>1. PICK k \in todo[q] : cur' = [cur EXCEPT ![q] = k]
      BY <2>3 DEF Observe
    <3>2. cur'[q] \in Keys
      BY <1>0, <3>1, RequestTypes
    <3>3. Found(pc'[q], cur'[q])
      BY <1>2, <2>3, ObserveFound
    <3> QED
      BY <2>2, <3>2, <3>3
  <2>4. CASE ~Observe(q)
    <3>1. cur' = cur /\ had' = had
      BY <1>3, <2>4 DEF ReaderStep, HandleObservation, LookProtected, LookProbationary,
           RecheckHot, LoadPromotionFlag, LookProtectedLocked, TakeStripe, AdmitCandidate,
           SetPromotionFlag, RemoveCandidate, PromoteCandidate, ClearPromotionFlag,
           HandleAdmission, Miss, Join, Receive, ReadTimeout, FetchBypass, FetchMissing,
           FinishMGet, StaleFallback, LookupFrame, AnswerFrame
    <3>2. had[q] /\ Untouched(cur[q])
      BY <1>0, <1>1, <1>2, <3>1
    <3>3. Found(pc'[q], cur[q])
      BY <1>3, <2>4, <3>2, LookupFound, OtherFound
    <3> QED
      BY <1>0, <2>2, <3>1, <3>3
  <2> QED
    BY <2>3, <2>4
<1>4. CASE Standing(q)
  <2>1. pc'[q] = pc[q] /\ cur'[q] = cur[q] /\ had[q]
    BY <1>2, <1>4 DEF Standing
  <2>2. Untouched(cur[q])
    BY <1>0, <1>1, <1>2, <2>1
  <2>3. Found(pc[q], cur[q])
    BY <2>1, <2>2 DEF MoveDiscipline, FoundInv, Found
  <2>4. ~Expire(cur[q])
    BY <1>2 DEF Expire
  <2>5. CopyKept(cur[q])
    BY <1>0, <2>2, <2>4, NextCopies
  <2>6. \A k \in Keys : CopyKept(k) => \A label : Found(label, k) => FoundAfter(label, k)
    BY FoundLifts
  <2> QED
    BY <1>0, <2>1, <2>3, <2>5, <2>6
<1> QED
  BY <1>3, <1>4, WhoSteps

LEMMA NextMove ==
  ASSUME TypeOK, StripeDiscipline, WriteDiscipline, HotDiscipline, Steady, MoveDiscipline,
         [Next]_vars
  PROVE  MoveDiscipline'
<1>1. SteadyInv'
  BY NextSteady DEF MoveDiscipline
<1>2. \A k \in Keys : PlaceInv(k)'
  BY NextPlace
<1>3. \A r \in Readers : PromotionInv(r)' /\ PlacementInv(r)' /\ FoundInv(r)'
  BY NextPromotion, NextPlacement, NextFound
<1> QED
  BY <1>1, <1>2, <1>3 DEF MoveDiscipline

LEMMA InitMove ==
  ASSUME Init, Steady
  PROVE  MoveDiscipline
<1>1. SteadyInv
  <2>1. \A a \in Admins : aop[a] \in AdminOps /\ apc[a] = "start"
    BY DEF Init
  <2>2. \A p \in Procs : pend[p] = {} /\ drop[p] = None
    BY DEF Init
  <2>3. \A part \in Parts : ~closed[part]
    BY DEF Init
  <2>4. \A w \in Writers : wpc[w] = "gate" /\ late[w] = FALSE
    BY DEF Init
  <2>5. \A w \in Writers : wpc[w] # "throughStore" /\ ~late[w]
    BY <2>4
  <2> QED
    BY <2>1, <2>2, <2>3, <2>5 DEF SteadyInv, Steady
<1>2. ASSUME NEW k \in Keys
      PROVE  PlaceInv(k)
  <2>1. PICK warm \in SUBSET WarmKeys, candidates \in SUBSET CandidateKeys :
          /\ warm \cap candidates = {}
          /\ track = [j \in Keys |-> IF j \in warm THEN "hot"
                                     ELSE IF j \in candidates THEN "tracked" ELSE "untracked"]
          /\ prot = [j \in Keys |-> IF j \in warm THEN [ver |-> 0, age |-> "fresh"] ELSE NoEntry]
          /\ prob = [j \in Keys |-> IF j \in candidates THEN [ver |-> 0, age |-> "fresh"]
                                    ELSE NoEntry]
    BY DEF Init
  <2>2. NoEntry.age = "none"
    BY SMT DEF NoEntry
  <2>3. Present(prot[k]) => k \in warm
    BY <2>1, <2>2 DEF Present
  <2>4. Present(prob[k]) => k \in candidates
    BY <2>1, <2>2 DEF Present
  <2>5. /\ WarmKeys \cup CandidateKeys \subseteq CacheKeys
        /\ CandidateKeys # {} => Probationary
    BY ServiceAssumption DEF CacheKeys
  <2>6. k \in candidates => track[k] = "tracked"
    BY <2>1
  <2>7. Present(prob[k]) => IsTracked(k) /\ ~IsHot(k)
    BY <2>4, <2>6 DEF IsTracked, IsHot
  <2>8. origin[k] = [ver |-> 0, exists |-> TRUE]
    BY DEF Init
  <2>9. origin[k].exists
    BY SMT, <2>8
  <2> QED
    BY <2>3, <2>4, <2>5, <2>7, <2>9 DEF PlaceInv
<1>3. ASSUME NEW r \in Readers
      PROVE  PromotionInv(r) /\ PlacementInv(r) /\ FoundInv(r)
  <2>1. pc[r] = "next" /\ fpc[r] = "none" /\ ftodo[r] = {}
    BY DEF Init
  <2>2. had[r] = FALSE
    BY DEF Init
  <2> QED
    BY <2>1, <2>2 DEF PromotionInv, PlacementInv, FoundInv, Holding, Reconciling
<1> QED
  BY <1>1, <1>2, <1>3 DEF MoveDiscipline
==============================================================================
