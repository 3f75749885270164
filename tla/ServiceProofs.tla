---------------------------- MODULE ServiceProofs ----------------------------
(***************************************************************************)
(* Proofs about Service, for any number of keys, stripes and requests:     *)
(* every step preserves the types, then StripeDiscipline: what it may put  *)
(* into a tier, and which stripe it holds meanwhile.                       *)
(***************************************************************************)
EXTENDS ServiceInv, TLAPS

\* A leaf goes to Zenon unless it names another prover.
USE Zenon

(***************************************************************************)
(* The operators that stand for the tiers, the tracker and the origin.     *)
(***************************************************************************)
LEMMA WithoutType ==
  ASSUME NEW t \in [Keys -> Entry], NEW k
  PROVE  Without(t, k) \in [Keys -> Entry]
BY DEF Without, Entry, NoEntry

LEMMA AfterGetType ==
  ASSUME NEW t \in [Keys -> Entry], NEW k, NEW keep
  PROVE  AfterGet(t, k, keep) \in [Keys -> Entry]
BY WithoutType DEF AfterGet

LEMMA PutType ==
  ASSUME NEW t \in [Keys -> Entry], NEW shut, NEW k, NEW v \in Nat
  PROVE  Put(t, shut, k, v) \subseteq [Keys -> Entry]
<1> DEFINE Stored(E) == [j \in Keys |-> IF j = k THEN [ver |-> v, age |-> "fresh"]
                                        ELSE IF j \in E THEN NoEntry ELSE t[j]]
<1>1. \A E : Stored(E) \in [Keys -> Entry]
  BY DEF Entry, NoEntry
<1>2. Without(t, k) \in [Keys -> Entry]
  BY WithoutType
<1> QED
  BY SMT, <1>1, <1>2 DEF Put

LEMMA AdvancedType ==
  ASSUME track \in [Keys -> TrackState], NEW D, NEW P
  PROVE  Advanced(D, P) \in [Keys -> TrackState]
BY DEF Advanced, TrackState

LEMMA ObserveWithStateType ==
  ASSUME track \in [Keys -> TrackState], NEW k, NEW D, NEW P
  PROVE  ObserveWithState(k, D, P) \subseteq [Keys -> TrackState]
<1> DEFINE base == Advanced(D, P)
           added == [base EXCEPT ![k] = "tracked"]
<1>1. base \in [Keys -> TrackState]
  BY AdvancedType
<1> HIDE DEF base
<1>2. added \in [Keys -> TrackState]
  BY <1>1 DEF TrackState
<1> HIDE DEF added
<1>3. \A v : [added EXCEPT ![v] = "untracked"] \in [Keys -> TrackState]
  BY <1>2 DEF TrackState
<1> QED
  BY SMT, <1>1, <1>2, <1>3 DEF ObserveWithState, base, added

LEMMA AdmitType ==
  ASSUME track \in [Keys -> TrackState], NEW k, NEW D, NEW P
  PROVE  Admit(k, D, P) \in [Keys -> TrackState]
<1>1. Advanced(D, P) \in [Keys -> TrackState]
  BY AdvancedType
<1> QED
  BY <1>1 DEF Admit, TrackState

LEMMA AppliedType ==
  ASSUME origin \in [Keys -> Value], NEW cmd, NEW K
  PROVE  Applied(cmd, K) \subseteq [Keys -> Value]
<1>1. \A e \in BOOLEAN :
        [k \in Keys |-> IF k \in K THEN [ver |-> origin[k].ver + 1, exists |-> e]
                        ELSE origin[k]] \in [Keys -> Value]
  BY SMT DEF Value
<1> QED
  BY <1>1 DEF Applied
-----------------------------------------------------------------------------
(***************************************************************************)
(* The parts that several actions share.                                   *)
(***************************************************************************)
\* Where a reader stands and what it answered.
AnswerOK == /\ pc \in [Readers -> ReaderPC]
            /\ res \in [Readers -> [Keys -> Nat \cup {NoResult}]]
            /\ out \in [Readers -> {"none", "ok", "error"}]

LEMMA NoHitType ==
  ASSUME TypeReader, NEW r \in Readers, NEW label \in ReaderPC, NoHit(r, label)
  PROVE  AnswerOK'
BY DEF TypeReader, AnswerOK, NoHit, Goto

LEMMA HitType ==
  ASSUME TypeReader, NEW r \in Readers, NEW v \in Nat, Hit(r, v)
  PROVE  AnswerOK'
<1>1. res' \in [Readers -> [Keys -> Nat \cup {NoResult}]]
  BY DEF TypeReader, Hit
<1>2. out' \in [Readers -> {"none", "ok", "error"}]
  BY DEF TypeReader, Hit
<1>3. AfterKey(r, miss[r]) \in ReaderPC
  BY DEF AfterKey, ReaderPC
<1>4. pc' \in [Readers -> ReaderPC]
  BY <1>3 DEF TypeReader, Hit, Goto
<1> QED
  BY <1>1, <1>2, <1>4 DEF AnswerOK

LEMMA AfterPromotionType ==
  ASSUME TypeReader, NEW r \in Readers, NEW D, NEW c \in Entry,
         AfterPromotion(r, D, c)
  PROVE  AnswerOK'
<1>1. c.ver \in Nat /\ "admitted" \in ReaderPC /\ "miss" \in ReaderPC
  BY DEF Entry, ReaderPC
<1>2. NoHit(r, "admitted") \/ NoHit(r, "miss") \/ Hit(r, c.ver)
  BY DEF AfterPromotion
<1> QED
  BY <1>1, <1>2, HitType, NoHitType

LEMMA ReadFailedType ==
  ASSUME TypeReader, NEW r \in Readers, ReadFailed(r)
  PROVE  AnswerOK' /\ todo' \in [Readers -> SUBSET Keys]
<1>1. todo' \in [Readers -> SUBSET Keys]
  BY DEF TypeReader, ReadFailed
<1>2. out' \in [Readers -> {"none", "ok", "error"}]
  BY DEF TypeReader, ReadFailed
<1>3. pc' \in [Readers -> ReaderPC]
  BY DEF TypeReader, ReadFailed, Goto, ReaderPC
<1> QED
  BY <1>1, <1>2, <1>3 DEF AnswerOK, ReadFailed, TypeReader

LEMMA StripeType ==
  ASSUME NEW k \in Keys
  PROVE  StripeOf[k] \in Stripes
BY ServiceAssumption

LEMMA ApplyDemotionType ==
  ASSUME TypeShared, TypeTrans, NEW p \in Procs, ApplyDemotion(p)
  PROVE  /\ prot' \in [Keys -> Entry] /\ prob' \in [Keys -> Entry]
         /\ lock' \in [Stripes -> Procs \cup {None}]
         /\ TypeTrans'
<1>1. CASE \E k \in pend[p] :
             /\ pend' = [pend EXCEPT ![p] = @ \ {k}]
             /\ UNCHANGED <<drop, lock, prot, prob>>
  BY <1>1 DEF TypeShared, TypeTrans
<1>2. CASE \E k \in pend[p] :
             /\ drop' = [drop EXCEPT ![p] = k]
             /\ lock' = [lock EXCEPT ![StripeOf[k]] = p]
             /\ UNCHANGED <<pend, prot, prob>>
  <2>1. PICK k \in pend[p] :
              /\ drop' = [drop EXCEPT ![p] = k]
              /\ lock' = [lock EXCEPT ![StripeOf[k]] = p]
    BY <1>2
  <2>2. k \in Keys
    BY DEF TypeTrans
  <2>3. drop' \in [Procs -> Keys \cup {None}]
    BY <2>1, <2>2 DEF TypeTrans
  <2>4. lock' \in [Stripes -> Procs \cup {None}]
    BY <2>1 DEF TypeShared
  <2>5. UNCHANGED <<pend, prot, prob>>
    BY <1>2
  <2> QED
    BY <2>3, <2>4, <2>5 DEF TypeShared, TypeTrans
<1>3. CASE \E k \in Keys :
             /\ prot' = Without(prot, k) /\ prob' = Without(prob, k)
             /\ pend' = [pend EXCEPT ![p] = @ \ {k}]
             /\ drop' = [drop EXCEPT ![p] = None]
             /\ lock' = [lock EXCEPT ![StripeOf[k]] = None]
  <2>1. PICK k \in Keys :
              /\ prot' = Without(prot, k) /\ prob' = Without(prob, k)
              /\ pend' = [pend EXCEPT ![p] = @ \ {k}]
              /\ drop' = [drop EXCEPT ![p] = None]
              /\ lock' = [lock EXCEPT ![StripeOf[k]] = None]
    BY <1>3
  <2>2. prot' \in [Keys -> Entry] /\ prob' \in [Keys -> Entry]
    BY <2>1, WithoutType DEF TypeShared
  <2>3. lock' \in [Stripes -> Procs \cup {None}]
    BY <2>1 DEF TypeShared
  <2>4. TypeTrans'
    BY <2>1 DEF TypeTrans
  <2> QED
    BY <2>2, <2>3, <2>4
<1> QED
  BY <1>1, <1>2, <1>3 DEF ApplyDemotion

LEMMA FillNextType ==
  ASSUME TypeFill, lock \in [Stripes -> Procs \cup {None}], NEW r \in Readers,
         FillNext(r)
  PROVE  /\ fpc' \in [Readers -> FillPC]
         /\ ftodo' \in [Readers -> SUBSET Keys]
         /\ lock' \in [Stripes -> Procs \cup {None}]
BY DEF TypeFill, FillNext, FillPC

LEMMA ReleaseGatesType ==
  ASSUME TypeShared, TypeWriter, NEW w \in Writers, ReleaseGates(w)
  PROVE  /\ gate' \in [Stripes -> Writers \cup {None}]
         /\ held' \in [Writers -> SUBSET Stripes]
BY DEF TypeShared, TypeWriter, ReleaseGates

LEMMA InvalidateKeyType ==
  ASSUME TypeShared, NEW k \in Keys, NEW bump, InvalidateKey(k, bump)
  PROVE  /\ prot' \in [Keys -> Entry] /\ prob' \in [Keys -> Entry]
         /\ epoch' \in [Stripes -> Nat]
<1>1. prot' \in [Keys -> Entry] /\ prob' \in [Keys -> Entry]
  BY WithoutType DEF TypeShared, InvalidateKey
<1>2. [epoch EXCEPT ![StripeOf[k]] = @ + 1] \in [Stripes -> Nat]
  BY SMT, StripeType DEF TypeShared
<1>3. epoch' \in [Stripes -> Nat]
  BY <1>2 DEF TypeShared, InvalidateKey
<1> QED
  BY <1>1, <1>3

LEMMA SettleType ==
  ASSUME TypeWriter, TypeHistory, NEW w \in Writers, NEW k \in Keys, Settle(w, k)
  PROVE  settled' \in [Keys -> Nat]
BY SMT DEF TypeWriter, TypeHistory, Settle
-----------------------------------------------------------------------------
(***************************************************************************)
(* What is left to show of a step, by the frame the step declares.         *)
(***************************************************************************)
TiersOK == prot \in [Keys -> Entry] /\ prob \in [Keys -> Entry]
LockOK == lock \in [Stripes -> Procs \cup {None}]
GroupOK == group \in [Keys -> Readers \cup {None}]
LookupOK == /\ track \in [Keys -> TrackState] /\ LockOK
            /\ promoting \in [Stripes -> BOOLEAN]
            /\ hot \in [Readers -> BOOLEAN] /\ cand \in [Readers -> Entry]

LEMMA LookupFrameType ==
  ASSUME TypeOK, LookupFrame, TiersOK', LookupOK', AnswerOK', TypeTrans'
  PROVE  TypeOK'
<1>1. TypeShared'
  BY DEF TypeOK, TypeShared, LookupFrame, ReaderFrame, TiersOK, LookupOK, LockOK
<1>2. TypeReader'
  BY DEF TypeOK, TypeReader, LookupFrame, ReaderFrame, LookupOK, AnswerOK
<1>3. TypeFill' /\ TypeWriter' /\ TypeAdmin' /\ TypeHistory'
  BY DEF TypeOK, TypeFill, TypeWriter, TypeAdmin, TypeHistory, LookupFrame,
         ReaderFrame, fillVars, writerVars, adminVars
<1> QED
  BY <1>1, <1>2, <1>3 DEF TypeOK

LEMMA AnswerFrameType ==
  ASSUME TypeOK, AnswerFrame, prot' \in [Keys -> Entry], GroupOK', AnswerOK',
         todo' \in [Readers -> SUBSET Keys], flight' \in [Readers -> Readers],
         TypeFill'
  PROVE  TypeOK'
<1>1. TypeShared'
  BY DEF TypeOK, TypeShared, AnswerFrame, ReaderFrame, GroupOK
<1>2. TypeReader'
  BY DEF TypeOK, TypeReader, AnswerFrame, ReaderFrame, AnswerOK
<1>3. TypeTrans' /\ TypeWriter' /\ TypeAdmin' /\ TypeHistory'
  BY DEF TypeOK, TypeTrans, TypeWriter, TypeAdmin, TypeHistory, AnswerFrame,
         ReaderFrame, transVars, writerVars, adminVars
<1> QED
  BY <1>1, <1>2, <1>3 DEF TypeOK

LEMMA FillFrameType ==
  ASSUME TypeOK, FillFrame, TiersOK', LockOK', GroupOK', TypeFill'
  PROVE  TypeOK'
<1>1. TypeShared'
  BY DEF TypeOK, TypeShared, FillFrame, TiersOK, LockOK, GroupOK
<1>2. TypeReader' /\ TypeTrans' /\ TypeWriter' /\ TypeAdmin' /\ TypeHistory'
  BY DEF TypeOK, TypeReader, TypeTrans, TypeWriter, TypeAdmin, TypeHistory,
         FillFrame, readerVars, transVars, writerVars, adminVars, histVars
<1> QED
  BY <1>1, <1>2 DEF TypeOK

OriginOK == origin \in [Keys -> Value]
GateOK == gate \in [Stripes -> Writers \cup {None}]
AckedOK == acked \in [Keys -> Nat]
EpochOK == epoch \in [Stripes -> Nat]
SettledOK == settled \in [Keys -> Nat]

LEMMA WriterFrameType ==
  ASSUME TypeOK, WriterFrame, OriginOK', TiersOK', EpochOK', LockOK', GateOK',
         GroupOK', SettledOK', AckedOK', TypeWriter'
  PROVE  TypeOK'
<1>1. TypeShared'
  BY DEF TypeOK, TypeShared, WriterFrame, OriginOK, TiersOK, EpochOK, LockOK,
         GateOK, GroupOK
<1>2. TypeReader' /\ TypeTrans' /\ TypeFill' /\ TypeAdmin'
  BY DEF TypeOK, TypeReader, TypeTrans, TypeFill, TypeAdmin, WriterFrame,
         readerVars, transVars, fillVars, adminVars
<1>3. TypeHistory'
  BY DEF TypeOK, TypeHistory, WriterFrame, SettledOK, AckedOK
<1> QED
  BY <1>1, <1>2, <1>3 DEF TypeOK

LEMMA OriginFrameType ==
  ASSUME TypeOK, OriginFrame, OriginOK', GateOK', AckedOK', TypeWriter'
  PROVE  TypeOK'
<1>1. TiersOK' /\ EpochOK' /\ LockOK' /\ GroupOK' /\ SettledOK'
  BY DEF TypeOK, TypeShared, TypeHistory, OriginFrame, TiersOK, EpochOK, LockOK,
         GroupOK, SettledOK
<1> QED
  BY <1>1, WriterFrameType DEF OriginFrame

LEMMA AdminFrameType ==
  ASSUME TypeOK, AdminFrame, TiersOK', closed' \in [Parts -> BOOLEAN],
         track' \in [Keys -> TrackState], EpochOK', LockOK', GroupOK', TypeTrans',
         purged' \in [Keys -> Nat], apc' \in [Admins -> AdminPC],
         alock' \in [Admins -> 0 .. NumStripes]
  PROVE  TypeOK'
<1>1. TypeShared'
  BY DEF TypeOK, TypeShared, AdminFrame, TiersOK, EpochOK, LockOK, GroupOK
<1>2. TypeReader' /\ TypeFill' /\ TypeWriter'
  BY DEF TypeOK, TypeReader, TypeFill, TypeWriter, AdminFrame, readerVars,
         fillVars, writerVars
<1>3. TypeAdmin' /\ TypeHistory'
  BY DEF TypeOK, TypeAdmin, TypeHistory, AdminFrame
<1> QED
  BY <1>1, <1>2, <1>3 DEF TypeOK
-----------------------------------------------------------------------------
(***************************************************************************)
(* Every step keeps the types: reads.                                      *)
(***************************************************************************)
LEMMA ObserveType ==
  ASSUME TypeOK, NEW r \in Readers, Observe(r)
  PROVE  TypeOK'
<1>1. PICK k \in todo[r] :
        /\ todo' = [todo EXCEPT ![r] = @ \ {k}]
        /\ cur' = [cur EXCEPT ![r] = k]
        /\ floor' = [floor EXCEPT ![r][k] = acked[k]]
        /\ IF PolicyMode[k] = "deny"
           THEN /\ Goto(r, "miss")
                /\ hot' = [hot EXCEPT ![r] = FALSE]
                /\ UNCHANGED <<track, pend>>
           ELSE \E D \in SUBSET Demotable : \E P \in SUBSET (Promotable \ D) :
                  /\ track' \in ObserveWithState(k, D, P)
                  /\ pend' = [pend EXCEPT ![r] = D]
                  /\ hot' = [hot EXCEPT ![r] = track'[k] = "hot"]
                  /\ Goto(r, IF D = {} THEN Lookup(k, track'[k] = "hot") ELSE "obs")
        /\ had' = [had EXCEPT ![r] =
                     \/ track'[k] = "hot" /\ Fresh(prot[k])
                     \/ track'[k] # "untracked" /\ Fresh(prob[k])]
  BY DEF Observe
<1>2. k \in Keys
  BY DEF TypeOK, TypeReader
<1>3. /\ track' \in [Keys -> TrackState] /\ pend' \in [Procs -> SUBSET Keys]
      /\ hot' \in [Readers -> BOOLEAN] /\ pc' \in [Readers -> ReaderPC]
  <2>1. CASE PolicyMode[k] = "deny"
    BY <1>1, <2>1 DEF TypeOK, TypeShared, TypeReader, TypeTrans, Goto, ReaderPC
  <2>2. CASE PolicyMode[k] # "deny"
    <3>1. PICK D \in SUBSET Demotable : \E P \in SUBSET (Promotable \ D) :
                 /\ track' \in ObserveWithState(k, D, P)
                 /\ pend' = [pend EXCEPT ![r] = D]
                 /\ hot' = [hot EXCEPT ![r] = track'[k] = "hot"]
                 /\ Goto(r, IF D = {} THEN Lookup(k, track'[k] = "hot") ELSE "obs")
      BY <1>1, <2>2
    <3>2. track' \in [Keys -> TrackState]
      BY <3>1, ObserveWithStateType DEF TypeOK, TypeShared
    <3>3. D \subseteq Keys
      BY DEF Demotable
    <3>4. pend' \in [Procs -> SUBSET Keys]
      BY <3>1, <3>3 DEF TypeOK, TypeTrans
    <3>5. hot' \in [Readers -> BOOLEAN]
      BY <3>1 DEF TypeOK, TypeReader
    <3>6. pc' \in [Readers -> ReaderPC]
      BY <3>1 DEF TypeOK, TypeReader, Goto, Lookup, ReaderPC
    <3> QED
      BY <3>2, <3>4, <3>5, <3>6
  <2> QED
    BY <2>1, <2>2
<1>4. todo' \in [Readers -> SUBSET Keys] /\ cur' \in [Readers -> Keys]
  BY <1>1, <1>2 DEF TypeOK, TypeReader
<1>5. floor' \in [Readers -> [Keys -> Nat]]
  BY <1>1, <1>2 DEF TypeOK, TypeHistory
<1>6. had' \in [Readers -> BOOLEAN]
  BY <1>1 DEF TypeOK, TypeHistory
<1>7. /\ ReaderFrame
      /\ UNCHANGED <<prot, prob, lock, promoting, group, drop, cand, miss, ep, res,
                     out, flight, fillVars>>
  BY DEF Observe
<1>8. TypeShared' /\ TypeReader' /\ TypeTrans'
  BY <1>3, <1>4, <1>7 DEF TypeOK, TypeShared, TypeReader, TypeTrans, ReaderFrame
<1>9. TypeFill' /\ TypeWriter' /\ TypeAdmin' /\ TypeHistory'
  BY <1>5, <1>6, <1>7 DEF TypeOK, TypeFill, TypeWriter, TypeAdmin, TypeHistory,
     ReaderFrame, fillVars, writerVars, adminVars
<1> QED
  BY <1>8, <1>9 DEF TypeOK

LEMMA HandleObservationType ==
  ASSUME TypeOK, NEW r \in Readers, HandleObservation(r)
  PROVE  TypeOK'
<1>1. TiersOK' /\ LockOK' /\ TypeTrans'
  BY ApplyDemotionType DEF HandleObservation, TypeOK, TiersOK, LockOK, Procs
<1>2. LookupOK' /\ LookupFrame
  BY <1>1 DEF HandleObservation, TypeOK, TypeShared, TypeReader, LookupOK
<1>3. AnswerOK'
  BY NoHitType DEF HandleObservation, TypeOK, Lookup, ReaderPC
<1> QED
  BY <1>1, <1>2, <1>3, LookupFrameType

LEMMA LookProtectedType ==
  ASSUME TypeOK, NEW r \in Readers, LookProtected(r) \/ LookProtectedLocked(r)
  PROVE  TypeOK'
<1>1. cur[r] \in Keys /\ prot[cur[r]].ver \in Nat
  BY DEF TypeOK, TypeShared, TypeReader, Entry
<1>2. TiersOK'
  BY SMT, AfterGetType DEF LookProtected, LookProtectedLocked, GetFreshProtected,
     TiersOK, TypeOK, TypeShared
<1>3. LookupFrame /\ LookupOK' /\ TypeTrans'
  BY DEF LookProtected, LookProtectedLocked, TypeOK, TypeShared, TypeReader,
     TypeTrans, LookupOK, LockOK, transVars
<1>4. Hit(r, prot[cur[r]].ver) \/ NoHit(r, "lookProb") \/ NoHit(r, "miss")
  BY DEF LookProtected, LookProtectedLocked
<1>5. AnswerOK'
  BY <1>1, <1>4, HitType, NoHitType DEF TypeOK, ReaderPC
<1> QED
  BY <1>2, <1>3, <1>5, LookupFrameType

LEMMA LookProbationaryType ==
  ASSUME TypeOK, NEW r \in Readers,
         LookProbationary(r) \/ RecheckHot(r) \/ LoadPromotionFlag(r)
  PROVE  TypeOK'
<1>1. TiersOK'
  <2>1. prot' = prot /\ (prob' = prob \/ prob' = AfterGet(prob, cur[r], FALSE))
    BY DEF LookProbationary, RecheckHot, LoadPromotionFlag
  <2>2. AfterGet(prob, cur[r], FALSE) \in [Keys -> Entry]
    BY AfterGetType DEF TypeOK, TypeShared
  <2> QED
    BY <2>1, <2>2 DEF TiersOK, TypeOK, TypeShared
<1>2. LookupFrame /\ LookupOK' /\ TypeTrans'
  BY DEF LookProbationary, RecheckHot, LoadPromotionFlag, TypeOK, TypeShared,
     TypeReader, TypeTrans, LookupOK, LockOK, transVars
<1>3. \E label \in ReaderPC : NoHit(r, label)
  BY DEF LookProbationary, RecheckHot, LoadPromotionFlag, ReaderPC
<1>4. AnswerOK'
  BY <1>3, NoHitType DEF TypeOK
<1> QED
  BY <1>1, <1>2, <1>4, LookupFrameType

LEMMA TakeStripeType ==
  ASSUME TypeOK, NEW r \in Readers, TakeStripe(r)
  PROVE  TypeOK'
<1>1. cur[r] \in Keys /\ prot[cur[r]].ver \in Nat /\ prob[cur[r]] \in Entry
  BY DEF TypeOK, TypeShared, TypeReader, Entry
<1>2. TiersOK'
  <2>1. /\ prot' = prot \/ prot' = AfterGet(prot, cur[r], AllowStale)
        /\ prob' = prob \/ prob' = AfterGet(prob, cur[r], FALSE)
    BY DEF TakeStripe, GetFreshProtected
  <2>2. /\ AfterGet(prot, cur[r], AllowStale) \in [Keys -> Entry]
        /\ AfterGet(prob, cur[r], FALSE) \in [Keys -> Entry]
    BY AfterGetType DEF TypeOK, TypeShared
  <2> QED
    BY <2>1, <2>2 DEF TiersOK, TypeOK, TypeShared
<1>3. LookupFrame /\ UNCHANGED <<track, promoting, hot, transVars>>
  BY DEF TakeStripe
<1>4. cand' = cand \/ cand' = [cand EXCEPT ![r] = prob[cur[r]]]
  BY DEF TakeStripe
<1>5. lock' = lock \/ lock' = [lock EXCEPT ![Stripe(r)] = r]
  BY DEF TakeStripe
<1>6. LookupOK'
  <2>1. cand' \in [Readers -> Entry]
    BY <1>1, <1>4 DEF TypeOK, TypeReader
  <2>2. LockOK'
    BY <1>5 DEF TypeOK, TypeShared, LockOK, Procs
  <2> QED
    BY <2>1, <2>2, <1>3 DEF TypeOK, TypeShared, TypeReader, LookupOK
<1>7. TypeTrans'
  BY <1>3 DEF TypeOK, TypeTrans, transVars
<1>8. Hit(r, prot[cur[r]].ver) \/ NoHit(r, "admit") \/ NoHit(r, "miss")
  BY DEF TakeStripe
<1>9. AnswerOK'
  BY <1>1, <1>8, HitType, NoHitType DEF TypeOK, ReaderPC
<1> QED
  BY <1>2, <1>3, <1>6, <1>7, <1>9, LookupFrameType

LEMMA AdmitCandidateType ==
  ASSUME TypeOK, NEW r \in Readers, AdmitCandidate(r)
  PROVE  TypeOK'
<1>1. PICK D \in SUBSET Demotable : \E P \in SUBSET (Promotable \ D) :
             /\ track' = Admit(cur[r], D, P)
             /\ pend' = [pend EXCEPT ![r] = D]
  BY DEF AdmitCandidate
<1>2. track' \in [Keys -> TrackState]
  BY SMT, <1>1, AdmitType DEF TypeOK, TypeShared
<1>3. D \subseteq Keys
  BY DEF Demotable
<1>4. /\ LookupFrame /\ UNCHANGED <<prot, prob, lock, promoting, drop, cand>>
      /\ hot' = [hot EXCEPT ![r] = track'[cur[r]] = "hot"]
  BY DEF AdmitCandidate
<1>5. TypeTrans'
  BY <1>1, <1>3, <1>4 DEF TypeOK, TypeTrans
<1>6. TiersOK' /\ LookupOK'
  BY <1>2, <1>4 DEF TypeOK, TypeShared, TypeReader, TiersOK, LookupOK, LockOK
<1>7. \E label \in ReaderPC : NoHit(r, label)
  BY DEF AdmitCandidate, ReaderPC
<1>8. AnswerOK'
  BY <1>7, NoHitType DEF TypeOK
<1> QED
  BY <1>4, <1>5, <1>6, <1>8, LookupFrameType

LEMMA SetPromotionFlagType ==
  ASSUME TypeOK, NEW r \in Readers, SetPromotionFlag(r)
  PROVE  TypeOK'
<1>1. LookupFrame /\ TiersOK' /\ LookupOK' /\ TypeTrans'
  BY DEF SetPromotionFlag, TypeOK, TypeShared, TypeReader, TypeTrans, TiersOK,
     LookupOK, LockOK, transVars
<1>2. AnswerOK'
  BY NoHitType DEF SetPromotionFlag, TypeOK, ReaderPC
<1> QED
  BY <1>1, <1>2, LookupFrameType

LEMMA RemoveCandidateType ==
  ASSUME TypeOK, NEW r \in Readers, RemoveCandidate(r)
  PROVE  TypeOK'
<1>1. TiersOK'
  BY WithoutType DEF RemoveCandidate, AfterTaking, TypeOK, TypeShared, TiersOK
<1>2. LookupFrame /\ UNCHANGED <<prot, track, promoting, hot, transVars>>
  BY DEF RemoveCandidate
<1>3. /\ cand' = cand \/ cand' = [cand EXCEPT ![r] = NoEntry]
      /\ lock' = lock \/ lock' = [lock EXCEPT ![Stripe(r)] = None]
  BY DEF RemoveCandidate
<1>4. LookupOK' /\ TypeTrans'
  <2> NoEntry \in Entry
    BY DEF Entry, NoEntry
  <2>1. cand' \in [Readers -> Entry]
    BY <1>3 DEF TypeOK, TypeReader
  <2>2. LockOK'
    BY <1>3 DEF TypeOK, TypeShared, LockOK
  <2> QED
    BY <2>1, <2>2, <1>2 DEF TypeOK, TypeShared, TypeReader, TypeTrans, LookupOK,
       transVars
<1>5. NoHit(r, "promote") \/ AfterPromotion(r, pend[r], NoEntry)
  BY DEF RemoveCandidate
<1>6. NoEntry \in Entry /\ "promote" \in ReaderPC
  BY DEF Entry, NoEntry, ReaderPC
<1>7. AnswerOK'
  BY <1>5, <1>6, NoHitType, AfterPromotionType DEF TypeOK
<1> QED
  BY <1>1, <1>2, <1>4, <1>7, LookupFrameType

LEMMA PromoteCandidateType ==
  ASSUME TypeOK, NEW r \in Readers, PromoteCandidate(r)
  PROVE  TypeOK'
<1>1. cand[r].ver \in Nat
  BY DEF TypeOK, TypeReader, Entry
<1>2. TiersOK'
  BY <1>1, PutType DEF PromoteCandidate, TypeOK, TypeShared, TiersOK
<1>3. LookupFrame /\ UNCHANGED <<prob, track, lock, promoting, hot, transVars>>
  BY DEF PromoteCandidate
<1>4. cand' = [cand EXCEPT ![r] = IF Present(prot'[cur[r]]) THEN @ ELSE NoEntry]
  BY DEF PromoteCandidate
<1>5. LookupOK' /\ TypeTrans'
  BY <1>3, <1>4 DEF TypeOK, TypeShared, TypeReader, TypeTrans, LookupOK, LockOK,
     transVars, Entry, NoEntry
<1>6. AnswerOK'
  BY NoHitType DEF PromoteCandidate, TypeOK, ReaderPC
<1> QED
  BY <1>2, <1>3, <1>5, <1>6, LookupFrameType

LEMMA ClearPromotionFlagType ==
  ASSUME TypeOK, NEW r \in Readers, ClearPromotionFlag(r)
  PROVE  TypeOK'
<1>1. LookupFrame /\ TiersOK' /\ LookupOK' /\ TypeTrans'
  BY DEF ClearPromotionFlag, TypeOK, TypeShared, TypeReader, TypeTrans, TiersOK,
     LookupOK, LockOK, transVars
<1>2. cand[r] \in Entry /\ AfterPromotion(r, pend[r], cand[r])
  BY DEF ClearPromotionFlag, TypeOK, TypeReader
<1>3. AnswerOK'
  BY <1>2, AfterPromotionType DEF TypeOK
<1> QED
  BY <1>1, <1>3, LookupFrameType

LEMMA HandleAdmissionType ==
  ASSUME TypeOK, NEW r \in Readers, HandleAdmission(r)
  PROVE  TypeOK'
<1>1. TiersOK' /\ LockOK' /\ TypeTrans'
  BY ApplyDemotionType DEF HandleAdmission, TypeOK, TiersOK, LockOK, Procs
<1>2. LookupOK' /\ LookupFrame
  BY <1>1 DEF HandleAdmission, TypeOK, TypeShared, TypeReader, LookupOK
<1>3. cand[r] \in Entry /\ AfterPromotion(r, pend'[r], cand[r])
  BY DEF HandleAdmission, TypeOK, TypeReader
<1>4. AnswerOK'
  BY <1>3, AfterPromotionType DEF TypeOK
<1> QED
  BY <1>1, <1>2, <1>4, LookupFrameType

LEMMA MissType ==
  ASSUME TypeOK, NEW r \in Readers, Miss(r)
  PROVE  TypeOK'
<1>1. cur[r] \in Keys /\ epoch[StripeOf[cur[r]]] \in Nat
  BY StripeType DEF TypeOK, TypeShared, TypeReader
<1>2. miss' = [miss EXCEPT ![r] = @ \cup {cur[r]}]
  BY DEF Miss
<1>3. miss' \in [Readers -> SUBSET Keys]
  BY <1>1, <1>2 DEF TypeOK, TypeReader
<1>4. ep' = ep \/ ep' = [ep EXCEPT ![r][cur[r]] = epoch[StripeOf[cur[r]]]]
  BY DEF Miss
<1>5. ep' \in [Readers -> [Keys -> Nat]]
  <2>1. [ep EXCEPT ![r][cur[r]] = epoch[StripeOf[cur[r]]]] \in [Readers -> [Keys -> Nat]]
    BY <1>1 DEF TypeOK, TypeReader
  <2> QED
    BY <2>1, <1>4 DEF TypeOK, TypeReader
<1>6. \E label \in ReaderPC : NoHit(r, label)
  BY DEF Miss, AfterKey, ReaderPC
<1>7. AnswerOK'
  BY <1>6, NoHitType DEF TypeOK
<1>8. /\ ReaderFrame
      /\ UNCHANGED <<prot, prob, track, lock, promoting, group, todo, cur, hot,
                     transVars, cand, flight, fillVars, floor, had>>
  BY DEF Miss
<1>9. TypeShared' /\ TypeTrans' /\ TypeFill' /\ TypeWriter' /\ TypeAdmin' /\ TypeHistory'
  BY <1>8 DEF TypeOK, TypeShared, TypeTrans, TypeFill, TypeWriter, TypeAdmin,
     TypeHistory, ReaderFrame, transVars, fillVars, writerVars, adminVars
<1>10. TypeReader'
  BY <1>3, <1>5, <1>7, <1>8 DEF TypeOK, TypeReader, ReaderFrame, AnswerOK
<1> QED
  BY <1>9, <1>10 DEF TypeOK

LEMMA JoinType ==
  ASSUME TypeOK, NEW r \in Readers, Join(r)
  PROVE  TypeOK'
<1>1. cur[r] \in Keys /\ group[cur[r]] \in Readers \cup {None}
  BY DEF TypeOK, TypeShared, TypeReader
<1>2. \/ /\ group' = [group EXCEPT ![cur[r]] = r]
         /\ flight' = [flight EXCEPT ![r] = r]
         /\ fpc' = [fpc EXCEPT ![r] = "fetch"]
      \/ /\ group[cur[r]] # None
         /\ flight' = [flight EXCEPT ![r] = group[cur[r]]]
         /\ UNCHANGED <<group, fpc>>
  BY DEF Join
<1>3. NoHit(r, "wait") /\ AnswerFrame /\ UNCHANGED <<prot, todo, ftodo, fkey, got, ferr>>
  BY DEF Join
<1>4. GroupOK'
  BY <1>1, <1>2 DEF TypeOK, TypeShared, GroupOK
<1>5. flight' \in [Readers -> Readers]
  BY <1>1, <1>2 DEF TypeOK, TypeReader
<1>6. TypeFill'
  BY <1>2, <1>3 DEF TypeOK, TypeFill, FillPC
<1>7. AnswerOK'
  BY <1>3, NoHitType DEF TypeOK, ReaderPC
<1>8. prot' \in [Keys -> Entry] /\ todo' \in [Readers -> SUBSET Keys]
  BY <1>3 DEF TypeOK, TypeShared, TypeReader
<1> QED
  BY <1>3, <1>4, <1>5, <1>6, <1>7, <1>8, AnswerFrameType

LEMMA ReceiveType ==
  ASSUME TypeOK, NEW r \in Readers, Receive(r)
  PROVE  TypeOK'
<1>1. cur[r] \in Keys /\ got[flight[r]][cur[r]].ver \in Nat
  BY DEF TypeOK, TypeReader, TypeFill, Value
<1>2. AnswerOK' /\ todo' \in [Readers -> SUBSET Keys]
  <2>1. CASE ReadFailed(r)
    BY <2>1, ReadFailedType DEF TypeOK
  <2>2. CASE /\ res' = [res EXCEPT ![r][cur[r]] = got[flight[r]][cur[r]].ver]
             /\ Goto(r, "done")
             /\ out' = [out EXCEPT ![r] = "ok"]
             /\ UNCHANGED todo
    <3>1. res' \in [Readers -> [Keys -> Nat \cup {NoResult}]]
      BY <1>1, <2>2 DEF TypeOK, TypeReader
    <3> QED
      BY <2>2, <3>1 DEF TypeOK, TypeReader, AnswerOK, Goto, ReaderPC
  <2> QED
    BY <2>1, <2>2 DEF Receive
<1>3. AnswerFrame /\ UNCHANGED <<prot, group, flight, fillVars>>
  BY DEF Receive
<1>4. /\ prot' \in [Keys -> Entry] /\ GroupOK' /\ flight' \in [Readers -> Readers]
      /\ TypeFill'
  BY <1>3 DEF TypeOK, TypeShared, TypeReader, TypeFill, GroupOK, fillVars
<1> QED
  BY <1>2, <1>3, <1>4, AnswerFrameType

LEMMA ReadTimeoutType ==
  ASSUME TypeOK, NEW r \in Readers, ReadTimeout(r)
  PROVE  TypeOK'
<1>1. AnswerFrame /\ UNCHANGED <<prot, group, todo, res, flight, fillVars>>
  BY DEF ReadTimeout
<1>2. AnswerOK'
  BY DEF ReadTimeout, TypeOK, TypeReader, AnswerOK, Goto, ReaderPC
<1>3. /\ prot' \in [Keys -> Entry] /\ GroupOK' /\ todo' \in [Readers -> SUBSET Keys]
      /\ flight' \in [Readers -> Readers] /\ TypeFill'
  BY <1>1 DEF TypeOK, TypeShared, TypeReader, TypeFill, GroupOK, fillVars
<1> QED
  BY <1>1, <1>2, <1>3, AnswerFrameType

LEMMA FetchBypassType ==
  ASSUME TypeOK, NEW r \in Readers, FetchBypass(r)
  PROVE  TypeOK'
<1>1. cur[r] \in Keys /\ origin[cur[r]].ver \in Nat
  BY DEF TypeOK, TypeShared, TypeReader, Value
<1>2. /\ res' = res \/ res' = [res EXCEPT ![r][cur[r]] = origin[cur[r]].ver]
      /\ out' = [out EXCEPT ![r] = "ok"] \/ out' = [out EXCEPT ![r] = "error"]
      /\ Goto(r, "done")
  BY DEF FetchBypass
<1>3. res' \in [Readers -> [Keys -> Nat \cup {NoResult}]]
  <2>1. [res EXCEPT ![r][cur[r]] = origin[cur[r]].ver] \in [Readers -> [Keys -> Nat \cup {NoResult}]]
    BY <1>1 DEF TypeOK, TypeReader
  <2> QED
    BY <2>1, <1>2 DEF TypeOK, TypeReader
<1>4. AnswerOK'
  BY <1>2, <1>3 DEF TypeOK, TypeReader, AnswerOK, Goto, ReaderPC
<1>5. AnswerFrame /\ UNCHANGED <<prot, group, todo, flight, fillVars>>
  BY DEF FetchBypass
<1>6. /\ prot' \in [Keys -> Entry] /\ GroupOK' /\ todo' \in [Readers -> SUBSET Keys]
      /\ flight' \in [Readers -> Readers] /\ TypeFill'
  BY <1>5 DEF TypeOK, TypeShared, TypeReader, TypeFill, GroupOK, fillVars
<1> QED
  BY <1>4, <1>5, <1>6, AnswerFrameType

LEMMA FetchMissingType ==
  ASSUME TypeOK, NEW r \in Readers, FetchMissing(r)
  PROVE  TypeOK'
<1> DEFINE G == [k \in Keys |-> IF k \in miss[r] THEN origin[k] ELSE got[r][k]]
           R == [k \in Keys |-> IF k \in miss[r] THEN origin[k].ver ELSE res[r][k]]
           Received ==
             /\ got' = [got EXCEPT ![r] = G]
             /\ res' = [res EXCEPT ![r] = R]
             /\ ftodo' = [ftodo EXCEPT ![r] = miss[r] \cap CacheKeys]
             /\ \E label \in FillPC : fpc' = [fpc EXCEPT ![r] = label]
             /\ Goto(r, "fill")
             /\ UNCHANGED <<todo, out>>
<1>1. AnswerFrame /\ UNCHANGED <<prot, group, flight, fkey, ferr>>
  BY DEF FetchMissing
<1>2. Received \/ (ReadFailed(r) /\ UNCHANGED <<got, ftodo, fpc>>)
  <2>1. got[r] \in [Keys -> Value] /\ res[r] \in [Keys -> Nat \cup {NoResult}]
    BY DEF TypeOK, TypeReader, TypeFill
  <2> QED
    BY <2>1 DEF FetchMissing, FillPC, TypeOK, TypeReader, TypeFill
<1>3. AnswerOK' /\ todo' \in [Readers -> SUBSET Keys] /\ TypeFill'
  <2>1. CASE Received
    <3>1. G \in [Keys -> Value]
      BY SMT DEF TypeOK, TypeShared, TypeFill
    <3>2. R \in [Keys -> Nat \cup {NoResult}]
      BY SMT DEF TypeOK, TypeShared, TypeReader, Value
    <3> HIDE DEF G, R
    <3>3. TypeFill'
      BY SMT, <2>1, <3>1, <1>1 DEF TypeOK, TypeReader, TypeFill
    <3>4. AnswerOK' /\ todo' \in [Readers -> SUBSET Keys]
      BY <2>1, <3>2 DEF TypeOK, TypeReader, AnswerOK, Goto, ReaderPC
    <3> QED
      BY <3>3, <3>4
  <2>2. CASE ReadFailed(r) /\ UNCHANGED <<got, ftodo, fpc>>
    BY <2>2, <1>1, ReadFailedType DEF TypeOK, TypeFill
  <2> QED
    BY <1>2, <2>1, <2>2
<1>4. prot' \in [Keys -> Entry] /\ GroupOK' /\ flight' \in [Readers -> Readers]
  BY <1>1 DEF TypeOK, TypeShared, TypeReader, GroupOK
<1> QED
  BY <1>1, <1>3, <1>4, AnswerFrameType

LEMMA FinishMGetType ==
  ASSUME TypeOK, NEW r \in Readers, FinishMGet(r)
  PROVE  TypeOK'
<1>1. /\ AnswerFrame
      /\ UNCHANGED <<prot, group, todo, res, flight, ftodo, fkey, got, ferr>>
  BY DEF FinishMGet
<1>2. AnswerOK' /\ TypeFill'
  BY DEF FinishMGet, TypeOK, TypeReader, TypeFill, AnswerOK, Goto, ReaderPC, FillPC
<1>3. /\ prot' \in [Keys -> Entry] /\ GroupOK' /\ todo' \in [Readers -> SUBSET Keys]
      /\ flight' \in [Readers -> Readers]
  BY <1>1 DEF TypeOK, TypeShared, TypeReader, GroupOK
<1> QED
  BY <1>1, <1>2, <1>3, AnswerFrameType

LEMMA StaleFallbackType ==
  ASSUME TypeOK, NEW r \in Readers, StaleFallback(r)
  PROVE  TypeOK'
<1>1. PICK k \in todo[r] :
        /\ todo' = [todo EXCEPT ![r] = @ \ {k}]
        /\ res' = res \/ res' = [res EXCEPT ![r][k] = prot[k].ver]
        /\ prot' = prot \/ prot' = Without(prot, k)
        /\ out' = [out EXCEPT ![r] = "ok"] \/ out' = [out EXCEPT ![r] = "error"]
        /\ Goto(r, "done") \/ UNCHANGED pc
  BY DEF StaleFallback, TypeOK, TypeReader
<1>2. k \in Keys /\ prot[k].ver \in Nat
  BY DEF TypeOK, TypeShared, TypeReader, Entry
<1>3. prot' \in [Keys -> Entry]
  BY SMT, <1>1, WithoutType DEF TypeOK, TypeShared
<1>4. todo' \in [Readers -> SUBSET Keys]
  BY <1>1 DEF TypeOK, TypeReader
<1>5. res' \in [Readers -> [Keys -> Nat \cup {NoResult}]]
  <2>1. [res EXCEPT ![r][k] = prot[k].ver] \in [Readers -> [Keys -> Nat \cup {NoResult}]]
    BY <1>2 DEF TypeOK, TypeReader
  <2> QED
    BY <2>1, <1>1 DEF TypeOK, TypeReader
<1>6. AnswerOK'
  BY <1>1, <1>5 DEF TypeOK, TypeReader, AnswerOK, Goto, ReaderPC
<1>7. AnswerFrame /\ UNCHANGED <<group, flight, fillVars>>
  BY DEF StaleFallback
<1>8. GroupOK' /\ flight' \in [Readers -> Readers] /\ TypeFill'
  BY <1>7 DEF TypeOK, TypeShared, TypeReader, TypeFill, GroupOK, fillVars
<1> QED
  BY <1>3, <1>4, <1>6, <1>7, <1>8, AnswerFrameType
-----------------------------------------------------------------------------
(***************************************************************************)
(* Fills.                                                                  *)
(***************************************************************************)
LEMMA FlightFetchType ==
  ASSUME TypeOK, NEW r \in Readers, FlightFetch(r)
  PROVE  TypeOK'
<1>1. cur[r] \in Keys /\ origin[cur[r]] \in Value
  BY DEF TypeOK, TypeShared, TypeReader
<1>2. /\ got' = got \/ got' = [got EXCEPT ![r][cur[r]] = origin[cur[r]]]
      /\ ftodo' = ftodo \/ ftodo' = [ftodo EXCEPT ![r] = {cur[r]}]
      /\ fpc' = [fpc EXCEPT ![r] = "lock"] \/ fpc' = [fpc EXCEPT ![r] = "end"]
      /\ ferr' = ferr \/ ferr' = [ferr EXCEPT ![r] = TRUE]
  BY DEF FlightFetch
<1>3. FillFrame /\ UNCHANGED <<prot, prob, lock, group, fkey>>
  BY DEF FlightFetch
<1>4. got' \in [Readers -> [Keys -> Value]]
  <2>1. [got EXCEPT ![r][cur[r]] = origin[cur[r]]] \in [Readers -> [Keys -> Value]]
    BY <1>1 DEF TypeOK, TypeFill
  <2> QED
    BY <2>1, <1>2 DEF TypeOK, TypeFill
<1>5. ftodo' \in [Readers -> SUBSET Keys]
  BY SMT, <1>1, <1>2 DEF TypeOK, TypeFill
<1>6. fpc' \in [Readers -> FillPC] /\ ferr' \in [Readers -> BOOLEAN]
  BY <1>2 DEF TypeOK, TypeFill, FillPC
<1>7. TypeFill'
  BY <1>3, <1>4, <1>5, <1>6 DEF TypeOK, TypeFill
<1>8. TiersOK' /\ LockOK' /\ GroupOK'
  BY <1>3 DEF TypeOK, TypeShared, TiersOK, LockOK, GroupOK
<1> QED
  BY <1>3, <1>7, <1>8, FillFrameType

LEMMA FillCheckType ==
  ASSUME TypeOK, NEW r \in Readers, FillCheck(r)
  PROVE  TypeOK'
<1>1. PICK k \in ftodo[r] :
        \/ /\ lock' = [lock EXCEPT ![StripeOf[k]] = r]
           /\ fkey' = [fkey EXCEPT ![r] = k]
           /\ fpc' = [fpc EXCEPT ![r] = "drop"]
           /\ UNCHANGED ftodo
        \/ /\ ftodo' = [ftodo EXCEPT ![r] = ftodo[r] \ {k}]
           /\ fpc' = fpc \/ fpc' = [fpc EXCEPT ![r] = "end"]
           /\ UNCHANGED <<lock, fkey>>
  <2>1. PICK k \in ftodo[r] :
          \/ /\ lock' = [lock EXCEPT ![StripeOf[k]] = r]
             /\ fkey' = [fkey EXCEPT ![r] = k]
             /\ fpc' = [fpc EXCEPT ![r] = "drop"]
             /\ UNCHANGED ftodo
          \/ /\ ftodo' = [ftodo EXCEPT ![r] = ftodo[r] \ {k}]
             /\ fpc' = [fpc EXCEPT ![r] = IF ftodo'[r] = {} THEN "end" ELSE fpc[r]]
             /\ UNCHANGED <<lock, fkey>>
    BY DEF FillCheck, AfterRefusal
  <2>2. fpc \in [Readers -> FillPC]
    BY DEF TypeOK, TypeFill
  <2>3. [fpc EXCEPT ![r] = fpc[r]] = fpc
    BY <2>2
  <2> QED
    BY <2>1, <2>3
<1>2. k \in Keys
  BY DEF TypeOK, TypeFill
<1>3. FillFrame /\ UNCHANGED <<prot, prob, group, got, ferr>>
  BY DEF FillCheck
<1>4. ftodo' \in [Readers -> SUBSET Keys] /\ fkey' \in [Readers -> Keys]
  <2>1. ftodo \in [Readers -> SUBSET Keys] /\ fkey \in [Readers -> Keys]
    BY DEF TypeOK, TypeFill
  <2>2. ftodo[r] \ {k} \in SUBSET Keys
    BY <2>1
  <2>3. ftodo' = ftodo \/ ftodo' = [ftodo EXCEPT ![r] = ftodo[r] \ {k}]
    BY <1>1
  <2>4. ftodo' \in [Readers -> SUBSET Keys]
    BY <2>1, <2>2, <2>3
  <2>5. fkey' = fkey \/ fkey' = [fkey EXCEPT ![r] = k]
    BY <1>1
  <2>6. fkey' \in [Readers -> Keys]
    BY <2>1, <2>5, <1>2
  <2> QED
    BY <2>4, <2>6
<1>5. fpc' \in [Readers -> FillPC]
  BY <1>1 DEF TypeOK, TypeFill, FillPC
<1>6. LockOK'
  BY <1>1 DEF TypeOK, TypeShared, LockOK, Procs
<1>7. TypeFill' /\ TiersOK' /\ GroupOK'
  BY <1>3, <1>4, <1>5 DEF TypeOK, TypeShared, TypeFill, TiersOK, GroupOK
<1> QED
  BY <1>3, <1>6, <1>7, FillFrameType

LEMMA FillDropType ==
  ASSUME TypeOK, NEW r \in Readers, FillDrop(r)
  PROVE  TypeOK'
<1>1. FillFrame /\ UNCHANGED <<group, fkey, got, ferr>>
  BY DEF FillDrop
<1>2. /\ prot' = prot \/ prot' = Without(prot, fkey[r])
      /\ prob' = prob \/ prob' = Without(prob, fkey[r])
  BY DEF FillDrop
<1>3. TiersOK'
  BY SMT, <1>2, WithoutType DEF TypeOK, TypeShared, TiersOK
<1>4. \/ FillNext(r)
      \/ /\ \E label \in FillPC : fpc' = [fpc EXCEPT ![r] = label]
         /\ UNCHANGED <<ftodo, lock>>
  BY DEF FillDrop, FillPC
<1>5. /\ fpc' \in [Readers -> FillPC] /\ ftodo' \in [Readers -> SUBSET Keys]
      /\ LockOK'
  BY <1>4, FillNextType DEF TypeOK, TypeShared, TypeFill, LockOK
<1>6. TypeFill' /\ GroupOK'
  BY <1>1, <1>5 DEF TypeOK, TypeShared, TypeFill, GroupOK
<1> QED
  BY <1>1, <1>3, <1>5, <1>6, FillFrameType

LEMMA FillStoreType ==
  ASSUME TypeOK, NEW r \in Readers, FillStore(r)
  PROVE  TypeOK'
<1>1. FillFrame /\ UNCHANGED <<group, fkey, got, ferr>> /\ FillNext(r)
  BY DEF FillStore
<1>2. fkey[r] \in Keys /\ got[r][fkey[r]].ver \in Nat
  BY DEF TypeOK, TypeFill, Value
<1>3. /\ \/ prot' = prot
         \/ prot' \in Put(prot, closed["prot"], fkey[r], got[r][fkey[r]].ver)
      /\ \/ prob' = prob
         \/ prob' \in Put(prob, closed["prob"], fkey[r], got[r][fkey[r]].ver)
  BY DEF FillStore
<1>4. TiersOK'
  BY <1>2, <1>3, PutType DEF TypeOK, TypeShared, TiersOK
<1>5. /\ fpc' \in [Readers -> FillPC] /\ ftodo' \in [Readers -> SUBSET Keys]
      /\ LockOK'
  BY <1>1, FillNextType DEF TypeOK, TypeShared, LockOK
<1>6. TypeFill' /\ GroupOK'
  BY <1>1, <1>5 DEF TypeOK, TypeShared, TypeFill, GroupOK
<1> QED
  BY <1>1, <1>4, <1>5, <1>6, FillFrameType

LEMMA FlightDoneType ==
  ASSUME TypeOK, NEW r \in Readers, FlightDone(r)
  PROVE  TypeOK'
<1>1. FillFrame /\ UNCHANGED <<prot, prob, lock, ftodo, fkey, got, ferr>>
  BY DEF FlightDone
<1>2. group' = group \/ group' = [group EXCEPT ![cur[r]] = None]
  BY DEF FlightDone
<1>3. GroupOK'
  BY <1>2 DEF TypeOK, TypeShared, GroupOK
<1>4. TypeFill'
  BY <1>1 DEF FlightDone, TypeOK, TypeFill, FillPC
<1>5. TiersOK' /\ LockOK'
  BY <1>1 DEF TypeOK, TypeShared, TiersOK, LockOK
<1> QED
  BY <1>1, <1>3, <1>4, <1>5, FillFrameType
-----------------------------------------------------------------------------
(***************************************************************************)
(* Writes.                                                                 *)
(***************************************************************************)
LEMMA AcquireGateType ==
  ASSUME TypeOK, NEW w \in Writers, AcquireGate(w)
  PROVE  TypeOK'
<1>1. PICK s \in NextGate(w) :
        /\ gate' = [gate EXCEPT ![s] = w]
        /\ held' = [held EXCEPT ![w] = @ \cup {s}]
        /\ wpc' = wpc \/ WGoto(w, "pre")
        /\ wtodo' = wtodo \/ wtodo' = [wtodo EXCEPT ![w] = wkeys[w]]
  BY DEF AcquireGate
<1>2. s \in Stripes
  BY StripeType DEF NextGate, Needed, TypeOK, TypeWriter
<1>3. OriginFrame /\ UNCHANGED <<origin, adv, wver, wok, whot, late, tries, acked>>
  BY DEF AcquireGate
<1>4. GateOK'
  BY <1>1 DEF TypeOK, TypeShared, GateOK
<1>5. held' \in [Writers -> SUBSET Stripes]
  BY <1>1, <1>2 DEF TypeOK, TypeWriter
<1>6. wpc' \in [Writers -> WriterPC]
  BY <1>1 DEF TypeOK, TypeWriter, WGoto, WriterPC
<1>7. wtodo' \in [Writers -> SUBSET Keys]
  BY <1>1 DEF TypeOK, TypeWriter
<1>8. TypeWriter' /\ OriginOK' /\ AckedOK'
  BY <1>3, <1>5, <1>6, <1>7 DEF TypeOK, TypeShared, TypeWriter, TypeHistory,
     OriginOK, AckedOK, OriginFrame, WriterFrame
<1> QED
  BY <1>3, <1>4, <1>8, OriginFrameType

LEMMA ReleaseType ==
  ASSUME TypeOK, NEW w \in Writers, GateTimeout(w) \/ Release(w)
  PROVE  TypeOK'
<1>1. /\ OriginFrame
      /\ UNCHANGED <<origin, wtodo, adv, wver, wok, whot, late, tries, acked>>
      /\ ReleaseGates(w)
  BY DEF GateTimeout, Release
<1>2. wpc' \in [Writers -> WriterPC]
  BY DEF GateTimeout, Release, TypeOK, TypeWriter, WGoto, WriterPC
<1>3. GateOK' /\ held' \in [Writers -> SUBSET Stripes]
  BY <1>1, ReleaseGatesType DEF TypeOK, GateOK
<1>4. TypeWriter' /\ OriginOK' /\ AckedOK'
  BY <1>1, <1>2, <1>3 DEF TypeOK, TypeShared, TypeWriter, TypeHistory, OriginOK,
     AckedOK, OriginFrame, WriterFrame
<1> QED
  BY <1>1, <1>3, <1>4, OriginFrameType

LEMMA InvalidateKeysType ==
  ASSUME TypeOK, NEW w \in Writers, InvalidateKeys(w)
  PROVE  TypeOK'
<1>1. PICK k \in wtodo[w] :
        /\ InvalidateKey(k, StripeOf[k] \notin adv[w])
        /\ \/ /\ \E label \in WriterPC : WGoto(w, label)
              /\ wtodo' = [wtodo EXCEPT ![w] = wkeys[w]]
              /\ adv' = [adv EXCEPT ![w] = {}]
           \/ /\ wtodo' = [wtodo EXCEPT ![w] = @ \ {k}]
              /\ adv' = [adv EXCEPT ![w] = @ \cup {StripeOf[k]}]
              /\ UNCHANGED wpc
        /\ Settle(w, k) \/ UNCHANGED settled
  BY DEF InvalidateKeys, WriterPC
<1>2. k \in Keys /\ StripeOf[k] \in Stripes
  BY StripeType DEF TypeOK, TypeWriter
<1>3. /\ WriterFrame
      /\ UNCHANGED <<origin, lock, gate, group, held, wver, wok, whot, late, tries,
                     acked>>
  BY DEF InvalidateKeys
<1>4. TiersOK' /\ EpochOK'
  BY <1>1, <1>2, InvalidateKeyType DEF TypeOK, TiersOK, EpochOK
<1>5. SettledOK'
  BY <1>1, <1>2, SettleType DEF TypeOK, TypeHistory, SettledOK
<1>6. wpc' \in [Writers -> WriterPC]
  BY <1>1 DEF TypeOK, TypeWriter, WGoto
<1>7. wtodo' \in [Writers -> SUBSET Keys]
  <2>1. \E K \in SUBSET Keys : wtodo' = [wtodo EXCEPT ![w] = K]
    BY <1>1 DEF TypeOK, TypeWriter
  <2> QED
    BY <2>1 DEF TypeOK, TypeWriter
<1>8. adv' \in [Writers -> SUBSET Stripes]
  <2>1. \E S \in SUBSET Stripes : adv' = [adv EXCEPT ![w] = S]
    BY SMT, <1>1, <1>2 DEF TypeOK, TypeWriter
  <2> QED
    BY <2>1 DEF TypeOK, TypeWriter
<1>9. TypeWriter'
  BY <1>3, <1>6, <1>7, <1>8 DEF TypeOK, TypeWriter, WriterFrame
<1>10. OriginOK' /\ LockOK' /\ GateOK' /\ GroupOK' /\ AckedOK'
  BY <1>3 DEF TypeOK, TypeShared, TypeHistory, OriginOK, LockOK, GateOK, GroupOK,
     AckedOK
<1> QED
  BY <1>3, <1>4, <1>5, <1>9, <1>10, WriterFrameType

LEMMA DispatchType ==
  ASSUME TypeOK, NEW w \in Writers, Dispatch(w)
  PROVE  TypeOK'
<1>1. OriginOK'
  BY AppliedType DEF Dispatch, TypeOK, TypeShared, OriginOK
<1>2. /\ wver' = [wver EXCEPT ![w] = [k \in Keys |-> IF k \in wkeys[w]
                                             THEN origin'[k].ver ELSE 0]]
      /\ tries' = [tries EXCEPT ![w] = @ + 1]
      /\ WGoto(w, "sent")
      /\ OriginFrame /\ UNCHANGED <<gate, held, wtodo, adv, wok, whot, late, acked>>
  BY DEF Dispatch
<1>3. [k \in Keys |-> IF k \in wkeys[w] THEN origin'[k].ver ELSE 0] \in [Keys -> Nat]
  BY <1>1 DEF OriginOK, Value
<1>4. wver' \in [Writers -> [Keys -> Nat]]
  BY <1>2, <1>3 DEF TypeOK, TypeWriter
<1>5. tries' \in [Writers -> Nat] /\ wpc' \in [Writers -> WriterPC]
  BY SMT, <1>2 DEF TypeOK, TypeWriter, WGoto, WriterPC
<1>6. TypeWriter' /\ GateOK' /\ AckedOK'
  BY <1>2, <1>4, <1>5 DEF TypeOK, TypeShared, TypeWriter, TypeHistory, GateOK,
     AckedOK, OriginFrame, WriterFrame
<1> QED
  BY <1>1, <1>2, <1>6, OriginFrameType

LEMMA ReplyType ==
  ASSUME TypeOK, NEW w \in Writers, Retry(w) \/ WriteReply(w) \/ WriteError(w)
  PROVE  TypeOK'
<1>1. OriginFrame /\ UNCHANGED <<origin, gate, held, wtodo, adv, wver, whot, tries, acked>>
  BY DEF Retry, WriteReply, WriteError
<1>2. wpc' \in [Writers -> WriterPC]
  <2>1. \E v \in {"send", "through", "final"} : wpc' = [wpc EXCEPT ![w] = v]
    BY DEF Retry, WriteReply, WriteError, WGoto
  <2> QED
    BY <2>1 DEF TypeOK, TypeWriter, WriterPC
<1>3. wok' \in [Writers -> BOOLEAN]
  BY DEF Retry, WriteReply, WriteError, TypeOK, TypeWriter
<1>4. late' \in [Writers -> BOOLEAN]
  BY DEF Retry, WriteReply, WriteError, TypeOK, TypeWriter
<1>5. TypeWriter' /\ OriginOK' /\ GateOK' /\ AckedOK'
  BY <1>1, <1>2, <1>3, <1>4 DEF TypeOK, TypeShared, TypeWriter, TypeHistory,
     OriginOK, GateOK, AckedOK, OriginFrame, WriterFrame
<1> QED
  BY <1>1, <1>5, OriginFrameType

LEMMA LateApplyType ==
  ASSUME TypeOK, NEW w \in Writers, LateApply(w)
  PROVE  TypeOK'
<1>1. OriginOK'
  BY AppliedType DEF LateApply, TypeOK, TypeShared, OriginOK
<1>2. /\ OriginFrame
      /\ UNCHANGED <<gate, wpc, held, wtodo, adv, wver, wok, whot, tries, acked>>
      /\ late' = [late EXCEPT ![w] = FALSE]
  BY DEF LateApply
<1>3. TypeWriter' /\ GateOK' /\ AckedOK'
  BY <1>2 DEF TypeOK, TypeShared, TypeWriter, TypeHistory, GateOK, AckedOK,
     OriginFrame, WriterFrame
<1> QED
  BY <1>1, <1>2, <1>3, OriginFrameType

LEMMA WriteThroughType ==
  ASSUME TypeOK, NEW w \in Writers, WriteThrough(w)
  PROVE  TypeOK'
<1>1. PICK k \in wkeys[w] :
        /\ lock' = [lock EXCEPT ![StripeOf[k]] = w]
        /\ epoch' = [epoch EXCEPT ![StripeOf[k]] = @ + 1]
        /\ prob' = Without(prob, k)
        /\ whot' = [whot EXCEPT ![w] = WritesThrough(k)]
  BY DEF WriteThrough
<1>2. StripeOf[k] \in Stripes
  BY StripeType DEF TypeOK, TypeWriter
<1>3. /\ WGoto(w, "throughStore") /\ WriterFrame
      /\ UNCHANGED <<origin, prot, gate, group, held, wtodo, adv, wver, wok, late,
                     tries, settled, acked>>
  BY DEF WriteThrough
<1>4. TiersOK'
  BY <1>1, <1>3, WithoutType DEF TypeOK, TypeShared, TiersOK
<1>5. EpochOK'
  BY SMT, <1>1, <1>2 DEF TypeOK, TypeShared, EpochOK
<1>6. LockOK'
  BY <1>1 DEF TypeOK, TypeShared, LockOK, Procs
<1>7. WritesThrough(k) \in BOOLEAN
  BY DEF WritesThrough
<1>8. wpc' \in [Writers -> WriterPC] /\ whot' \in [Writers -> BOOLEAN]
  BY <1>1, <1>3, <1>7 DEF TypeOK, TypeWriter, WGoto, WriterPC
<1>9. TypeWriter'
  BY <1>3, <1>8 DEF TypeOK, TypeWriter, WriterFrame
<1>10. OriginOK' /\ GateOK' /\ GroupOK' /\ SettledOK' /\ AckedOK'
  BY <1>3 DEF TypeOK, TypeShared, TypeHistory, OriginOK, GateOK, GroupOK, SettledOK,
     AckedOK
<1> QED
  BY <1>3, <1>4, <1>5, <1>6, <1>9, <1>10, WriterFrameType

LEMMA WriteThroughStoreType ==
  ASSUME TypeOK, NEW w \in Writers, WriteThroughStore(w)
  PROVE  TypeOK'
<1>1. PICK k \in wkeys[w] :
        /\ \/ prot' \in Put(prot, closed["prot"], k, wver[w][k])
           \/ prot' = Without(prot, k)
        /\ lock' = [lock EXCEPT ![StripeOf[k]] = None]
        /\ Settle(w, k)
  BY DEF WriteThroughStore
<1>2. k \in Keys /\ wver[w][k] \in Nat
  BY DEF TypeOK, TypeWriter
<1>3. /\ WGoto(w, "forget") /\ WriterFrame
      /\ UNCHANGED <<origin, prob, epoch, gate, group, held, wtodo, adv, wver, wok,
                     whot, late, tries, acked>>
  BY DEF WriteThroughStore
<1>4. prot' \in [Keys -> Entry]
  BY <1>1, <1>2, PutType, WithoutType DEF TypeOK, TypeShared
<1>5. TiersOK'
  BY <1>3, <1>4 DEF TypeOK, TypeShared, TiersOK
<1>6. LockOK' /\ SettledOK'
  BY <1>1, <1>2, SettleType DEF TypeOK, TypeShared, LockOK, SettledOK
<1>7. TypeWriter'
  BY <1>3 DEF TypeOK, TypeWriter, WriterFrame, WGoto, WriterPC
<1>8. OriginOK' /\ EpochOK' /\ GateOK' /\ GroupOK' /\ AckedOK'
  BY <1>3 DEF TypeOK, TypeShared, TypeHistory, OriginOK, EpochOK, GateOK, GroupOK,
     AckedOK
<1> QED
  BY <1>3, <1>5, <1>6, <1>7, <1>8, WriterFrameType

LEMMA ForgetType ==
  ASSUME TypeOK, NEW w \in Writers, Forget(w)
  PROVE  TypeOK'
<1>1. PICK k \in wtodo[w] :
        /\ group' = [group EXCEPT ![k] = None]
        /\ wtodo' = [wtodo EXCEPT ![w] = @ \ {k}]
        /\ WGoto(w, "release") \/ UNCHANGED wpc
  BY DEF Forget, Forgotten
<1>2. /\ WriterFrame
      /\ UNCHANGED <<origin, prot, prob, epoch, lock, gate, held, adv, wver, wok,
                     whot, late, tries, settled, acked>>
  BY DEF Forget
<1>3. GroupOK'
  BY <1>1 DEF TypeOK, TypeShared, GroupOK
<1>4. wtodo' \in [Writers -> SUBSET Keys] /\ wpc' \in [Writers -> WriterPC]
  BY <1>1 DEF TypeOK, TypeWriter, WGoto, WriterPC
<1>5. TypeWriter'
  BY <1>2, <1>4 DEF TypeOK, TypeWriter, WriterFrame
<1>6. /\ OriginOK' /\ TiersOK' /\ EpochOK' /\ LockOK' /\ GateOK' /\ SettledOK'
      /\ AckedOK'
  BY <1>2 DEF TypeOK, TypeShared, TypeHistory, OriginOK, TiersOK, EpochOK, LockOK,
     GateOK, SettledOK, AckedOK
<1> QED
  BY <1>2, <1>3, <1>5, <1>6, WriterFrameType

LEMMA WriteReturnType ==
  ASSUME TypeOK, NEW w \in Writers, WriteReturn(w)
  PROVE  TypeOK'
<1>1. /\ WGoto(w, "done") /\ OriginFrame
      /\ UNCHANGED <<origin, gate, held, wtodo, adv, wver, wok, whot, late, tries>>
      /\ acked' = acked \/ acked' = [k \in Keys |-> Larger(acked[k], wver[w][k])]
  BY DEF WriteReturn
<1>2. [k \in Keys |-> Larger(acked[k], wver[w][k])] \in [Keys -> Nat]
  BY SMT DEF TypeOK, TypeHistory, TypeWriter, Larger
<1>3. AckedOK'
  BY <1>1, <1>2 DEF TypeOK, TypeHistory, AckedOK
<1>4. TypeWriter' /\ OriginOK' /\ GateOK'
  BY <1>1 DEF TypeOK, TypeShared, TypeWriter, OriginOK, GateOK, OriginFrame,
     WriterFrame, WGoto, WriterPC
<1> QED
  BY <1>1, <1>3, <1>4, OriginFrameType
-----------------------------------------------------------------------------
(***************************************************************************)
(* Administrative calls and the environment.                               *)
(***************************************************************************)
LEMMA AdvanceTrackerType ==
  ASSUME TypeOK, NEW a \in Admins, AdvanceTracker(a)
  PROVE  TypeOK'
<1>1. PICK D \in SUBSET Demotable : \E P \in SUBSET (Promotable \ D) :
        /\ track' = Advanced(D, P)
        /\ pend' = [pend EXCEPT ![a] = D]
        /\ AGoto(a, IF D = {} THEN "done" ELSE "apply")
  BY DEF AdvanceTracker
<1>2. track' \in [Keys -> TrackState]
  BY SMT, <1>1, AdvancedType DEF TypeOK, TypeShared
<1>3. D \subseteq Keys
  BY DEF Demotable
<1>4. /\ AdminFrame
      /\ UNCHANGED <<prot, prob, closed, epoch, lock, group, drop, alock, purged>>
  BY DEF AdvanceTracker
<1>5. TypeTrans'
  BY <1>1, <1>3, <1>4 DEF TypeOK, TypeTrans
<1>6. apc' \in [Admins -> AdminPC]
  BY <1>1 DEF TypeOK, TypeAdmin, AGoto, AdminPC
<1>7. /\ TiersOK' /\ closed' \in [Parts -> BOOLEAN] /\ EpochOK' /\ LockOK' /\ GroupOK'
      /\ purged' \in [Keys -> Nat] /\ alock' \in [Admins -> 0 .. NumStripes]
  BY <1>4 DEF TypeOK, TypeShared, TypeHistory, TypeAdmin, TiersOK, EpochOK, LockOK,
     GroupOK
<1> QED
  BY <1>2, <1>4, <1>5, <1>6, <1>7, AdminFrameType

LEMMA HandleTransitionsType ==
  ASSUME TypeOK, NEW a \in Admins, HandleTransitions(a)
  PROVE  TypeOK'
<1>1. TiersOK' /\ LockOK' /\ TypeTrans'
  BY ApplyDemotionType DEF HandleTransitions, TypeOK, TiersOK, LockOK, Procs
<1>2. AdminFrame /\ UNCHANGED <<closed, track, epoch, group, alock, purged>>
  BY DEF HandleTransitions
<1>3. apc' \in [Admins -> AdminPC]
  BY DEF HandleTransitions, TypeOK, TypeAdmin, AGoto, AdminPC
<1>4. /\ closed' \in [Parts -> BOOLEAN] /\ track' \in [Keys -> TrackState]
      /\ EpochOK' /\ GroupOK' /\ purged' \in [Keys -> Nat]
      /\ alock' \in [Admins -> 0 .. NumStripes]
  BY <1>2 DEF TypeOK, TypeShared, TypeHistory, TypeAdmin, EpochOK, GroupOK
<1> QED
  BY <1>1, <1>2, <1>3, <1>4, AdminFrameType

LEMMA PurgeKeyType ==
  ASSUME TypeOK, NEW a \in Admins, PurgeKey(a)
  PROVE  TypeOK'
<1>1. akey[a] \in Keys /\ origin[akey[a]].ver \in Nat
  BY DEF TypeOK, TypeShared, TypeAdmin, Value
<1>2. /\ InvalidateKey(akey[a], TRUE)
      /\ purged' = [purged EXCEPT ![akey[a]] = origin[akey[a]].ver]
      /\ AGoto(a, "forget")
      /\ AdminFrame /\ UNCHANGED <<closed, track, lock, group, transVars, alock>>
  BY DEF PurgeKey
<1>3. TiersOK' /\ EpochOK'
  BY <1>1, <1>2, InvalidateKeyType DEF TypeOK, TiersOK, EpochOK
<1>4. purged' \in [Keys -> Nat]
  BY <1>1, <1>2 DEF TypeOK, TypeHistory
<1>5. apc' \in [Admins -> AdminPC]
  BY <1>2 DEF TypeOK, TypeAdmin, AGoto, AdminPC
<1>6. /\ closed' \in [Parts -> BOOLEAN] /\ track' \in [Keys -> TrackState]
      /\ LockOK' /\ GroupOK' /\ TypeTrans' /\ alock' \in [Admins -> 0 .. NumStripes]
  BY <1>2 DEF TypeOK, TypeShared, TypeTrans, TypeAdmin, LockOK, GroupOK, transVars
<1> QED
  BY <1>2, <1>3, <1>4, <1>5, <1>6, AdminFrameType

LEMMA ForgetPurgedType ==
  ASSUME TypeOK, NEW a \in Admins, ForgetPurged(a)
  PROVE  TypeOK'
<1>1. /\ AdminFrame
      /\ UNCHANGED <<prot, prob, closed, track, epoch, lock, transVars, alock, purged>>
  BY DEF ForgetPurged
<1>2. GroupOK'
  BY DEF ForgetPurged, Forgotten, TypeOK, TypeShared, GroupOK
<1>3. apc' \in [Admins -> AdminPC]
  BY DEF ForgetPurged, TypeOK, TypeAdmin, AGoto, AdminPC
<1>4. /\ TiersOK' /\ closed' \in [Parts -> BOOLEAN] /\ track' \in [Keys -> TrackState]
      /\ EpochOK' /\ LockOK' /\ TypeTrans' /\ purged' \in [Keys -> Nat]
      /\ alock' \in [Admins -> 0 .. NumStripes]
  BY <1>1 DEF TypeOK, TypeShared, TypeTrans, TypeHistory, TypeAdmin, TiersOK,
     EpochOK, LockOK, transVars
<1> QED
  BY <1>1, <1>2, <1>3, <1>4, AdminFrameType

LEMMA LockAllStripesType ==
  ASSUME TypeOK, NEW a \in Admins, LockAllStripes(a)
  PROVE  TypeOK'
<1>1. /\ AdminFrame
      /\ UNCHANGED <<prot, prob, closed, track, epoch, group, transVars, purged>>
      /\ alock[a] < NumStripes
      /\ lock' = [lock EXCEPT ![alock[a]] = a]
      /\ alock' = [alock EXCEPT ![a] = @ + 1]
  BY DEF LockAllStripes
<1>2. LockOK'
  BY <1>1 DEF TypeOK, TypeShared, LockOK, Procs
<1>3. alock[a] + 1 \in 0 .. NumStripes
  BY SMT, <1>1, ServiceAssumption DEF TypeOK, TypeAdmin
<1>4. alock' \in [Admins -> 0 .. NumStripes]
  BY <1>1, <1>3 DEF TypeOK, TypeAdmin
<1>5. apc' \in [Admins -> AdminPC]
  BY DEF LockAllStripes, TypeOK, TypeAdmin, AGoto, AdminPC
<1>6. /\ TiersOK' /\ closed' \in [Parts -> BOOLEAN] /\ track' \in [Keys -> TrackState]
      /\ EpochOK' /\ GroupOK' /\ TypeTrans' /\ purged' \in [Keys -> Nat]
  BY <1>1 DEF TypeOK, TypeShared, TypeTrans, TypeHistory, TiersOK, EpochOK, GroupOK,
     transVars
<1> QED
  BY <1>1, <1>2, <1>4, <1>5, <1>6, AdminFrameType

LEMMA EmptyTierType == [k \in Keys |-> NoEntry] \in [Keys -> Entry]
BY DEF NoEntry, Entry

LEMMA PurgeTierType ==
  ASSUME TypeOK, NEW a \in Admins, PurgeTier(a)
  PROVE  TypeOK'
<1>1. /\ AdminFrame
      /\ UNCHANGED <<closed, track, epoch, lock, group, transVars, alock, purged>>
  BY DEF PurgeTier
<1>2. /\ prot' = prot \/ prot' = [k \in Keys |-> NoEntry]
      /\ prob' = prob \/ prob' = [k \in Keys |-> NoEntry]
  BY DEF PurgeTier
<1>3. TiersOK'
  BY <1>2, EmptyTierType DEF TypeOK, TypeShared, TiersOK
<1>4. apc' \in [Admins -> AdminPC]
  BY DEF PurgeTier, TypeOK, TypeAdmin, AGoto, AdminPC
<1>5. /\ closed' \in [Parts -> BOOLEAN] /\ track' \in [Keys -> TrackState]
      /\ EpochOK' /\ LockOK' /\ GroupOK' /\ TypeTrans' /\ purged' \in [Keys -> Nat]
      /\ alock' \in [Admins -> 0 .. NumStripes]
  BY <1>1 DEF TypeOK, TypeShared, TypeTrans, TypeHistory, TypeAdmin, EpochOK, LockOK,
     GroupOK, transVars
<1> QED
  BY <1>1, <1>3, <1>4, <1>5, AdminFrameType

LEMMA AdvanceEpochsType ==
  ASSUME TypeOK, NEW a \in Admins, AdvanceEpochs(a)
  PROVE  TypeOK'
<1>1. AdminFrame /\ UNCHANGED <<prot, prob, closed, track, group, transVars>>
  BY DEF AdvanceEpochs
<1>2. EpochOK'
  BY SMT DEF AdvanceEpochs, EpochsAdvanced, TypeOK, TypeShared, EpochOK
<1>3. LockOK'
  BY DEF AdvanceEpochs, LockOK
<1>4. apc' \in [Admins -> AdminPC]
  BY DEF AdvanceEpochs, TypeOK, TypeAdmin, AGoto, AdminPC
<1>5. 0 \in 0 .. NumStripes
  BY SMT, ServiceAssumption
<1>6. alock' \in [Admins -> 0 .. NumStripes]
  BY <1>5 DEF AdvanceEpochs, TypeOK, TypeAdmin
<1>7. purged' \in [Keys -> Nat]
  BY DEF AdvanceEpochs, TypeOK, TypeShared, Value
<1>8. /\ TiersOK' /\ closed' \in [Parts -> BOOLEAN] /\ track' \in [Keys -> TrackState]
      /\ GroupOK' /\ TypeTrans'
  BY <1>1 DEF TypeOK, TypeShared, TypeTrans, TiersOK, GroupOK, transVars
<1> QED
  BY <1>1, <1>2, <1>3, <1>4, <1>6, <1>7, <1>8, AdminFrameType

LEMMA CloseServiceType ==
  ASSUME TypeOK, NEW a \in Admins, CloseService(a)
  PROVE  TypeOK'
<1>1. AdminFrame /\ UNCHANGED <<track, epoch, lock, group, transVars, alock, purged>>
  BY DEF CloseService
<1>2. /\ prot' = prot \/ prot' = [k \in Keys |-> NoEntry]
      /\ prob' = prob \/ prob' = [k \in Keys |-> NoEntry]
      /\ \E part \in Parts : closed' = [closed EXCEPT ![part] = TRUE]
      /\ \E label \in AdminPC : AGoto(a, label)
  BY DEF CloseService, AdminPC, Parts
<1>3. TiersOK'
  BY <1>2, EmptyTierType DEF TypeOK, TypeShared, TiersOK
<1>4. closed' \in [Parts -> BOOLEAN]
  BY <1>2 DEF TypeOK, TypeShared
<1>5. apc' \in [Admins -> AdminPC]
  BY <1>2 DEF TypeOK, TypeAdmin, AGoto
<1>6. /\ track' \in [Keys -> TrackState] /\ EpochOK' /\ LockOK' /\ GroupOK'
      /\ TypeTrans' /\ purged' \in [Keys -> Nat]
      /\ alock' \in [Admins -> 0 .. NumStripes]
  BY <1>1 DEF TypeOK, TypeShared, TypeTrans, TypeHistory, TypeAdmin, EpochOK, LockOK,
     GroupOK, transVars
<1> QED
  BY <1>1, <1>3, <1>4, <1>5, <1>6, AdminFrameType

LEMMA EnvironmentType ==
  ASSUME TypeOK, NEW k \in Keys, Expire(k) \/ ExternalWrite(k)
  PROVE  TypeOK'
<1>1. /\ UNCHANGED <<closed, track, epoch, lock, promoting, gate, group>>
      /\ UNCHANGED <<readerVars, transVars, fillVars, writerVars, adminVars>>
      /\ UNCHANGED <<settled, acked, purged, floor>>
      /\ had' = had \/ had' = [r \in Readers |-> had[r] /\ cur[r] # k]
  BY DEF Expire, ExternalWrite, histVars
<1>2. OriginOK'
  <2>1. origin' = origin \/ origin' \in Applied("SET", {k})
    BY DEF Expire, ExternalWrite
  <2> QED
    BY <2>1, AppliedType DEF TypeOK, TypeShared, OriginOK
<1>3. TiersOK'
  <2>1. [prot EXCEPT ![k] = Aged(@)] \in [Keys -> Entry]
    BY SMT DEF TypeOK, TypeShared, Aged, Entry
  <2>2. [prob EXCEPT ![k].age = "dead"] \in [Keys -> Entry]
    BY DEF TypeOK, TypeShared, Entry
  <2>3. /\ prot' = prot \/ prot' = [prot EXCEPT ![k] = Aged(@)]
        /\ prob' = prob \/ prob' = [prob EXCEPT ![k].age = "dead"]
    BY DEF Expire, ExternalWrite
  <2> QED
    BY <2>1, <2>2, <2>3 DEF TypeOK, TypeShared, TiersOK
<1>4. TypeShared'
  BY <1>1, <1>2, <1>3 DEF TypeOK, TypeShared, OriginOK, TiersOK
<1>5. TypeReader' /\ TypeTrans' /\ TypeFill' /\ TypeWriter' /\ TypeAdmin'
  BY <1>1 DEF TypeOK, TypeReader, TypeTrans, TypeFill, TypeWriter, TypeAdmin,
     readerVars, transVars, fillVars, writerVars, adminVars
<1>6. TypeHistory'
  <2>1. [r \in Readers |-> had[r] /\ cur[r] # k] \in [Readers -> BOOLEAN]
    BY Zenon
  <2>2. had' \in [Readers -> BOOLEAN]
    BY <1>1, <2>1 DEF TypeOK, TypeHistory
  <2> QED
    BY <1>1, <2>2 DEF TypeOK, TypeHistory
<1> QED
  BY <1>4, <1>5, <1>6 DEF TypeOK

LEMMA StutterType ==
  ASSUME TypeOK, UNCHANGED vars
  PROVE  TypeOK'
<1>1. TypeShared' /\ TypeReader' /\ TypeTrans'
  BY DEF TypeOK, TypeShared, TypeReader, TypeTrans, vars, sharedVars, readerVars,
     transVars
<1>2. TypeFill' /\ TypeWriter' /\ TypeAdmin' /\ TypeHistory'
  BY DEF TypeOK, TypeFill, TypeWriter, TypeAdmin, TypeHistory, vars, fillVars,
     writerVars, adminVars, histVars
<1> QED
  BY <1>1, <1>2 DEF TypeOK
-----------------------------------------------------------------------------
LEMMA InitType ==
  ASSUME Init
  PROVE  TypeOK
<1>1. PICK k \in Keys : TRUE
  BY ServiceAssumption
<1>2. (CHOOSE j \in Keys : TRUE) \in Keys
  BY <1>1
<1>3. /\ origin \in [Keys -> Value] /\ closed \in [Parts -> BOOLEAN]
      /\ epoch \in [Stripes -> Nat] /\ lock \in [Stripes -> Procs \cup {None}]
      /\ promoting \in [Stripes -> BOOLEAN]
      /\ gate \in [Stripes -> Writers \cup {None}]
      /\ group \in [Keys -> Readers \cup {None}]
  BY DEF Init, Value
<1>4. PICK warm \in SUBSET WarmKeys, candidates \in SUBSET CandidateKeys :
        /\ track = [j \in Keys |-> IF j \in warm THEN "hot"
                                   ELSE IF j \in candidates THEN "tracked" ELSE "untracked"]
        /\ prot = [j \in Keys |-> IF j \in warm THEN [ver |-> 0, age |-> "fresh"] ELSE NoEntry]
        /\ prob = [j \in Keys |-> IF j \in candidates THEN [ver |-> 0, age |-> "fresh"]
                                  ELSE NoEntry]
  BY DEF Init
<1>5. track \in [Keys -> TrackState] /\ prot \in [Keys -> Entry] /\ prob \in [Keys -> Entry]
  BY <1>4 DEF TrackState, Entry, NoEntry
<1>6. cand \in [Readers -> Entry]
  BY DEF Init, Entry, NoEntry
<1>7. TypeShared
  BY <1>3, <1>5, <1>6 DEF TypeShared
<1>8. /\ pc \in [Readers -> ReaderPC] /\ hot \in [Readers -> BOOLEAN]
      /\ cur \in [Readers -> Keys] /\ fkey \in [Readers -> Keys]
      /\ miss \in [Readers -> SUBSET Keys] /\ ep \in [Readers -> [Keys -> Nat]]
      /\ out \in [Readers -> {"none", "ok", "error"}]
      /\ flight \in [Readers -> Readers]
  BY <1>2 DEF Init, ReaderPC
<1>9. res \in [Readers -> [Keys -> Nat \cup {NoResult}]]
  BY DEF Init
<1>10. op \in [Readers -> {"GET", "MGET"}] /\ todo \in [Readers -> SUBSET Keys]
  <2>1. op \in [Readers -> ReadOps] /\ todo \in [Readers -> SUBSET Keys]
    BY DEF Init
  <2>2. ReadOps \subseteq {"GET", "MGET"}
    BY ServiceAssumption
  <2> QED
    BY <2>1, <2>2
<1>11. TypeReader
  BY <1>6, <1>8, <1>9, <1>10 DEF TypeReader
<1>12. TypeTrans
  BY DEF Init, TypeTrans
<1>13. got \in [Readers -> [Keys -> Value]]
  BY DEF Init, Value
<1>14. TypeFill
  BY <1>8, <1>13 DEF Init, TypeFill, FillPC
<1>15. wcmd \in [Writers -> {"SET", "DEL", "OTHER"}] /\ wkeys \in [Writers -> SUBSET Keys]
  <2>1. wcmd \in [Writers -> WriteOps] /\ wkeys \in [Writers -> SUBSET Keys]
    BY DEF Init
  <2>2. WriteOps \subseteq {"SET", "DEL", "OTHER"}
    BY ServiceAssumption
  <2> QED
    BY <2>1, <2>2
<1>16. TypeWriter
  BY <1>15 DEF Init, TypeWriter, WriterPC
<1>17. aop \in [Admins -> {"advance", "purgeKey", "purgeAll", "close"}]
  BY ServiceAssumption DEF Init
<1>18. 0 \in 0 .. NumStripes
  BY SMT, ServiceAssumption
<1>19. TypeAdmin
  BY <1>17, <1>18 DEF Init, TypeAdmin, AdminPC
<1>20. TypeHistory
  BY DEF Init, TypeHistory
<1> QED
  BY <1>7, <1>11, <1>12, <1>14, <1>16, <1>19, <1>20 DEF TypeOK

LEMMA NextType ==
  ASSUME TypeOK, [Next]_vars
  PROVE  TypeOK'
<1>1. ASSUME NEW r \in Readers, ReaderStep(r) \/ ReadTimeout(r)
      PROVE  TypeOK'
  BY <1>1, ObserveType, HandleObservationType, LookProtectedType,
     LookProbationaryType, TakeStripeType, AdmitCandidateType, SetPromotionFlagType,
     RemoveCandidateType, PromoteCandidateType, ClearPromotionFlagType,
     HandleAdmissionType, MissType, JoinType, ReceiveType, ReadTimeoutType,
     FetchBypassType, FetchMissingType, FinishMGetType, StaleFallbackType
     DEF ReaderStep
<1>2. ASSUME NEW r \in Readers, FillStep(r)
      PROVE  TypeOK'
  BY <1>2, FlightFetchType, FillCheckType, FillDropType, FillStoreType, FlightDoneType
     DEF FillStep
<1>3. ASSUME NEW w \in Writers, WriterStep(w) \/ GateTimeout(w) \/ Retry(w) \/ LateApply(w)
      PROVE  TypeOK'
  BY <1>3, AcquireGateType, ReleaseType, InvalidateKeysType, DispatchType, ReplyType,
     LateApplyType, WriteThroughType, WriteThroughStoreType, ForgetType, WriteReturnType
     DEF WriterStep
<1>4. ASSUME NEW a \in Admins, AdminStep(a)
      PROVE  TypeOK'
  BY <1>4, AdvanceTrackerType, HandleTransitionsType, PurgeKeyType, ForgetPurgedType,
     LockAllStripesType, PurgeTierType, AdvanceEpochsType, CloseServiceType
     DEF AdminStep
<1>5. ASSUME Idle \/ UNCHANGED vars
      PROVE  TypeOK'
  BY <1>5, StutterType DEF Idle
<1> QED
  BY <1>1, <1>2, <1>3, <1>4, <1>5, EnvironmentType DEF Next

\* The variables keep their types in every behaviour of the request paths, for
\* any number of keys, stripes and requests: no counter runs below zero, no
\* stripe, gate or flight is owned by a stranger, no request leaves its code.
THEOREM TypeCorrect == Spec => []TypeOK
<1>1. Init => TypeOK
  BY InitType
<1>2. TypeOK /\ [Next]_vars => TypeOK'
  BY NextType
<1> QED
  BY <1>1, <1>2, PTL DEF Spec

(***************************************************************************)
(* Every step preserves StripeDiscipline: what it may put into a tier, and *)
(* which stripe it holds meanwhile.                                        *)
(***************************************************************************)
(***************************************************************************)
(* The order of versions and epochs, in the forms the proofs below need.   *)
(***************************************************************************)
LEMMA Reflexive == \A n \in Nat : n >= n /\ n <= n
BY SMT

LEMMA Transitive == \A l, m, n \in Nat : l <= m /\ n >= m => l <= n
BY SMT

LEMMA Successor == \A n \in Nat : n + 1 >= n /\ n + 1 # n /\ n + 1 >= 1
BY SMT

LEMMA Squeezed == \A l, m, n \in Nat : l <= m /\ n >= m /\ l = n => l = m /\ n = m
BY SMT

LEMMA NoneBelowZero == ~(0 > 0) /\ \A s \in Stripes : ~(s < 0)
BY SMT, ServiceAssumption DEF Stripes

LEMMA StripesBelow == \A s \in Stripes : s < NumStripes
BY SMT, ServiceAssumption DEF Stripes

LEMMA Positive == \A n \in Nat : n >= 1 => n # 0
BY SMT

LEMMA StripeKnown ==
  ASSUME NEW k \in Keys
  PROVE  StripeOf[k] \in Stripes
BY ServiceAssumption

(***************************************************************************)
(* What a step may do to a tier and to the stripes.                        *)
(***************************************************************************)
\* No entry of u is new.
Shrinks(t, u) == \A k \in Keys : Present(u[k]) => Present(t[k]) /\ u[k].ver = t[k].ver

\* A new entry of u belongs to a stripe that p holds.
NewUnderLock(t, u, p) ==
  \A k \in Keys : Present(u[k]) => Present(t[k]) \/ lock[StripeOf[k]] = p

\* Only p's stripes and free ones change hands.
OthersKeep(p) == \A s \in Stripes : lock[s] \notin {None, p} => lock'[s] = lock[s]

LEMMA ShrinksSelf ==
  ASSUME NEW t
  PROVE  Shrinks(t, t)
BY DEF Shrinks

LEMMA WithoutShrinks ==
  ASSUME NEW t \in [Keys -> Entry], NEW k \in Keys
  PROVE  Shrinks(t, Without(t, k)) /\ ~Present(Without(t, k)[k])
BY DEF Shrinks, Without, NoEntry, Present, Entry

LEMMA AfterGetShrinks ==
  ASSUME NEW t \in [Keys -> Entry], NEW k \in Keys, NEW keep
  PROVE  Shrinks(t, AfterGet(t, k, keep))
BY WithoutShrinks, ShrinksSelf DEF AfterGet

LEMMA EmptyShrinks ==
  ASSUME NEW t
  PROVE  Shrinks(t, [k \in Keys |-> NoEntry])
BY DEF Shrinks, NoEntry, Present

\* The entry of k is new, every other one is kept or evicted.
PutsOnly(t, u, k, v) ==
  /\ Present(u[k]) => u[k].ver = v
  /\ \A j \in Keys \ {k} : Present(u[j]) => Present(t[j]) /\ u[j].ver = t[j].ver

LEMMA PutStores ==
  ASSUME NEW t \in [Keys -> Entry], NEW shut, NEW k \in Keys, NEW v \in Nat
  PROVE  \A u \in Put(t, shut, k, v) : PutsOnly(t, u, k, v)
<1> DEFINE Stored(E) == [j \in Keys |-> IF j = k THEN [ver |-> v, age |-> "fresh"]
                                        ELSE IF j \in E THEN NoEntry ELSE t[j]]
<1> TAKE u \in Put(t, shut, k, v)
<1>1. \/ u = Without(t, k) \/ u = Stored({})
      \/ \E E \in SUBSET (Keys \ {k}) : u = Stored(E)
  BY Zenon DEF Put
<1>2. CASE u = Without(t, k)
  BY SMT, <1>2, WithoutShrinks DEF Shrinks, PutsOnly
<1>3. CASE \E E : u = Stored(E)
  BY SMT, <1>3 DEF NoEntry, Present, PutsOnly
<1> HIDE DEF Stored
<1> QED
  BY <1>1, <1>2, <1>3

LEMMA ShrinksNew ==
  ASSUME NEW t, NEW u, NEW p, Shrinks(t, u)
  PROVE  NewUnderLock(t, u, p)
BY DEF Shrinks, NewUnderLock

LEMMA ShrinksKeyInv ==
  ASSUME StripeDiscipline, Shrinks(prot, prot'), Shrinks(prob, prob'),
         UNCHANGED <<origin, settled>>
  PROVE  \A k \in Keys : KeyInv(k)'
BY DEF StripeDiscipline, KeyInv, Shrinks

LEMMA NoneFresh == /\ \A p \in Procs : p # None
                   /\ \A k \in Keys : k # None
                   /\ \A r \in Readers : r \notin Writers /\ r \notin Admins
                   /\ \A w \in Writers : w \notin Admins
BY ServiceAssumption DEF Procs
-----------------------------------------------------------------------------
(***************************************************************************)
(* A step of one process keeps what the invariant says of the others.      *)
(***************************************************************************)
IInv == TypeOK /\ StripeDiscipline

\* A step of the request r, or of the fill that it leads.
Local(r) ==
  /\ UNCHANGED <<origin, epoch, settled, writerVars, adminVars>>
  /\ \A q \in Readers \ {r} :
       /\ pc'[q] = pc[q] /\ cur'[q] = cur[q] /\ cand'[q] = cand[q] /\ ep'[q] = ep[q]
       /\ fpc'[q] = fpc[q] /\ ftodo'[q] = ftodo[q] /\ fkey'[q] = fkey[q]
       /\ got'[q] = got[q]
  /\ \A p \in Procs \ {r} : drop'[p] = drop[p]

LEMMA ReaderKeeps ==
  ASSUME IInv, TypeOK', NEW r \in Readers, Local(r), OthersKeep(r),
         NewUnderLock(prot, prot', r), NewUnderLock(prob, prob', r),
         \A k \in Keys : KeyInv(k)', ReaderInv(r)', FillInv(r)', DropInv(r)'
  PROVE  StripeDiscipline'
<1> USE NoneFresh DEF IInv, StripeDiscipline
<1>1. ASSUME NEW q \in Readers \ {r}
      PROVE  ReaderInv(q)'
  <2>1. cur[q] \in Keys /\ Stripe(q) \in Stripes
    BY StripeKnown DEF TypeOK, TypeReader, Stripe
  <2>2. q \in Procs /\ q # r
    BY DEF Procs
  <2>3. Stripe(q)' = Stripe(q)
    BY <1>1 DEF Local, Stripe
  <2>4. lock[Stripe(q)] = q => lock'[Stripe(q)] = q
    BY <2>1, <2>2 DEF OthersKeep
  <2>5. lock[Stripe(q)] = q /\ ~Present(prob[cur[q]]) => ~Present(prob'[cur[q]])
    BY <2>1, <2>2 DEF NewUnderLock, Stripe
  <2>6. ReaderInv(q)
    OBVIOUS
  <2>7. /\ pc'[q] = pc[q] /\ cur'[q] = cur[q] /\ cand'[q] = cand[q] /\ fpc'[q] = fpc[q]
        /\ drop'[q] = drop[q] /\ settled' = settled
    BY <2>2 DEF Local
  <2> HIDE DEF IInv, StripeDiscipline
  <2> QED
    BY <2>3, <2>4, <2>5, <2>6, <2>7 DEF ReaderInv, Holding
<1>2. ASSUME NEW q \in Readers \ {r}
      PROVE  FillInv(q)'
  <2>1. fkey[q] \in Keys /\ StripeOf[fkey[q]] \in Stripes
    BY StripeKnown DEF TypeOK, TypeFill
  <2>2. q \in Procs /\ q # r
    BY DEF Procs
  <2>3. lock[StripeOf[fkey[q]]] = q => lock'[StripeOf[fkey[q]]] = q
    BY <2>1, <2>2 DEF OthersKeep
  <2>4. lock[StripeOf[fkey[q]]] = q =>
          /\ ~Present(prob[fkey[q]]) => ~Present(prob'[fkey[q]])
          /\ ~Present(prot[fkey[q]]) => ~Present(prot'[fkey[q]])
    BY <2>1, <2>2 DEF NewUnderLock
  <2>5. \A k \in Keys : Storable(q, k)' <=> Storable(q, k)
    BY DEF Storable, Local
  <2>6. \A k \in Keys, w \in Writers : Barrier(w, k)' <=> Barrier(w, k)
    BY DEF Barrier, Local, writerVars
  <2>7. \A k \in Keys : Storable(q, k)' =>
          /\ got'[q][k].ver >= settled'[k]
          /\ \A w \in Writers : Barrier(w, k)' => got'[q][k].ver >= wver'[w][k]
    BY <2>5, <2>6 DEF FillInv, Local, writerVars
  <2>8. /\ fpc'[q] = fpc[q] /\ ftodo'[q] = ftodo[q] /\ fkey'[q] = fkey[q]
        /\ ep'[q] = ep[q] /\ epoch' = epoch
    BY DEF Local
  <2>9. FillInv(q)
    OBVIOUS
  <2> HIDE DEF IInv, StripeDiscipline
  <2> QED
    BY <2>3, <2>4, <2>7, <2>8, <2>9 DEF FillInv, Reconciling
<1>3. ASSUME NEW p \in Procs \ {r}
      PROVE  DropInv(p)'
  <2>1. drop'[p] = drop[p]
    BY DEF Local
  <2>2. drop[p] \in Keys \cup {None}
    BY DEF IInv, TypeOK, TypeTrans
  <2>3. drop[p] # None => StripeOf[drop[p]] \in Stripes
    BY <2>2, StripeKnown
  <2>4. DropInv(p)
    OBVIOUS
  <2> HIDE DEF IInv, StripeDiscipline
  <2> QED
    BY <2>1, <2>3, <2>4 DEF DropInv, OthersKeep
<1>4. ASSUME NEW w \in Writers
      PROVE  WriterInv(w)'
  <2>1. w \in Procs /\ w # r
    BY DEF Procs
  <2>2. \A k \in Keys : lock[StripeOf[k]] = w =>
          /\ lock'[StripeOf[k]] = w
          /\ ~Present(prob[k]) => ~Present(prob'[k])
    BY <2>1, StripeKnown DEF OthersKeep, NewUnderLock
  <2>3. drop'[w] = drop[w] /\ UNCHANGED <<origin, writerVars>>
    BY <2>1 DEF Local
  <2>4. wkeys[w] \subseteq Keys
    BY DEF TypeOK, TypeWriter
  <2>5. WriterInv(w)
    OBVIOUS
  <2> HIDE DEF IInv, StripeDiscipline
  <2> QED
    BY <2>2, <2>3, <2>4, <2>5 DEF WriterInv, writerVars
<1>5. ASSUME NEW a \in Admins
      PROVE  AdminInv(a)'
  <2>1. a \in Procs /\ a # r
    BY DEF Procs
  <2>2. \A s \in Stripes : lock[s] = a => lock'[s] = a
    BY <2>1 DEF OthersKeep
  <2>3. AdminInv(a)
    OBVIOUS
  <2>4. drop'[a] = drop[a] /\ UNCHANGED adminVars
    BY <2>1 DEF Local
  <2> HIDE DEF IInv, StripeDiscipline
  <2> QED
    BY <2>2, <2>3, <2>4 DEF AdminInv, adminVars
<1> QED
  BY <1>1, <1>2, <1>3, <1>4, <1>5
-----------------------------------------------------------------------------
(***************************************************************************)
(* Lookups.                                                                *)
(***************************************************************************)
\* Labels outside the promotion section and the demotion loops.
Loose == {"next", "lookProt", "lookProb", "recheck", "flag", "lockProt", "lateProt",
          "lockCand", "miss", "join", "fetch", "mfetch"}

\* A request that still looks up leads no fill.
LEMMA LookingUp ==
  ASSUME IInv, NEW r \in Readers, pc[r] \notin {"wait", "fill", "stale", "done"}
  PROVE  /\ fpc[r] = "none"
         /\ pc[r] \notin {"obs", "admitted"} => drop[r] = None
BY DEF IInv, StripeDiscipline, ReaderInv

LEMMA HitGoes ==
  ASSUME NEW r \in Readers, NEW v, Hit(r, v)
  PROVE  \E label \in {"next", "mfetch", "done"} : Goto(r, label)
BY DEF Hit, AfterKey

LEMMA AfterPromotionGoes ==
  ASSUME NEW r \in Readers, NEW D, NEW c, AfterPromotion(r, D, c)
  PROVE  /\ \E label \in {"next", "mfetch", "done", "admitted", "miss"} : Goto(r, label)
         /\ D # {} => Goto(r, "admitted")
BY HitGoes DEF AfterPromotion, NoHit

LEMMA GotoSets ==
  ASSUME TypeOK, NEW r \in Readers, NEW label, Goto(r, label)
  PROVE  pc'[r] = label /\ \A q \in Readers \ {r} : pc'[q] = pc[q]
BY DEF TypeOK, TypeReader, Goto

\* A lookup step of r: its frame, and what it may change of its own.
Looks(r) ==
  /\ LookupFrame
  /\ \A q \in Readers \ {r} : pc'[q] = pc[q] /\ cand'[q] = cand[q]
  /\ \A p \in Procs \ {r} : drop'[p] = drop[p]

LEMMA LookupKeeps ==
  ASSUME IInv, TypeOK', NEW r \in Readers, Looks(r), fpc[r] = "none", OthersKeep(r),
         NewUnderLock(prot, prot', r), Shrinks(prob, prob'),
         \A k \in Keys : KeyInv(k)', ReaderInv(r)', DropInv(r)'
  PROVE  StripeDiscipline'
<1>1. UNCHANGED <<origin, epoch, settled, cur, ep, fpc, ftodo, fkey, got, writerVars, adminVars>>
  BY DEF Looks, LookupFrame, ReaderFrame, fillVars
<1>2. Local(r)
  BY <1>1 DEF Looks, Local
<1>3. FillInv(r)'
  BY <1>1 DEF IInv, StripeDiscipline, FillInv, Reconciling, Storable
<1>4. NewUnderLock(prob, prob', r)
  BY ShrinksNew
<1> QED
  BY <1>2, <1>3, <1>4, ReaderKeeps

\* The steps that only read a tier, and drop what they find expired.
LEMMA LookSafe ==
  ASSUME IInv, TypeOK', NEW r \in Readers,
         \/ LookProtected(r) \/ LookProtectedLocked(r) \/ LookProbationary(r)
         \/ RecheckHot(r) \/ LoadPromotionFlag(r)
  PROVE  StripeDiscipline'
<1> USE DEF LookProtected, LookProtectedLocked, LookProbationary, RecheckHot,
            LoadPromotionFlag
<1>1. pc[r] \in {"lookProt", "lateProt", "lockProt", "lookProb", "recheck", "flag"}
  OBVIOUS
<1>2. LookupFrame /\ UNCHANGED <<lock, cand, transVars>>
  OBVIOUS
<1>3. /\ prot' = prot \/ prot' = AfterGet(prot, cur[r], AllowStale)
      /\ prob' = prob \/ prob' = AfterGet(prob, cur[r], FALSE)
  BY DEF GetFreshProtected
<1>4. \E label \in Loose \cup {"done"} : Goto(r, label)
  BY HitGoes DEF NoHit, Loose
<1> USE DEF IInv
<1>5. fpc[r] = "none" /\ drop[r] = None
  BY <1>1, LookingUp
<1>6. cur[r] \in Keys
  BY DEF TypeOK, TypeReader
<1>7. Shrinks(prot, prot') /\ Shrinks(prob, prob')
  <2>1. Shrinks(prot, AfterGet(prot, cur[r], AllowStale))
    BY <1>6, AfterGetShrinks DEF TypeOK, TypeShared
  <2>2. Shrinks(prob, AfterGet(prob, cur[r], FALSE))
    BY <1>6, AfterGetShrinks DEF TypeOK, TypeShared
  <2> QED
    BY <1>3, <2>1, <2>2, ShrinksSelf
<1>8. pc'[r] \notin Holding /\ \A q \in Readers \ {r} : pc'[q] = pc[q]
  BY <1>4, GotoSets DEF Loose, Holding
<1>9. UNCHANGED <<origin, settled, fpc, drop>>
  BY <1>2 DEF LookupFrame, ReaderFrame, fillVars, transVars
<1>10. ReaderInv(r)' /\ DropInv(r)'
  BY <1>5, <1>8, <1>9 DEF ReaderInv, DropInv, Holding
<1>11. Looks(r) /\ OthersKeep(r)
  BY <1>2, <1>8, <1>9 DEF Looks, OthersKeep
<1>12. \A k \in Keys : KeyInv(k)'
  BY <1>7, <1>9, ShrinksKeyInv
<1>13. NewUnderLock(prot, prot', r)
  BY <1>7, ShrinksNew
<1> QED
  BY <1>5, <1>7, <1>10, <1>11, <1>12, <1>13, LookupKeeps

LEMMA TakeStripeSafe ==
  ASSUME IInv, TypeOK', NEW r \in Readers, TakeStripe(r)
  PROVE  StripeDiscipline'
<1> USE DEF IInv
<1>1. fpc[r] = "none" /\ drop[r] = None
  BY LookingUp DEF TakeStripe
<1>2. /\ cur[r] \in Keys /\ Stripe(r) \in Stripes
      /\ lock \in [Stripes -> Procs \cup {None}]
      /\ prot \in [Keys -> Entry] /\ prob \in [Keys -> Entry]
  BY StripeKnown DEF TypeOK, TypeShared, TypeReader, Stripe
<1>3. /\ LookupFrame /\ UNCHANGED transVars /\ lock[Stripe(r)] = None
      /\ prot' = prot \/ prot' = AfterGet(prot, cur[r], AllowStale)
      /\ prob' = prob \/ prob' = AfterGet(prob, cur[r], FALSE)
  BY DEF TakeStripe, GetFreshProtected
<1>4. \/ /\ \E label \in {"next", "mfetch", "done", "miss"} : Goto(r, label)
         /\ UNCHANGED <<cand, lock>>
      \/ /\ Fresh(prob[cur[r]]) /\ Goto(r, "admit")
         /\ cand' = [cand EXCEPT ![r] = prob[cur[r]]]
         /\ lock' = [lock EXCEPT ![Stripe(r)] = r]
  BY HitGoes DEF TakeStripe, NoHit
<1>5. Shrinks(prot, prot') /\ Shrinks(prob, prob')
  <2>1. Shrinks(prot, AfterGet(prot, cur[r], AllowStale))
    BY <1>2, AfterGetShrinks
  <2>2. Shrinks(prob, AfterGet(prob, cur[r], FALSE))
    BY <1>2, AfterGetShrinks
  <2> QED
    BY <1>3, <2>1, <2>2, ShrinksSelf
<1>6. UNCHANGED <<origin, settled, fpc, drop, cur>>
  BY <1>3 DEF LookupFrame, ReaderFrame, fillVars, transVars
<1>7. OthersKeep(r)
  BY <1>2, <1>3, <1>4 DEF OthersKeep
<1>8. Looks(r)
  BY SMT, <1>3, <1>4, <1>6, GotoSets DEF Looks, TypeOK, TypeReader
<1>9. ReaderInv(r)' /\ DropInv(r)'
  <2>1. CASE \E label \in {"next", "mfetch", "done", "miss"} : Goto(r, label)
    BY <2>1, <1>1, <1>6, GotoSets DEF ReaderInv, DropInv, Holding
  <2>2. CASE /\ Fresh(prob[cur[r]]) /\ Goto(r, "admit")
             /\ cand' = [cand EXCEPT ![r] = prob[cur[r]]]
             /\ lock' = [lock EXCEPT ![Stripe(r)] = r]
    <3>1. pc'[r] = "admit"
      BY <2>2, GotoSets
    <3>2. cand'[r] = prob[cur[r]]
      BY <2>2 DEF TypeOK, TypeReader
    <3>3. prob[cur[r]].ver >= settled[cur[r]]
      BY <1>2, <2>2 DEF StripeDiscipline, KeyInv, Fresh, Present
    <3>4. lock'[Stripe(r)'] = r
      BY <2>2, <1>2, <1>6 DEF Stripe
    <3> QED
      BY <3>1, <3>2, <3>3, <3>4, <1>1, <1>6 DEF ReaderInv, DropInv
  <2> QED
    BY <1>4, <2>1, <2>2
<1>10. \A k \in Keys : KeyInv(k)'
  BY <1>5, <1>6, ShrinksKeyInv
<1>11. NewUnderLock(prot, prot', r)
  BY <1>5, ShrinksNew
<1> QED
  BY <1>1, <1>5, <1>7, <1>8, <1>9, <1>10, <1>11, LookupKeeps

LEMMA ApplyDemotionSafe ==
  ASSUME IInv, NEW p \in Procs, ApplyDemotion(p)
  PROVE  /\ Shrinks(prot, prot') /\ Shrinks(prob, prob') /\ OthersKeep(p)
         /\ DropInv(p)' /\ (drop'[p] # None => pend'[p] # {})
         /\ \A q \in Procs \ {p} : drop'[q] = drop[q]
<1> USE DEF IInv
<1>1. /\ lock \in [Stripes -> Procs \cup {None}] /\ drop \in [Procs -> Keys \cup {None}]
      /\ pend \in [Procs -> SUBSET Keys]
      /\ prot \in [Keys -> Entry] /\ prob \in [Keys -> Entry]
  BY DEF TypeOK, TypeShared, TypeTrans
<1>2. ASSUME NEW k \in pend[p], drop[p] = None, lock[StripeOf[k]] = None,
             UNCHANGED <<prot, prob>>,
             \/ /\ drop' = [drop EXCEPT ![p] = k]
                /\ lock' = [lock EXCEPT ![StripeOf[k]] = p]
                /\ UNCHANGED pend
             \/ UNCHANGED <<drop, lock>>
      PROVE  /\ Shrinks(prot, prot') /\ Shrinks(prob, prob') /\ OthersKeep(p)
             /\ DropInv(p)' /\ (drop'[p] # None => pend'[p] # {})
             /\ \A q \in Procs \ {p} : drop'[q] = drop[q]
  <2>1. StripeOf[k] \in Stripes
    BY <1>1, StripeKnown
  <2>2. Shrinks(prot, prot') /\ Shrinks(prob, prob')
    BY <1>2, ShrinksSelf
  <2> QED
    BY <1>1, <1>2, <2>1, <2>2 DEF OthersKeep, DropInv
<1>3. ASSUME NEW k \in Keys, drop[p] = k,
             prot' = Without(prot, k), prob' = Without(prob, k),
             drop' = [drop EXCEPT ![p] = None],
             lock' = [lock EXCEPT ![StripeOf[k]] = None]
      PROVE  /\ Shrinks(prot, prot') /\ Shrinks(prob, prob') /\ OthersKeep(p)
             /\ DropInv(p)' /\ (drop'[p] # None => pend'[p] # {})
             /\ \A q \in Procs \ {p} : drop'[q] = drop[q]
  <2>1. lock[StripeOf[k]] = p
    BY <1>3, NoneFresh DEF StripeDiscipline, DropInv
  <2>2. Shrinks(prot, prot') /\ Shrinks(prob, prob')
    BY <1>1, <1>3, WithoutShrinks
  <2> QED
    BY <1>1, <1>3, <2>1, <2>2, StripeKnown DEF OthersKeep, DropInv
<1> QED
  BY <1>2, <1>3 DEF ApplyDemotion

LEMMA HandleObservationSafe ==
  ASSUME IInv, TypeOK', NEW r \in Readers, HandleObservation(r)
  PROVE  StripeDiscipline'
<1> USE DEF IInv
<1>1. fpc[r] = "none"
  BY LookingUp DEF HandleObservation
<1>2. ApplyDemotion(r) /\ r \in Procs
  BY DEF HandleObservation, Procs
<1>3. LookupFrame /\ UNCHANGED cand
  BY DEF HandleObservation
<1>4. /\ \E label \in {"miss", "lookProt", "lookProb", "obs"} : Goto(r, label)
      /\ pend'[r] # {} => Goto(r, "obs")
  BY DEF HandleObservation, NoHit, Lookup
<1>5. UNCHANGED <<origin, settled, fpc>>
  BY <1>3 DEF LookupFrame, ReaderFrame, fillVars
<1>6. /\ Shrinks(prot, prot') /\ Shrinks(prob, prob') /\ OthersKeep(r) /\ DropInv(r)'
      /\ drop'[r] # None => pend'[r] # {}
      /\ \A q \in Procs \ {r} : drop'[q] = drop[q]
  BY <1>2, ApplyDemotionSafe
<1>7. Looks(r)
  BY <1>3, <1>4, <1>6, GotoSets DEF Looks
<1>8. ReaderInv(r)'
  BY <1>1, <1>4, <1>5, <1>6, GotoSets DEF ReaderInv, Holding
<1>9. (\A k \in Keys : KeyInv(k)') /\ NewUnderLock(prot, prot', r)
  BY <1>5, <1>6, ShrinksKeyInv, ShrinksNew
<1> QED
  BY <1>1, <1>6, <1>7, <1>8, <1>9, LookupKeeps

LEMMA HandleAdmissionSafe ==
  ASSUME IInv, TypeOK', NEW r \in Readers, HandleAdmission(r)
  PROVE  StripeDiscipline'
<1> USE DEF IInv
<1>1. fpc[r] = "none"
  BY LookingUp DEF HandleAdmission
<1>2. ApplyDemotion(r) /\ r \in Procs
  BY DEF HandleAdmission, Procs
<1>3. LookupFrame /\ UNCHANGED cand /\ AfterPromotion(r, pend'[r], cand[r])
  BY DEF HandleAdmission
<1>4. /\ \E label \in {"next", "mfetch", "done", "admitted", "miss"} : Goto(r, label)
      /\ pend'[r] # {} => Goto(r, "admitted")
  BY <1>3, AfterPromotionGoes
<1>5. UNCHANGED <<origin, settled, fpc>>
  BY <1>3 DEF LookupFrame, ReaderFrame, fillVars
<1>6. /\ Shrinks(prot, prot') /\ Shrinks(prob, prob') /\ OthersKeep(r) /\ DropInv(r)'
      /\ drop'[r] # None => pend'[r] # {}
      /\ \A q \in Procs \ {r} : drop'[q] = drop[q]
  BY <1>2, ApplyDemotionSafe
<1>7. Looks(r)
  BY <1>3, <1>4, <1>6, GotoSets DEF Looks
<1>8. ReaderInv(r)'
  BY <1>1, <1>4, <1>5, <1>6, GotoSets DEF ReaderInv, Holding
<1>9. (\A k \in Keys : KeyInv(k)') /\ NewUnderLock(prot, prot', r)
  BY <1>5, <1>6, ShrinksKeyInv, ShrinksNew
<1> QED
  BY <1>1, <1>6, <1>7, <1>8, <1>9, LookupKeeps

\* Inside the promotion section.
LEMMA AdmitSafe ==
  ASSUME IInv, TypeOK', NEW r \in Readers, AdmitCandidate(r) \/ SetPromotionFlag(r)
  PROVE  StripeDiscipline'
<1> USE DEF IInv
<1>1. pc[r] \in {"admit", "flagOn"}
  BY DEF AdmitCandidate, SetPromotionFlag
<1>2. fpc[r] = "none" /\ drop[r] = None
  BY <1>1, LookingUp
<1>3. /\ LookupFrame /\ UNCHANGED <<prot, prob, lock, drop, cand>>
      /\ \E label \in {"flagOn", "takeCand"} : Goto(r, label)
  BY DEF AdmitCandidate, SetPromotionFlag, NoHit, transVars
<1>4. UNCHANGED <<origin, settled, fpc, cur>>
  BY <1>3 DEF LookupFrame, ReaderFrame, fillVars
<1>5. Looks(r) /\ OthersKeep(r)
  BY <1>3, GotoSets DEF Looks, OthersKeep
<1>6. ReaderInv(r)' /\ DropInv(r)'
  BY <1>1, <1>2, <1>3, <1>4, GotoSets DEF StripeDiscipline, ReaderInv, DropInv,
     Holding, Stripe
<1>7. Shrinks(prot, prot') /\ Shrinks(prob, prob')
  BY <1>3, ShrinksSelf
<1>8. (\A k \in Keys : KeyInv(k)') /\ NewUnderLock(prot, prot', r)
  BY <1>4, <1>7, ShrinksKeyInv, ShrinksNew
<1> QED
  BY <1>2, <1>5, <1>6, <1>7, <1>8, LookupKeeps

LEMMA RemoveCandidateSafe ==
  ASSUME IInv, TypeOK', NEW r \in Readers, RemoveCandidate(r)
  PROVE  StripeDiscipline'
<1> USE DEF IInv
<1>1. /\ pc[r] = "takeCand" /\ LookupFrame /\ UNCHANGED <<prot, transVars>>
      /\ prob' = Without(prob, cur[r])
  BY DEF RemoveCandidate, AfterTaking
<1>2. fpc[r] = "none" /\ drop[r] = None
  BY <1>1, LookingUp
<1>3. /\ lock[Stripe(r)] = r /\ cand[r].ver >= settled[cur[r]]
      /\ cur[r] \in Keys /\ Stripe(r) \in Stripes
      /\ lock \in [Stripes -> Procs \cup {None}] /\ cand \in [Readers -> Entry]
      /\ prob \in [Keys -> Entry]
  BY <1>1, StripeKnown DEF StripeDiscipline, ReaderInv, Holding, TypeOK, TypeShared,
     TypeReader, Stripe
<1>4. \/ Goto(r, "promote") /\ UNCHANGED <<cand, lock>>
      \/ /\ cand' = [cand EXCEPT ![r] = NoEntry]
         /\ lock' = [lock EXCEPT ![Stripe(r)] = None]
         /\ \E label \in {"next", "mfetch", "done", "admitted", "miss"} : Goto(r, label)
  BY AfterPromotionGoes DEF RemoveCandidate, NoHit
<1>5. UNCHANGED <<origin, settled, fpc, cur, drop>>
  BY <1>1 DEF LookupFrame, ReaderFrame, fillVars, transVars
<1>6. /\ Shrinks(prot, prot') /\ Shrinks(prob, prob') /\ ~Present(prob'[cur[r]])
  BY <1>1, <1>3, WithoutShrinks, ShrinksSelf
<1>7. OthersKeep(r)
  BY <1>3, <1>4 DEF OthersKeep
<1>8. Looks(r)
  BY <1>1, <1>3, <1>4, <1>5, GotoSets DEF Looks
<1>9. ReaderInv(r)' /\ DropInv(r)'
  BY <1>2, <1>3, <1>4, <1>5, <1>6, GotoSets DEF ReaderInv, DropInv, Holding, Stripe
<1>10. (\A k \in Keys : KeyInv(k)') /\ NewUnderLock(prot, prot', r)
  BY <1>5, <1>6, ShrinksKeyInv, ShrinksNew
<1> QED
  BY <1>2, <1>6, <1>7, <1>8, <1>9, <1>10, LookupKeeps

LEMMA PromoteCandidateSafe ==
  ASSUME IInv, TypeOK', NEW r \in Readers, PromoteCandidate(r)
  PROVE  StripeDiscipline'
<1> USE DEF IInv
<1>1. /\ pc[r] = "promote" /\ LookupFrame /\ UNCHANGED <<prob, lock, transVars>>
      /\ prot' \in Put(prot, closed["prot"], cur[r], cand[r].ver)
      /\ Goto(r, "flagOff")
      /\ cand' = [cand EXCEPT ![r] = IF Present(prot'[cur[r]]) THEN @ ELSE NoEntry]
  BY DEF PromoteCandidate, NoHit
<1>2. fpc[r] = "none" /\ drop[r] = None
  BY <1>1, LookingUp
<1>3. /\ lock[Stripe(r)] = r /\ cand[r].ver >= settled[cur[r]]
      /\ ~Present(prob[cur[r]])
  BY <1>1 DEF StripeDiscipline, ReaderInv, Holding
<1>4. cur[r] \in Keys /\ cand[r].ver \in Nat /\ prot \in [Keys -> Entry]
  BY DEF TypeOK, TypeShared, TypeReader, Entry
<1>5. PutsOnly(prot, prot', cur[r], cand[r].ver)
  BY <1>1, <1>4, PutStores
<1>6. UNCHANGED <<origin, settled, fpc, cur, drop>>
  BY <1>1 DEF LookupFrame, ReaderFrame, fillVars, transVars
<1>7. NewUnderLock(prot, prot', r) /\ Shrinks(prob, prob')
  BY <1>1, <1>3, <1>5, ShrinksSelf DEF NewUnderLock, Stripe, PutsOnly
<1>8. ASSUME NEW k \in Keys
      PROVE  KeyInv(k)'
  BY ZenonT(30), <1>1, <1>3, <1>5, <1>6 DEF StripeDiscipline, KeyInv, PutsOnly
<1>9. Looks(r) /\ OthersKeep(r)
  BY SMTT(30), <1>1, <1>6, GotoSets DEF Looks, OthersKeep, TypeOK, TypeReader
<1>10. ReaderInv(r)' /\ DropInv(r)'
  BY <1>1, <1>2, <1>3, <1>6, GotoSets DEF ReaderInv, DropInv, Stripe
<1> QED
  BY <1>2, <1>7, <1>8, <1>9, <1>10, LookupKeeps

LEMMA ClearPromotionFlagSafe ==
  ASSUME IInv, TypeOK', NEW r \in Readers, ClearPromotionFlag(r)
  PROVE  StripeDiscipline'
<1> USE DEF IInv
<1>1. /\ pc[r] = "flagOff" /\ LookupFrame /\ UNCHANGED <<prot, prob, transVars, cand>>
      /\ lock' = [lock EXCEPT ![Stripe(r)] = None]
      /\ \E label \in {"next", "mfetch", "done", "admitted", "miss"} : Goto(r, label)
  BY AfterPromotionGoes DEF ClearPromotionFlag
<1>2. fpc[r] = "none" /\ drop[r] = None
  BY <1>1, LookingUp
<1>3. lock[Stripe(r)] = r /\ lock \in [Stripes -> Procs \cup {None}]
  BY <1>1 DEF StripeDiscipline, ReaderInv, Holding, TypeOK, TypeShared
<1>4. UNCHANGED <<origin, settled, fpc, cur, drop>>
  BY <1>1 DEF LookupFrame, ReaderFrame, fillVars, transVars
<1>5. OthersKeep(r)
  BY <1>1, <1>3 DEF OthersKeep
<1>6. Looks(r)
  BY <1>1, <1>4, GotoSets DEF Looks
<1>7. ReaderInv(r)' /\ DropInv(r)'
  BY <1>1, <1>2, <1>4, GotoSets DEF ReaderInv, DropInv, Holding
<1>8. Shrinks(prot, prot') /\ Shrinks(prob, prob')
  BY <1>1, ShrinksSelf
<1>9. (\A k \in Keys : KeyInv(k)') /\ NewUnderLock(prot, prot', r)
  BY <1>4, <1>8, ShrinksKeyInv, ShrinksNew
<1> QED
  BY <1>2, <1>5, <1>6, <1>7, <1>8, <1>9, LookupKeeps

LEMMA ObserveSafe ==
  ASSUME IInv, TypeOK', NEW r \in Readers, Observe(r)
  PROVE  StripeDiscipline'
<1> USE DEF IInv
<1>1. fpc[r] = "none" /\ drop[r] = None
  BY LookingUp DEF Observe
<1>2. /\ \E label \in {"miss", "obs", "lookProt", "lookProb"} : Goto(r, label)
      /\ \E k \in Keys : cur' = [cur EXCEPT ![r] = k]
  BY DEF Observe, Lookup, TypeOK, TypeReader
<1>3. UNCHANGED <<origin, epoch, settled, prot, prob, lock, drop, cand, ep, fpc,
                  ftodo, fkey, got, writerVars, adminVars>>
  BY DEF Observe, ReaderFrame, fillVars
<1>4. Local(r)
  BY SMT, <1>2, <1>3, GotoSets DEF Local, TypeOK, TypeReader
<1>5. ReaderInv(r)' /\ DropInv(r)'
  BY <1>1, <1>2, <1>3, GotoSets DEF ReaderInv, DropInv, Holding
<1>6. FillInv(r)'
  BY <1>1, <1>3 DEF StripeDiscipline, FillInv, Reconciling, Storable
<1>7. Shrinks(prot, prot') /\ Shrinks(prob, prob') /\ OthersKeep(r)
  BY <1>3, ShrinksSelf DEF OthersKeep
<1>8. /\ \A k \in Keys : KeyInv(k)'
      /\ NewUnderLock(prot, prot', r) /\ NewUnderLock(prob, prob', r)
  BY <1>3, <1>7, ShrinksKeyInv, ShrinksNew
<1> QED
  BY <1>4, <1>5, <1>6, <1>7, <1>8, ReaderKeeps

LEMMA MissSafe ==
  ASSUME IInv, TypeOK', NEW r \in Readers, Miss(r)
  PROVE  StripeDiscipline'
<1> USE DEF IInv
<1>1. fpc[r] = "none" /\ drop[r] = None
  BY LookingUp DEF Miss
<1>2. /\ \E label \in {"next", "mfetch", "join", "fetch"} : Goto(r, label)
      /\ ep' = ep \/ ep' = [ep EXCEPT ![r][cur[r]] = epoch[StripeOf[cur[r]]]]
  BY DEF Miss, NoHit, AfterKey
<1>3. UNCHANGED <<origin, epoch, settled, prot, prob, lock, cur, drop, cand, fpc,
                  ftodo, fkey, got, writerVars, adminVars>>
  BY DEF Miss, ReaderFrame, fillVars, transVars
<1>4. Local(r)
  BY SMTT(30), <1>2, <1>3, GotoSets DEF Local, TypeOK, TypeReader
<1>5. ReaderInv(r)' /\ DropInv(r)'
  BY <1>1, <1>2, <1>3, GotoSets DEF ReaderInv, DropInv, Holding
<1>6. ASSUME NEW k \in Keys
      PROVE  ep'[r][k] <= epoch'[StripeOf[k]]
  <2>1. epoch[StripeOf[k]] \in Nat /\ ep[r][k] <= epoch[StripeOf[k]]
    BY StripeKnown DEF StripeDiscipline, FillInv, TypeOK, TypeShared
  <2>2. ep'[r][k] = ep[r][k] \/ ep'[r][k] = epoch[StripeOf[k]]
    BY SMT, <1>2 DEF TypeOK, TypeReader
  <2> QED
    BY Reflexive, <1>3, <2>1, <2>2
<1>7. FillInv(r)'
  BY <1>1, <1>3, <1>6 DEF FillInv, Reconciling, Storable
<1>8. Shrinks(prot, prot') /\ Shrinks(prob, prob') /\ OthersKeep(r)
  BY <1>3, ShrinksSelf DEF OthersKeep
<1>9. /\ \A k \in Keys : KeyInv(k)'
      /\ NewUnderLock(prot, prot', r) /\ NewUnderLock(prob, prob', r)
  BY <1>3, <1>8, ShrinksKeyInv, ShrinksNew
<1> QED
  BY <1>4, <1>5, <1>7, <1>8, <1>9, ReaderKeeps
-----------------------------------------------------------------------------
(***************************************************************************)
(* Answers.                                                                *)
(***************************************************************************)
LEMMA AnswerKeeps ==
  ASSUME IInv, TypeOK', NEW r \in Readers, AnswerFrame, Shrinks(prot, prot'),
         \A q \in Readers \ {r} : /\ pc'[q] = pc[q] /\ fpc'[q] = fpc[q]
                                  /\ ftodo'[q] = ftodo[q] /\ got'[q] = got[q],
         UNCHANGED fkey, pc[r] \notin Holding \cup {"obs", "admitted"},
         pc'[r] \in {"wait", "fill", "stale", "done"}, FillInv(r)'
  PROVE  StripeDiscipline'
<1> USE DEF IInv
<1>1. UNCHANGED <<origin, epoch, settled, prob, lock, cur, drop, cand, ep,
                  writerVars, adminVars>>
  BY DEF AnswerFrame, ReaderFrame, transVars
<1>2. drop[r] = None
  BY DEF StripeDiscipline, ReaderInv
<1>3. ReaderInv(r)' /\ DropInv(r)'
  BY <1>1, <1>2 DEF ReaderInv, DropInv, Holding
<1>4. Local(r)
  BY <1>1 DEF Local
<1>5. Shrinks(prob, prob') /\ OthersKeep(r)
  BY <1>1, ShrinksSelf DEF OthersKeep
<1>6. /\ \A k \in Keys : KeyInv(k)'
      /\ NewUnderLock(prot, prot', r) /\ NewUnderLock(prob, prob', r)
  BY <1>1, <1>5, ShrinksKeyInv, ShrinksNew
<1> QED
  BY <1>3, <1>4, <1>5, <1>6, ReaderKeeps

\* The answers that leave the fill alone.
LEMMA FillUntouched ==
  ASSUME IInv, NEW r \in Readers, Shrinks(prot, prot'), Shrinks(prob, prob'),
         UNCHANGED <<epoch, settled, lock, ep, fpc, ftodo, fkey, got, writerVars>>
  PROVE  FillInv(r)'
<1>1. fkey[r] \in Keys
  BY DEF IInv, TypeOK, TypeFill
<1>2. /\ ~Present(prob[fkey[r]]) => ~Present(prob'[fkey[r]])
      /\ ~Present(prot[fkey[r]]) => ~Present(prot'[fkey[r]])
  BY <1>1 DEF Shrinks
<1>3. \A k \in Keys : Storable(r, k)' <=> Storable(r, k)
  BY DEF Storable
<1>4. \A k \in Keys, w \in Writers : Barrier(w, k)' <=> Barrier(w, k)
  BY DEF Barrier, writerVars
<1> QED
  BY <1>2, <1>3, <1>4 DEF IInv, StripeDiscipline, FillInv, writerVars

LEMMA AnswerSafe ==
  ASSUME IInv, TypeOK', NEW r \in Readers,
         Receive(r) \/ ReadTimeout(r) \/ FetchBypass(r) \/ StaleFallback(r)
  PROVE  StripeDiscipline'
<1> USE DEF IInv
<1>1. /\ AnswerFrame /\ UNCHANGED fillVars
      /\ pc[r] \in {"wait", "next", "fetch", "stale"}
  BY DEF Receive, ReadTimeout, FetchBypass, StaleFallback
<1>2. (\E label \in {"stale", "done"} : Goto(r, label)) \/ (pc[r] = "stale" /\ UNCHANGED pc)
  BY DEF Receive, ReadTimeout, FetchBypass, StaleFallback, ReadFailed
<1>3. prot' = prot \/ \E k \in Keys : prot' = Without(prot, k)
  BY DEF Receive, ReadTimeout, FetchBypass, StaleFallback, TypeOK, TypeReader
<1>4. Shrinks(prot, prot')
  BY <1>3, ShrinksSelf, WithoutShrinks DEF TypeOK, TypeShared
<1>5. UNCHANGED <<epoch, settled, prob, lock, ep, fpc, ftodo, fkey, got, writerVars>>
  BY <1>1 DEF AnswerFrame, ReaderFrame, fillVars
<1>6. FillInv(r)'
  BY <1>4, <1>5, ShrinksSelf, FillUntouched
<1>7. pc'[r] \in {"stale", "done"} /\ \A q \in Readers \ {r} : pc'[q] = pc[q]
  BY <1>2, GotoSets
<1>8. pc[r] \notin Holding \cup {"obs", "admitted"}
  BY <1>1 DEF Holding
<1> QED
  BY <1>1, <1>4, <1>5, <1>6, <1>7, <1>8, AnswerKeeps

LEMMA JoinSafe ==
  ASSUME IInv, TypeOK', NEW r \in Readers, Join(r)
  PROVE  StripeDiscipline'
<1> USE DEF IInv
<1>1. /\ pc[r] = "join" /\ AnswerFrame /\ UNCHANGED <<prot, ftodo, fkey, got>>
      /\ Goto(r, "wait")
      /\ fpc' = fpc \/ fpc' = [fpc EXCEPT ![r] = "fetch"]
  BY DEF Join, NoHit
<1>2. fpc[r] = "none"
  BY <1>1, LookingUp
<1>3. fpc'[r] \in {"none", "fetch"} /\ \A q \in Readers \ {r} : fpc'[q] = fpc[q]
  BY <1>1, <1>2 DEF TypeOK, TypeFill
<1>4. UNCHANGED <<epoch, ep>>
  BY <1>1 DEF AnswerFrame, ReaderFrame
<1>5. FillInv(r)'
  BY <1>3, <1>4 DEF StripeDiscipline, FillInv, Reconciling, Storable
<1>6. pc'[r] = "wait" /\ \A q \in Readers \ {r} : pc'[q] = pc[q]
  BY <1>1, GotoSets
<1>7. pc[r] \notin Holding \cup {"obs", "admitted"}
  BY <1>1 DEF Holding
<1> QED
  BY <1>1, <1>3, <1>5, <1>6, <1>7, ShrinksSelf, AnswerKeeps

LEMMA FinishMGetSafe ==
  ASSUME IInv, TypeOK', NEW r \in Readers, FinishMGet(r)
  PROVE  StripeDiscipline'
<1> USE DEF IInv
<1>1. /\ pc[r] = "fill" /\ AnswerFrame /\ UNCHANGED <<prot, ftodo, fkey, got>>
      /\ Goto(r, "done")
      /\ fpc' = [fpc EXCEPT ![r] = "done"]
  BY DEF FinishMGet
<1>2. fpc'[r] = "done" /\ \A q \in Readers \ {r} : fpc'[q] = fpc[q]
  BY <1>1 DEF TypeOK, TypeFill
<1>3. UNCHANGED <<epoch, ep>>
  BY <1>1 DEF AnswerFrame, ReaderFrame
<1>4. FillInv(r)'
  BY <1>2, <1>3 DEF StripeDiscipline, FillInv, Reconciling, Storable
<1>5. pc'[r] = "done" /\ \A q \in Readers \ {r} : pc'[q] = pc[q]
  BY <1>1, GotoSets
<1>6. pc[r] \notin Holding \cup {"obs", "admitted"}
  BY <1>1 DEF Holding
<1> QED
  BY <1>1, <1>2, <1>4, <1>5, <1>6, ShrinksSelf, AnswerKeeps

\* A value that has just been read from the origin is as new as every write
\* the origin has applied.
LEMMA FreshRead ==
  ASSUME IInv, NEW k \in Keys
  PROVE  /\ origin[k].ver >= settled[k]
         /\ \A w \in Writers : origin[k].ver >= wver[w][k]
BY DEF IInv, StripeDiscipline, KeyInv, WriterInv, TypeOK, TypeShared, TypeWriter,
   TypeHistory, Value

LEMMA FetchMissingSafe ==
  ASSUME IInv, TypeOK', NEW r \in Readers, FetchMissing(r)
  PROVE  StripeDiscipline'
<1> USE DEF IInv
<1>1. pc[r] = "mfetch" /\ AnswerFrame /\ UNCHANGED <<prot, fkey>>
  BY DEF FetchMissing
<1>2. fpc[r] = "none"
  BY <1>1, LookingUp
<1>3. \/ /\ got' = [got EXCEPT ![r] = [k \in Keys |-> IF k \in miss[r]
                                             THEN origin[k] ELSE got[r][k]]]
         /\ ftodo' = [ftodo EXCEPT ![r] = miss[r] \cap CacheKeys]
         /\ \E label \in {"end", "lock"} : fpc' = [fpc EXCEPT ![r] = label]
         /\ Goto(r, "fill")
      \/ /\ \E label \in {"stale", "done"} : Goto(r, label)
         /\ UNCHANGED <<got, ftodo, fpc>>
  <2>1. got \in [Readers -> [Keys -> Value]]
    BY DEF TypeOK, TypeFill
  <2> QED
    BY <2>1 DEF FetchMissing, ReadFailed
<1>4. UNCHANGED <<origin, epoch, settled, ep, wpc, adv, wkeys, wver>>
  BY <1>1 DEF AnswerFrame, ReaderFrame, writerVars
<1>5. /\ fpc'[r] \in {"none", "lock", "end"}
      /\ fpc'[r] = "lock" => \A k \in ftodo'[r] : k \in Keys /\ got'[r][k] = origin[k]
      /\ \A q \in Readers \ {r} : /\ fpc'[q] = fpc[q] /\ ftodo'[q] = ftodo[q]
                                  /\ got'[q] = got[q]
  <2>1. miss[r] \subseteq Keys
    BY DEF TypeOK, TypeReader
  <2> QED
    BY SMTT(30), <1>2, <1>3, <2>1 DEF TypeOK, TypeFill
<1>6. ASSUME NEW k \in Keys, Storable(r, k)'
      PROVE  /\ got'[r][k].ver >= settled'[k]
             /\ \A w \in Writers : got'[r][k].ver >= wver'[w][k]
  <2>1. got'[r][k] = origin[k]
    BY <1>5, <1>6 DEF Storable, Reconciling
  <2> QED
    BY <1>4, <2>1, FreshRead
<1>7. FillInv(r)'
  BY <1>4, <1>5, <1>6 DEF StripeDiscipline, FillInv, Reconciling
<1>8. pc'[r] \in {"fill", "stale", "done"} /\ \A q \in Readers \ {r} : pc'[q] = pc[q]
  BY <1>3, GotoSets
<1>9. pc[r] \notin Holding \cup {"obs", "admitted"}
  BY <1>1 DEF Holding
<1> QED
  BY <1>1, <1>5, <1>7, <1>8, <1>9, ShrinksSelf, AnswerKeeps
-----------------------------------------------------------------------------
(***************************************************************************)
(* Fills.                                                                  *)
(***************************************************************************)
\* Only the fill that r leads moves.
Fills(r) ==
  \A q \in Readers \ {r} : /\ fpc'[q] = fpc[q] /\ ftodo'[q] = ftodo[q]
                           /\ fkey'[q] = fkey[q] /\ got'[q] = got[q]

LEMMA FillKeeps ==
  ASSUME IInv, TypeOK', NEW r \in Readers, FillFrame, Fills(r), fpc[r] # "none",
         OthersKeep(r), NewUnderLock(prot, prot', r), NewUnderLock(prob, prob', r),
         \A k \in Keys : KeyInv(k)', FillInv(r)'
  PROVE  StripeDiscipline'
<1> USE DEF IInv
<1>1. UNCHANGED <<origin, epoch, settled, pc, cur, drop, cand, ep, writerVars, adminVars>>
  BY DEF FillFrame, readerVars, transVars, histVars
<1>2. pc[r] \in {"wait", "fill", "stale", "done"} /\ drop[r] = None
  BY DEF StripeDiscipline, ReaderInv
<1>3. ReaderInv(r)' /\ DropInv(r)'
  BY <1>1, <1>2 DEF ReaderInv, DropInv, Holding
<1>4. Local(r)
  BY <1>1 DEF Local, Fills
<1> QED
  BY <1>3, <1>4, ReaderKeeps

\* What the fill of r may rely on when its frame is FillFrame.
LEMMA FillFacts ==
  ASSUME IInv, NEW r \in Readers, FillFrame
  PROVE  /\ UNCHANGED <<origin, epoch, settled, ep, wpc, adv, wkeys, wver>>
         /\ fkey[r] \in Keys /\ StripeOf[fkey[r]] \in Stripes /\ ftodo[r] \subseteq Keys
         /\ fkey \in [Readers -> Keys] /\ fpc \in [Readers -> FillPC]
         /\ ftodo \in [Readers -> SUBSET Keys] /\ got \in [Readers -> [Keys -> Value]]
         /\ lock \in [Stripes -> Procs \cup {None}]
         /\ prot \in [Keys -> Entry] /\ prob \in [Keys -> Entry]
         /\ FillInv(r) /\ \A k \in Keys : KeyInv(k)
BY StripeKnown DEF IInv, StripeDiscipline, TypeOK, TypeShared, TypeFill, FillFrame,
   readerVars, writerVars, histVars

\* What is to be stored does not get older by being fewer.
LEMMA StillStorable ==
  ASSUME IInv, NEW r \in Readers, FillFrame, fpc[r] \in {"lock"} \cup Reconciling,
         ftodo'[r] \subseteq ftodo[r], got'[r] = got[r]
  PROVE  /\ \A k \in Keys : ep'[r][k] <= epoch'[StripeOf[k]]
         /\ \A k \in Keys : Storable(r, k)' =>
              /\ got'[r][k].ver >= settled'[k]
              /\ \A w \in Writers : Barrier(w, k)' => got'[r][k].ver >= wver'[w][k]
<1>1. UNCHANGED <<epoch, settled, ep, wpc, adv, wkeys, wver>> /\ FillInv(r)
  BY FillFacts
<1>2. \A k \in Keys : Storable(r, k)' => Storable(r, k)
  BY <1>1 DEF Storable
<1>3. \A k \in Keys, w \in Writers : Barrier(w, k)' <=> Barrier(w, k)
  BY <1>1 DEF Barrier
<1> QED
  BY <1>1, <1>2, <1>3 DEF FillInv

LEMMA FlightFetchSafe ==
  ASSUME IInv, TypeOK', NEW r \in Readers, FlightFetch(r)
  PROVE  StripeDiscipline'
<1>1. fpc[r] = "fetch" /\ FillFrame /\ UNCHANGED <<prot, prob, lock, fkey>>
  BY DEF FlightFetch
<1>2. \/ /\ got' = [got EXCEPT ![r][cur[r]] = origin[cur[r]]]
         /\ ftodo' = [ftodo EXCEPT ![r] = {cur[r]}]
         /\ fpc' = [fpc EXCEPT ![r] = "lock"]
      \/ /\ fpc' = [fpc EXCEPT ![r] = "end"]
         /\ UNCHANGED <<got, ftodo>>
  BY DEF FlightFetch
<1>3. /\ UNCHANGED <<origin, epoch, settled, ep, wpc, adv, wkeys, wver>>
      /\ fpc \in [Readers -> FillPC] /\ ftodo \in [Readers -> SUBSET Keys]
      /\ got \in [Readers -> [Keys -> Value]] /\ FillInv(r)
  BY <1>1, FillFacts
<1>4. cur[r] \in Keys
  BY DEF IInv, TypeOK, TypeReader
<1>5. /\ Fills(r) /\ fpc'[r] \in {"lock", "end"}
      /\ fpc'[r] = "lock" => ftodo'[r] = {cur[r]} /\ got'[r][cur[r]] = origin[cur[r]]
  BY SMT, <1>1, <1>2, <1>3, <1>4 DEF Fills
<1>6. ASSUME NEW k \in Keys, Storable(r, k)'
      PROVE  /\ got'[r][k].ver >= settled'[k]
             /\ \A w \in Writers : got'[r][k].ver >= wver'[w][k]
  <2>1. got'[r][k] = origin[k]
    BY SMT, <1>5, <1>6 DEF Storable, Reconciling
  <2> QED
    BY <1>3, <2>1, FreshRead
<1>7. FillInv(r)'
  BY <1>3, <1>5, <1>6 DEF FillInv, Reconciling
<1>8. Shrinks(prot, prot') /\ Shrinks(prob, prob') /\ OthersKeep(r)
  BY <1>1, ShrinksSelf DEF OthersKeep
<1>9. /\ \A k \in Keys : KeyInv(k)'
      /\ NewUnderLock(prot, prot', r) /\ NewUnderLock(prob, prob', r)
  BY <1>3, <1>8, ShrinksKeyInv, ShrinksNew DEF IInv
<1> QED
  BY <1>1, <1>5, <1>7, <1>8, <1>9, FillKeeps

LEMMA FillCheckSafe ==
  ASSUME IInv, TypeOK', NEW r \in Readers, FillCheck(r)
  PROVE  StripeDiscipline'
<1>1. fpc[r] = "lock" /\ FillFrame /\ UNCHANGED <<prot, prob, got>>
  BY DEF FillCheck
<1>2. PICK k \in ftodo[r] :
        /\ lock[StripeOf[k]] = None
        /\ \/ /\ epoch[StripeOf[k]] = ep[r][k]
              /\ lock' = [lock EXCEPT ![StripeOf[k]] = r]
              /\ fkey' = [fkey EXCEPT ![r] = k]
              /\ fpc' = [fpc EXCEPT ![r] = "drop"]
              /\ UNCHANGED ftodo
           \/ /\ ftodo' = [ftodo EXCEPT ![r] = ftodo[r] \ {k}]
              /\ \E l \in {"lock", "end"} : fpc' = [fpc EXCEPT ![r] = l]
              /\ UNCHANGED <<lock, fkey>>
  <2>1. fpc \in [Readers -> FillPC] /\ fpc = [fpc EXCEPT ![r] = fpc[r]]
    BY DEF IInv, TypeOK, TypeFill
  <2> QED
    BY <2>1 DEF FillCheck, FillCurrent, AfterRefusal
<1>3. /\ UNCHANGED <<origin, epoch, settled, ep>>
      /\ fkey \in [Readers -> Keys] /\ fpc \in [Readers -> FillPC]
      /\ ftodo \in [Readers -> SUBSET Keys]
      /\ lock \in [Stripes -> Procs \cup {None}]
  BY <1>1, FillFacts
<1>4. k \in Keys /\ StripeOf[k] \in Stripes
  BY <1>3, StripeKnown
<1>5. Fills(r) /\ ftodo'[r] \subseteq ftodo[r] /\ fpc'[r] \in {"lock", "drop", "end"}
  BY SMT, <1>1, <1>2, <1>3 DEF Fills
<1>6. fpc'[r] = "drop" => /\ lock'[StripeOf[fkey'[r]]] = r /\ fkey'[r] \in ftodo'[r]
                          /\ ep'[r][fkey'[r]] = epoch'[StripeOf[fkey'[r]]]
  BY <1>1, <1>2, <1>3, <1>4
<1>7. FillInv(r)'
  BY <1>1, <1>5, <1>6, StillStorable DEF FillInv, Reconciling
<1>8. Shrinks(prot, prot') /\ Shrinks(prob, prob') /\ OthersKeep(r)
  BY <1>1, <1>2, <1>3, <1>4, ShrinksSelf DEF OthersKeep
<1>9. /\ \A j \in Keys : KeyInv(j)'
      /\ NewUnderLock(prot, prot', r) /\ NewUnderLock(prob, prob', r)
  BY <1>3, <1>8, ShrinksKeyInv, ShrinksNew DEF IInv
<1> QED
  BY <1>1, <1>5, <1>7, <1>8, <1>9, FillKeeps

\* The end of a reconciliation gives the stripe back.
LEMMA FillNextSafe ==
  ASSUME IInv, NEW r \in Readers, FillFrame, FillNext(r), fpc[r] \in Reconciling,
         UNCHANGED <<fkey, got>>
  PROVE  Fills(r) /\ OthersKeep(r) /\ FillInv(r)'
<1>1. /\ fkey \in [Readers -> Keys] /\ fpc \in [Readers -> FillPC]
      /\ ftodo \in [Readers -> SUBSET Keys] /\ StripeOf[fkey[r]] \in Stripes
      /\ lock \in [Stripes -> Procs \cup {None}] /\ FillInv(r)
  BY FillFacts
<1>2. ftodo'[r] \subseteq ftodo[r] /\ fpc'[r] \in {"lock", "end"} /\ Fills(r)
  BY <1>1 DEF FillNext, Fills
<1>3. lock[StripeOf[fkey[r]]] = r
  BY <1>1 DEF FillInv
<1>4. OthersKeep(r)
  BY <1>1, <1>3 DEF FillNext, OthersKeep
<1>5. FillInv(r)'
  BY <1>2, StillStorable DEF FillInv, Reconciling
<1> QED
  BY <1>2, <1>4, <1>5

LEMMA FillDropSafe ==
  ASSUME IInv, TypeOK', NEW r \in Readers, FillDrop(r)
  PROVE  StripeDiscipline'
<1>1. fpc[r] = "drop" /\ FillFrame /\ UNCHANGED <<fkey, got>>
  BY DEF FillDrop
<1>2. /\ UNCHANGED <<origin, epoch, settled, ep>>
      /\ fkey[r] \in Keys /\ fpc \in [Readers -> FillPC]
      /\ prot \in [Keys -> Entry] /\ prob \in [Keys -> Entry] /\ FillInv(r)
  BY <1>1, FillFacts
<1>3. /\ Shrinks(prot, Without(prot, fkey[r])) /\ ~Present(Without(prot, fkey[r])[fkey[r]])
      /\ Shrinks(prob, Without(prob, fkey[r])) /\ ~Present(Without(prob, fkey[r])[fkey[r]])
  BY <1>2, WithoutShrinks
<1>4. Shrinks(prot, prot') /\ Shrinks(prob, prob')
  BY <1>3, ShrinksSelf DEF FillDrop
<1>5. Fills(r) /\ OthersKeep(r) /\ FillInv(r)'
  <2>1. CASE FillNext(r)
    BY <1>1, <2>1, FillNextSafe DEF Reconciling
  <2>2. CASE /\ UNCHANGED <<ftodo, lock>>
             /\ \/ prob' = Without(prob, fkey[r]) /\ fpc' = [fpc EXCEPT ![r] = "storeProt"]
                \/ prot' = Without(prot, fkey[r]) /\ fpc' = [fpc EXCEPT ![r] = "storeProb"]
    <3>1. /\ Fills(r) /\ fpc'[r] \in {"storeProt", "storeProb"}
          /\ fpc'[r] = "storeProt" => ~Present(prob'[fkey[r]])
          /\ fpc'[r] = "storeProb" => ~Present(prot'[fkey[r]])
      BY <1>1, <1>2, <1>3, <2>2 DEF Fills
    <3>2. OthersKeep(r)
      BY <2>2 DEF OthersKeep
    <3>3. /\ \A k \in Keys : ep'[r][k] <= epoch'[StripeOf[k]]
          /\ \A k \in Keys : Storable(r, k)' =>
               /\ got'[r][k].ver >= settled'[k]
               /\ \A w \in Writers : Barrier(w, k)' => got'[r][k].ver >= wver'[w][k]
      BY <1>1, <2>2, StillStorable DEF Reconciling
    <3>4. FillInv(r)'
      BY <1>1, <1>2, <2>2, <3>1, <3>3 DEF FillInv, Reconciling
    <3> QED
      BY <3>1, <3>2, <3>4
  <2> QED
    BY <2>1, <2>2 DEF FillDrop
<1>6. /\ \A k \in Keys : KeyInv(k)'
      /\ NewUnderLock(prot, prot', r) /\ NewUnderLock(prob, prob', r)
  BY <1>2, <1>4, ShrinksKeyInv, ShrinksNew DEF IInv
<1> QED
  BY <1>1, <1>5, <1>6, FillKeeps

LEMMA FillStoreSafe ==
  ASSUME IInv, TypeOK', NEW r \in Readers, FillStore(r)
  PROVE  StripeDiscipline'
<1> DEFINE k == fkey[r]
           v == got[r][k].ver
<1>1. /\ FillFrame /\ UNCHANGED <<fkey, got>> /\ FillNext(r)
      /\ \/ /\ fpc[r] = "storeProt" /\ UNCHANGED prob
            /\ prot' \in Put(prot, closed["prot"], k, v)
         \/ /\ fpc[r] = "storeProb" /\ UNCHANGED prot
            /\ prob' \in Put(prob, closed["prob"], k, v) \/ UNCHANGED prob
  BY DEF FillStore
<1>2. /\ UNCHANGED <<origin, epoch, settled, ep>>
      /\ k \in Keys /\ v \in Nat /\ prot \in [Keys -> Entry] /\ prob \in [Keys -> Entry]
      /\ FillInv(r) /\ \A j \in Keys : KeyInv(j)
  BY <1>1, FillFacts DEF Value
<1>3. /\ lock[StripeOf[k]] = r /\ v >= settled[k]
      /\ fpc[r] = "storeProt" => ~Present(prob[k])
      /\ fpc[r] = "storeProb" => ~Present(prot[k])
  BY <1>1, <1>2 DEF FillInv, Reconciling, Storable
<1>4. fpc[r] \in Reconciling /\ fpc[r] # "none"
  BY <1>1 DEF Reconciling
<1>5. Fills(r) /\ OthersKeep(r) /\ FillInv(r)'
  BY <1>1, <1>4, FillNextSafe
<1> HIDE DEF k, v
<1>6. /\ \A j \in Keys : KeyInv(j)'
      /\ NewUnderLock(prot, prot', r) /\ NewUnderLock(prob, prob', r)
  <2>1. CASE fpc[r] = "storeProt" /\ UNCHANGED prob /\ PutsOnly(prot, prot', k, v)
    BY <1>2, <1>3, <2>1 DEF KeyInv, NewUnderLock, PutsOnly
  <2>2. CASE fpc[r] = "storeProb" /\ UNCHANGED prot /\ PutsOnly(prob, prob', k, v)
    BY <1>2, <1>3, <2>2 DEF KeyInv, NewUnderLock, PutsOnly
  <2>3. CASE UNCHANGED <<prot, prob>>
    BY <1>2, <2>3 DEF KeyInv, NewUnderLock
  <2>4. /\ prot' \in Put(prot, closed["prot"], k, v) => PutsOnly(prot, prot', k, v)
        /\ prob' \in Put(prob, closed["prob"], k, v) => PutsOnly(prob, prob', k, v)
    BY <1>2, PutStores
  <2> QED
    BY <1>1, <2>1, <2>2, <2>3, <2>4
<1> QED
  BY <1>1, <1>4, <1>5, <1>6, FillKeeps

LEMMA FlightDoneSafe ==
  ASSUME IInv, TypeOK', NEW r \in Readers, FlightDone(r)
  PROVE  StripeDiscipline'
<1>1. /\ fpc[r] = "end" /\ FillFrame /\ UNCHANGED <<prot, prob, lock, ftodo, fkey, got>>
      /\ fpc' = [fpc EXCEPT ![r] = "done"]
  BY DEF FlightDone
<1>2. /\ UNCHANGED <<origin, epoch, settled, ep>> /\ FillInv(r)
      /\ fpc \in [Readers -> FillPC]
  BY <1>1, FillFacts
<1>3. Fills(r) /\ fpc'[r] = "done"
  BY <1>1, <1>2 DEF Fills
<1>4. FillInv(r)'
  BY <1>2, <1>3 DEF FillInv, Reconciling, Storable
<1>5. Shrinks(prot, prot') /\ Shrinks(prob, prob') /\ OthersKeep(r)
  BY <1>1, ShrinksSelf DEF OthersKeep
<1>6. /\ \A k \in Keys : KeyInv(k)'
      /\ NewUnderLock(prot, prot', r) /\ NewUnderLock(prob, prob', r)
  BY <1>2, <1>5, ShrinksKeyInv, ShrinksNew DEF IInv
<1> QED
  BY <1>1, <1>3, <1>4, <1>5, <1>6, FillKeeps
-----------------------------------------------------------------------------
(***************************************************************************)
(* A step of p, which is no request that reads.                            *)
(***************************************************************************)
Outside(p) ==
  /\ UNCHANGED <<pc, cur, cand, ep, fpc, ftodo, fkey, got, wcmd, wkeys, aop>>
  /\ \A w \in Writers \ {p} : wpc'[w] = wpc[w] /\ adv'[w] = adv[w] /\ wver'[w] = wver[w]
  /\ \A a \in Admins \ {p} : apc'[a] = apc[a] /\ alock'[a] = alock[a]
  /\ \A q \in Procs \ {p} : drop'[q] = drop[q]

\* Versions and epochs only grow; a stripe that another process holds keeps its
\* epoch, and its keys their last finalized write.
Ordered(p) ==
  /\ \A k \in Keys : origin'[k].ver >= origin[k].ver
  /\ \A s \in Stripes : epoch'[s] >= epoch[s]
  /\ \A s \in Stripes : lock[s] \notin {None, p} => epoch'[s] = epoch[s]
  /\ \A k \in Keys : lock[StripeOf[k]] \notin {None, p} => settled'[k] = settled[k]

\* What may still be stored is as new as p's write.
Outlasts(p) ==
  \A r \in Readers, k \in Keys : Storable(r, k)' =>
    /\ got[r][k].ver >= settled'[k]
    /\ p \in Writers /\ Barrier(p, k)' => got[r][k].ver >= wver'[p][k]

\* A fill that was refused stays refused.
LEMMA StorableBefore ==
  ASSUME IInv, TypeOK', UNCHANGED <<ep, fpc, ftodo>>,
         \A s \in Stripes : epoch'[s] >= epoch[s]
  PROVE  \A r \in Readers, k \in Keys : Storable(r, k)' =>
           Storable(r, k) /\ epoch'[StripeOf[k]] = epoch[StripeOf[k]]
<1> TAKE r \in Readers, k \in Keys
<1>1. /\ ep[r][k] <= epoch[StripeOf[k]] /\ epoch'[StripeOf[k]] >= epoch[StripeOf[k]]
      /\ ep[r][k] \in Nat /\ epoch[StripeOf[k]] \in Nat /\ epoch'[StripeOf[k]] \in Nat
  <2>1. StripeOf[k] \in Stripes
    BY StripeKnown
  <2>2. FillInv(r)
    BY DEF IInv, StripeDiscipline
  <2>3. ep[r][k] \in Nat /\ epoch[StripeOf[k]] \in Nat
    BY <2>1 DEF IInv, TypeOK, TypeShared, TypeReader
  <2>4. epoch'[StripeOf[k]] \in Nat
    BY <2>1 DEF TypeOK, TypeShared
  <2>5. ep[r][k] <= epoch[StripeOf[k]]
    BY <2>2 DEF FillInv
  <2> QED
    BY <2>1, <2>3, <2>4, <2>5
<1> QED
  BY <1>1, Squeezed DEF Storable

LEMMA EpochsLater ==
  ASSUME IInv, TypeOK', \A s \in Stripes : epoch'[s] >= epoch[s]
  PROVE  \A r \in Readers, k \in Keys : ep[r][k] <= epoch'[StripeOf[k]]
<1> TAKE r \in Readers, k \in Keys
<1>1. StripeOf[k] \in Stripes
  BY StripeKnown
<1>2. ep[r][k] \in Nat /\ epoch[StripeOf[k]] \in Nat
  BY <1>1 DEF IInv, TypeOK, TypeShared, TypeReader
<1>3. epoch'[StripeOf[k]] \in Nat
  BY <1>1 DEF TypeOK, TypeShared
<1>4. ep[r][k] <= epoch[StripeOf[k]]
  <2>1. FillInv(r)
    BY DEF IInv, StripeDiscipline
  <2> QED
    BY <2>1 DEF FillInv
<1> QED
  BY Transitive, <1>1, <1>2, <1>3, <1>4

LEMMA VersionsLater ==
  ASSUME IInv, TypeOK', \A k \in Keys : origin'[k].ver >= origin[k].ver
  PROVE  \A w \in Writers, k \in Keys : wver[w][k] <= origin'[k].ver
<1> SUFFICES ASSUME NEW w \in Writers, NEW k \in Keys
             PROVE  wver[w][k] <= origin'[k].ver
  BY Zenon
<1>1. wver[w][k] \in Nat /\ origin[k].ver \in Nat
  BY SMT DEF IInv, TypeOK, TypeShared, TypeWriter, Value
<1>2. origin'[k].ver \in Nat
  BY DEF TypeOK, TypeShared, Value
<1>3. wver[w][k] <= origin[k].ver
  BY DEF IInv, StripeDiscipline, WriterInv
<1> QED
  BY Transitive, <1>1, <1>2, <1>3

LEMMA OutsideKeeps ==
  ASSUME IInv, TypeOK', NEW p, p \notin Readers, Outside(p), Ordered(p), Outlasts(p),
         OthersKeep(p), NewUnderLock(prot, prot', p), NewUnderLock(prob, prob', p),
         \A k \in Keys : KeyInv(k)', p \in Procs => DropInv(p)',
         p \in Writers => WriterInv(p)', p \in Admins => AdminInv(p)'
  PROVE  StripeDiscipline'
<1> USE NoneFresh DEF IInv, StripeDiscipline
<1>1. ASSUME NEW r \in Readers
      PROVE  ReaderInv(r)'
  <2>1. cur[r] \in Keys /\ Stripe(r) \in Stripes
    BY StripeKnown DEF TypeOK, TypeReader, Stripe
  <2>2. r \in Procs /\ r # p
    BY DEF Procs
  <2>3. Stripe(r)' = Stripe(r)
    BY DEF Outside, Stripe
  <2>4. lock[Stripe(r)] = r => /\ lock'[Stripe(r)] = r
                               /\ settled'[cur[r]] = settled[cur[r]]
    BY <2>1, <2>2 DEF OthersKeep, Ordered, Stripe
  <2>5. lock[Stripe(r)] = r /\ ~Present(prob[cur[r]]) => ~Present(prob'[cur[r]])
    BY <2>1, <2>2 DEF NewUnderLock, Stripe
  <2> QED
    BY <2>1, <2>2, <2>3, <2>4, <2>5 DEF ReaderInv, Outside, Holding
<1>2. ASSUME NEW r \in Readers
      PROVE  FillInv(r)'
  <2>1. fkey[r] \in Keys /\ StripeOf[fkey[r]] \in Stripes
    BY StripeKnown DEF TypeOK, TypeFill
  <2>2. r \in Procs /\ r # p
    BY DEF Procs
  <2>3. lock[StripeOf[fkey[r]]] = r =>
          /\ lock'[StripeOf[fkey[r]]] = r
          /\ epoch'[StripeOf[fkey[r]]] = epoch[StripeOf[fkey[r]]]
    BY <2>1, <2>2 DEF OthersKeep, Ordered
  <2>4. lock[StripeOf[fkey[r]]] = r =>
          /\ ~Present(prob[fkey[r]]) => ~Present(prob'[fkey[r]])
          /\ ~Present(prot[fkey[r]]) => ~Present(prot'[fkey[r]])
    BY <2>1, <2>2 DEF NewUnderLock
  <2>5. UNCHANGED <<ep, fpc, ftodo, fkey, got>>
    BY DEF Outside
  <2>6. \A k \in Keys : Storable(r, k)' => Storable(r, k)
    BY <2>5, StorableBefore DEF Ordered
  <2>7. \A k \in Keys : ep'[r][k] <= epoch'[StripeOf[k]]
    BY <2>5, EpochsLater DEF Ordered
  <2>8. ASSUME NEW k \in Keys, Storable(r, k)'
        PROVE  /\ got'[r][k].ver >= settled'[k]
               /\ \A w \in Writers : Barrier(w, k)' => got'[r][k].ver >= wver'[w][k]
    <3>1. /\ got[r][k].ver >= settled'[k]
          /\ p \in Writers /\ Barrier(p, k)' => got[r][k].ver >= wver'[p][k]
      BY <2>8 DEF Outlasts
    <3>2. ASSUME NEW w \in Writers \ {p}, Barrier(w, k)'
          PROVE  got[r][k].ver >= wver'[w][k]
      <4>1. Barrier(w, k) /\ wver'[w] = wver[w]
        BY <3>2 DEF Barrier, Outside
      <4> QED
        BY <2>6, <2>8, <4>1 DEF FillInv
    <3> QED
      BY <2>5, <3>1, <3>2
  <2> QED
    BY <2>3, <2>4, <2>5, <2>7, <2>8 DEF FillInv, Reconciling
<1>3. ASSUME NEW q \in Procs \ {p}
      PROVE  DropInv(q)'
  <2>1. drop'[q] = drop[q]
    BY DEF Outside
  <2>2. drop[q] \in Keys \cup {None}
    BY DEF IInv, TypeOK, TypeTrans
  <2>3. drop[q] # None => StripeOf[drop[q]] \in Stripes
    BY <2>2, StripeKnown
  <2> QED
    BY <2>1, <2>3 DEF DropInv, OthersKeep
<1>4. ASSUME NEW w \in Writers \ {p}
      PROVE  WriterInv(w)'
  <2>1. w \in Procs /\ w # p
    BY DEF Procs
  <2>2. \A k \in Keys : lock[StripeOf[k]] = w =>
          /\ lock'[StripeOf[k]] = w
          /\ ~Present(prob[k]) => ~Present(prob'[k])
    BY <2>1, StripeKnown DEF OthersKeep, NewUnderLock
  <2>3. /\ drop'[w] = drop[w] /\ UNCHANGED <<wcmd, wkeys>>
        /\ wpc'[w] = wpc[w] /\ adv'[w] = adv[w] /\ wver'[w] = wver[w]
    BY <2>1 DEF Outside
  <2>4. wkeys[w] \subseteq Keys
    BY DEF TypeOK, TypeWriter
  <2>5. \A k \in Keys : wver[w][k] <= origin'[k].ver
    BY VersionsLater DEF Ordered
  <2>6. WriterInv(w)
    OBVIOUS
  <2> HIDE DEF IInv, StripeDiscipline
  <2> QED
    BY <2>2, <2>3, <2>4, <2>5, <2>6 DEF WriterInv
<1>5. ASSUME NEW a \in Admins \ {p}
      PROVE  AdminInv(a)'
  <2>1. a \in Procs /\ a # p
    BY DEF Procs
  <2>2. \A s \in Stripes : lock[s] = a => lock'[s] = a
    BY <2>1 DEF OthersKeep
  <2> QED
    BY <2>1, <2>2 DEF AdminInv, Outside
<1> QED
  BY <1>1, <1>2, <1>3, <1>4, <1>5
-----------------------------------------------------------------------------
(***************************************************************************)
(* Writes.                                                                 *)
(***************************************************************************)
LEMMA AppliedGrows ==
  ASSUME TypeOK, NEW cmd, NEW K
  PROVE  \A o \in Applied(cmd, K) : \A k \in Keys :
           /\ o[k].ver >= origin[k].ver
           /\ cmd = "SET" /\ k \in K => o[k].ver >= 1
<1>1. \A k \in Keys : origin[k].ver \in Nat
  BY DEF TypeOK, TypeShared, Value
<1> DEFINE Made(e) == [k \in Keys |-> IF k \in K
                                      THEN [ver |-> origin[k].ver + 1, exists |-> e]
                                      ELSE origin[k]]
<1>2. \A o \in Applied(cmd, K) : \/ \E e : o = Made(e)
                                 \/ cmd = "OTHER" /\ o = origin
  BY Zenon DEF Applied
<1>3. \A e : \A k \in Keys : /\ Made(e)[k].ver >= origin[k].ver
                             /\ k \in K => Made(e)[k].ver >= 1
  BY SMTT(30), <1>1
<1> HIDE DEF Made
<1> QED
  BY SMT, <1>1, <1>2, <1>3

\* The locals of a write that the invariant mentions.
LEMMA WriterFacts ==
  ASSUME IInv, NEW w \in Writers
  PROVE  /\ w \in Procs /\ w \notin Readers /\ w \notin Admins /\ w # None
         /\ wpc \in [Writers -> WriterPC] /\ adv \in [Writers -> SUBSET Stripes]
         /\ wver \in [Writers -> [Keys -> Nat]] /\ wkeys[w] \subseteq Keys
         /\ wtodo \in [Writers -> SUBSET Keys]
         /\ lock \in [Stripes -> Procs \cup {None}] /\ epoch \in [Stripes -> Nat]
         /\ settled \in [Keys -> Nat]
         /\ prot \in [Keys -> Entry] /\ prob \in [Keys -> Entry]
         /\ WriterInv(w) /\ \A k \in Keys : KeyInv(k)
         /\ \A r \in Readers : FillInv(r)
         /\ \A r \in Readers, k \in Keys : got[r][k].ver \in Nat
         /\ \A k \in Keys : StripeOf[k] \in Stripes /\ origin[k].ver \in Nat
BY SMTT(30), NoneFresh, StripeKnown DEF IInv, StripeDiscipline, TypeOK, TypeShared, TypeFill,
   TypeWriter, TypeHistory, Value, Procs

\* Only w's own part of the writers' state changes.
Writes(w) ==
  /\ WriterFrame
  /\ \A v \in Writers \ {w} : wpc'[v] = wpc[v] /\ adv'[v] = adv[v] /\ wver'[v] = wver[v]

LEMMA WriterKeeps ==
  ASSUME IInv, TypeOK', NEW w \in Writers, Writes(w), Ordered(w), Outlasts(w),
         OthersKeep(w), NewUnderLock(prot, prot', w), NewUnderLock(prob, prob', w),
         \A k \in Keys : KeyInv(k)', WriterInv(w)'
  PROVE  StripeDiscipline'
<1>1. Outside(w)
  BY DEF Writes, WriterFrame, readerVars, fillVars, transVars, adminVars, Outside
<1>2. w \notin Readers /\ w \notin Admins
  BY NoneFresh
<1>3. DropInv(w)'
  BY DEF WriterInv, DropInv
<1> QED
  BY <1>1, <1>2, <1>3, OutsideKeeps

\* The steps that leave the tiers and the stripes alone.
LEMMA WriterElsewhere ==
  ASSUME IInv, TypeOK', NEW w \in Writers, Writes(w),
         UNCHANGED <<prot, prob, epoch, lock, settled>>,
         \A k \in Keys : origin'[k].ver >= origin[k].ver,
         \A k \in Keys : Barrier(w, k)' => Barrier(w, k) /\ wver'[w] = wver[w],
         WriterInv(w)'
  PROVE  StripeDiscipline'
<1>1. OthersKeep(w) /\ NewUnderLock(prot, prot', w) /\ NewUnderLock(prob, prob', w)
  BY DEF OthersKeep, NewUnderLock
<1>2. Ordered(w)
  <2>1. \A s \in Stripes : epoch'[s] = epoch[s] /\ epoch[s] \in Nat
    BY DEF IInv, TypeOK, TypeShared
  <2>2. \A s \in Stripes : epoch'[s] >= epoch[s]
    BY Reflexive, <2>1
  <2>3. \A k \in Keys : settled'[k] = settled[k]
    OBVIOUS
  <2> QED
    BY <2>1, <2>2, <2>3 DEF Ordered
<1>3. Outlasts(w)
  <2>1. UNCHANGED <<ep, fpc, ftodo>>
    BY DEF Writes, WriterFrame, readerVars, fillVars
  <2>2. \A r \in Readers, k \in Keys : Storable(r, k)' => Storable(r, k)
    BY <2>1 DEF Storable
  <2> QED
    BY <2>2, WriterFacts DEF Outlasts, FillInv
<1>4. ASSUME NEW k \in Keys
      PROVE  KeyInv(k)'
  <2>1. /\ settled[k] \in Nat /\ origin[k].ver \in Nat /\ origin'[k].ver \in Nat
        /\ origin'[k].ver >= origin[k].ver /\ KeyInv(k)
    BY WriterFacts DEF TypeOK, TypeShared, Value
  <2> QED
    BY <2>1, Transitive DEF KeyInv
<1> QED
  BY <1>1, <1>2, <1>3, <1>4, WriterKeeps

LEMMA WriterOriginSafe ==
  ASSUME IInv, TypeOK', NEW w \in Writers,
         \/ AcquireGate(w) \/ GateTimeout(w) \/ Retry(w) \/ WriteReply(w)
         \/ WriteError(w) \/ Forget(w) \/ Release(w) \/ WriteReturn(w)
  PROVE  StripeDiscipline'
<1> USE DEF AcquireGate, GateTimeout, Retry, WriteReply, WriteError, Forget, Release,
            WriteReturn, OriginFrame
<1>1. /\ WriterFrame /\ UNCHANGED <<prot, prob, epoch, lock, settled, origin, adv, wver>>
      /\ UNCHANGED wpc \/ \E label : WGoto(w, label)
  OBVIOUS
<1>2. \/ /\ wpc[w] \in {"gate", "send", "sent", "forget", "release", "reply"}
         /\ UNCHANGED wpc
      \/ /\ wpc[w] \in {"gate", "send", "sent", "forget", "release", "reply"}
         /\ \E label \in {"pre", "done", "send", "final", "release", "reply"} : WGoto(w, label)
      \/ wpc[w] = "sent" /\ wcmd[w] = "SET" /\ WGoto(w, "through")
  OBVIOUS
<1> USE DEF WGoto
<1>3. wpc \in [Writers -> WriterPC] /\ WriterInv(w)
  BY WriterFacts
<1>4. UNCHANGED <<wcmd, wkeys, drop>>
  BY <1>1 DEF WriterFrame, transVars
<1> HIDE DEF AcquireGate, GateTimeout, Retry, WriteReply, WriteError, Forget, Release,
             WriteReturn, OriginFrame
<1>5. Writes(w)
  BY <1>1, <1>3 DEF Writes
<1>6. /\ adv[w] = {} /\ wpc'[w] # "throughStore"
      /\ wpc'[w] \in {"sent", "through"} => wpc[w] = "sent"
      /\ wpc'[w] = "through" => wcmd[w] = "SET"
  BY <1>2, <1>3 DEF WriterInv
<1>7. WriterInv(w)'
  BY <1>1, <1>3, <1>4, <1>6 DEF WriterInv
<1>8. \A k \in Keys : ~Barrier(w, k)'
  BY <1>1, <1>6 DEF Barrier
<1>9. \A k \in Keys : origin'[k].ver >= origin[k].ver
  BY Reflexive, <1>1, WriterFacts
<1> QED
  BY <1>1, <1>5, <1>7, <1>8, <1>9, WriterElsewhere

LEMMA DispatchSafe ==
  ASSUME IInv, TypeOK', NEW w \in Writers, Dispatch(w)
  PROVE  StripeDiscipline'
<1>1. /\ wpc[w] = "send" /\ WriterFrame /\ UNCHANGED <<prot, prob, epoch, lock, settled, adv>>
      /\ origin' \in Applied(wcmd[w], wkeys[w]) /\ wpc' = [wpc EXCEPT ![w] = "sent"]
      /\ wver' = [wver EXCEPT ![w] = [k \in Keys |-> IF k \in wkeys[w]
                                             THEN origin'[k].ver ELSE 0]]
  BY DEF Dispatch, OriginFrame, WGoto
<1>2. /\ wpc \in [Writers -> WriterPC] /\ WriterInv(w) /\ wkeys[w] \subseteq Keys
      /\ wver \in [Writers -> [Keys -> Nat]]
  BY WriterFacts
<1>3. \A k \in Keys : /\ origin'[k].ver >= origin[k].ver
                      /\ wcmd[w] = "SET" /\ k \in wkeys[w] => origin'[k].ver >= 1
  BY <1>1, AppliedGrows DEF IInv
<1>4. \A k \in Keys : wver'[w][k] = IF k \in wkeys[w] THEN origin'[k].ver ELSE 0
  BY <1>1, <1>2
<1>5. \A k \in Keys : origin'[k].ver \in Nat
  BY DEF TypeOK, TypeShared, Value
<1>6. Writes(w) /\ wpc'[w] = "sent" /\ adv'[w] = {} /\ UNCHANGED <<wcmd, wkeys, drop>>
  BY <1>1, <1>2 DEF Writes, WriterFrame, transVars, WriterInv
<1>7. \A k \in Keys : wver'[w][k] <= origin'[k].ver
  BY SMT, <1>4, <1>5
<1>8. wcmd[w] = "SET" => \A k \in wkeys[w] : wver'[w][k] >= 1
  BY <1>2, <1>3, <1>4
<1>9. WriterInv(w)'
  BY <1>2, <1>6, <1>7, <1>8 DEF WriterInv
<1>10. \A k \in Keys : ~Barrier(w, k)'
  BY <1>6 DEF Barrier
<1> QED
  BY <1>1, <1>3, <1>6, <1>9, <1>10, WriterElsewhere

LEMMA LateApplySafe ==
  ASSUME IInv, TypeOK', NEW w \in Writers, LateApply(w)
  PROVE  StripeDiscipline'
<1>1. /\ WriterFrame /\ UNCHANGED <<prot, prob, epoch, lock, settled, wpc, adv, wver>>
      /\ origin' \in Applied(wcmd[w], wkeys[w])
  BY DEF LateApply, OriginFrame
<1>2. \A k \in Keys : origin'[k].ver >= origin[k].ver
  BY <1>1, AppliedGrows DEF IInv
<1>3. Writes(w) /\ UNCHANGED <<wcmd, wkeys, drop>>
  BY <1>1 DEF Writes, WriterFrame, transVars
<1>4. \A k \in Keys : wver[w][k] <= origin'[k].ver
  BY <1>2, VersionsLater
<1>5. WriterInv(w)'
  BY <1>1, <1>3, <1>4, WriterFacts DEF WriterInv
<1>6. \A k \in Keys : Barrier(w, k)' => Barrier(w, k)
  BY <1>1, <1>3 DEF Barrier
<1> QED
  BY <1>1, <1>2, <1>3, <1>5, <1>6, WriterElsewhere

LEMMA InvalidateKeysSafe ==
  ASSUME IInv, TypeOK', NEW w \in Writers, InvalidateKeys(w)
  PROVE  StripeDiscipline'
<1>1. PICK k \in wtodo[w] :
        /\ InvalidateKey(k, StripeOf[k] \notin adv[w])
        /\ IF wtodo[w] = {k}
           THEN /\ WGoto(w, IF wpc[w] = "pre" THEN "send" ELSE "forget")
                /\ wtodo' = [wtodo EXCEPT ![w] = wkeys[w]]
                /\ adv' = [adv EXCEPT ![w] = {}]
           ELSE /\ wtodo' = [wtodo EXCEPT ![w] = @ \ {k}]
                /\ adv' = [adv EXCEPT ![w] = @ \cup {StripeOf[k]}]
                /\ UNCHANGED wpc
        /\ IF wpc[w] = "final" THEN Settle(w, k) ELSE UNCHANGED settled
  BY DEF InvalidateKeys
<1>2. wpc[w] \in {"pre", "final"} /\ WriterFrame /\ UNCHANGED <<origin, lock, wver>>
  BY DEF InvalidateKeys
<1> DEFINE s == StripeOf[k]
<1>3. /\ k \in Keys /\ s \in Stripes /\ lock[s] = None
      /\ wpc \in [Writers -> WriterPC] /\ adv \in [Writers -> SUBSET Stripes]
      /\ wver \in [Writers -> [Keys -> Nat]] /\ epoch \in [Stripes -> Nat]
      /\ settled \in [Keys -> Nat] /\ prot \in [Keys -> Entry] /\ prob \in [Keys -> Entry]
      /\ WriterInv(w)
  BY <1>1, WriterFacts DEF InvalidateKey
<1>4. /\ \A v \in Writers \ {w} : wpc'[v] = wpc[v] /\ adv'[v] = adv[v]
      /\ \/ wpc'[w] \in {"send", "forget"} /\ adv'[w] = {}
         \/ wpc'[w] = wpc[w] /\ adv'[w] = adv[w] \cup {s}
  BY <1>1, <1>2, <1>3 DEF WGoto
<1>5. /\ Shrinks(prot, prot') /\ Shrinks(prob, prob')
      /\ ~Present(prot'[k]) /\ ~Present(prob'[k])
  BY <1>1, <1>3, WithoutShrinks DEF InvalidateKey
<1>6. /\ \A t \in Stripes \ {s} : epoch'[t] = epoch[t]
      /\ s \notin adv[w] => epoch'[s] = epoch[s] + 1
      /\ s \in adv[w] => epoch'[s] = epoch[s]
  BY <1>1, <1>3 DEF InvalidateKey
<1>7. /\ \A j \in Keys \ {k} : settled'[j] = settled[j]
      /\ \/ settled'[k] = settled[k]
         \/ wpc[w] = "final" /\ settled'[k] = wver[w][k]
  BY <1>1, <1>3 DEF Settle
<1> HIDE DEF s
<1>8. \A t \in Stripes : epoch'[t] >= epoch[t]
  BY Reflexive, Successor, <1>3, <1>6
<1>9. Writes(w) /\ UNCHANGED <<wcmd, wkeys, drop, ep, fpc, ftodo>>
  BY <1>2, <1>4 DEF Writes, WriterFrame, transVars, readerVars, fillVars
<1>10. OthersKeep(w) /\ NewUnderLock(prot, prot', w) /\ NewUnderLock(prob, prob', w)
  BY <1>2, <1>5, ShrinksNew DEF OthersKeep
<1>11. Ordered(w)
  <2>1. \A j \in Keys : origin'[j].ver >= origin[j].ver
    <3>1. \A j \in Keys : origin[j].ver \in Nat /\ origin'[j].ver = origin[j].ver
      BY <1>2, WriterFacts
    <3> QED
      BY Reflexive, <3>1
  <2>2. \A t \in Stripes : lock[t] # None => epoch'[t] = epoch[t]
    BY <1>3, <1>6
  <2>3. \A j \in Keys : lock[StripeOf[j]] # None => settled'[j] = settled[j]
    BY <1>3, <1>7 DEF s
  <2> QED
    BY <1>8, <2>1, <2>2, <2>3 DEF Ordered
<1>12. Outlasts(w)
  <2>1. SUFFICES ASSUME NEW r \in Readers, NEW j \in Keys, Storable(r, j)'
                 PROVE  /\ got[r][j].ver >= settled'[j]
                        /\ Barrier(w, j)' => got[r][j].ver >= wver'[w][j]
    BY DEF Outlasts
  <2>2. Storable(r, j) /\ epoch'[StripeOf[j]] = epoch[StripeOf[j]]
    BY <1>8, <1>9, <2>1, StorableBefore
  <2>3. StripeOf[j] = s => s \in adv[w]
    <3>1. epoch[s] \in Nat /\ epoch[s] + 1 # epoch[s]
      BY Successor, <1>3
    <3> QED
      BY <1>6, <2>2, <3>1
  <2>4. /\ got[r][j].ver >= settled[j]
        /\ Barrier(w, j) => got[r][j].ver >= wver[w][j]
    BY <2>2, WriterFacts DEF FillInv
  <2>5. got[r][j].ver >= settled'[j]
    BY <1>7, <2>3, <2>4 DEF Barrier, s
  <2>6. Barrier(w, j)' => Barrier(w, j)
    BY <1>2, <1>4, <1>9, <2>3 DEF Barrier
  <2> QED
    BY <1>2, <2>4, <2>5, <2>6
<1>13. ASSUME NEW j \in Keys
       PROVE  KeyInv(j)'
  <2>1. CASE j = k
    BY <1>2, <1>3, <1>5, <1>7, <2>1, WriterFacts DEF KeyInv, WriterInv
  <2>2. CASE j # k
    BY <1>2, <1>5, <1>7, <2>2, WriterFacts DEF KeyInv, Shrinks
  <2> QED
    BY <2>1, <2>2
<1>14. WriterInv(w)'
  BY <1>2, <1>3, <1>4, <1>9 DEF WriterInv
<1> QED
  BY <1>9, <1>10, <1>11, <1>12, <1>13, <1>14, WriterKeeps

\* A plain SET has one key.
LEMMA ThroughKey ==
  ASSUME IInv, NEW w \in Writers, wpc[w] \in {"through", "throughStore"}
  PROVE  wcmd[w] = "SET" /\ \E k \in Keys : wkeys[w] = {k}
BY WriterFacts DEF WriterInv

LEMMA WriteThroughSafe ==
  ASSUME IInv, TypeOK', NEW w \in Writers, WriteThrough(w)
  PROVE  StripeDiscipline'
<1>1. PICK k \in Keys : wkeys[w] = {k}
  BY ThroughKey DEF WriteThrough
<1> DEFINE s == StripeOf[k]
<1>2. /\ wpc[w] = "through" /\ WriterFrame
      /\ UNCHANGED <<origin, prot, adv, wver, settled>>
      /\ lock[s] = None /\ lock' = [lock EXCEPT ![s] = w]
      /\ epoch' = [epoch EXCEPT ![s] = @ + 1] /\ prob' = Without(prob, k)
      /\ wpc' = [wpc EXCEPT ![w] = "throughStore"]
  BY <1>1 DEF WriteThrough, WGoto
<1>3. /\ s \in Stripes /\ w # None /\ w \in Procs
      /\ wpc \in [Writers -> WriterPC] /\ epoch \in [Stripes -> Nat]
      /\ lock \in [Stripes -> Procs \cup {None}] /\ prob \in [Keys -> Entry]
      /\ WriterInv(w)
  BY WriterFacts
<1>4. /\ Shrinks(prot, prot') /\ Shrinks(prob, prob') /\ ~Present(prob'[k])
  BY <1>2, <1>3, WithoutShrinks, ShrinksSelf
<1>5. /\ \A t \in Stripes \ {s} : epoch'[t] = epoch[t] /\ lock'[t] = lock[t]
      /\ epoch'[s] = epoch[s] + 1 /\ lock'[s] = w
  BY <1>2, <1>3
<1> HIDE DEF s
<1>6. \A t \in Stripes : epoch'[t] >= epoch[t]
  BY Reflexive, Successor, <1>3, <1>5
<1>7. Writes(w) /\ wpc'[w] = "throughStore" /\ UNCHANGED <<wcmd, wkeys, drop, ep, fpc, ftodo>>
  BY <1>2, <1>3 DEF Writes, WriterFrame, transVars, readerVars, fillVars
<1>8. OthersKeep(w) /\ NewUnderLock(prot, prot', w) /\ NewUnderLock(prob, prob', w)
  BY <1>2, <1>4, <1>5, ShrinksNew DEF OthersKeep
<1>9. Ordered(w)
  <2>1. \A j \in Keys : origin'[j].ver >= origin[j].ver
    <3>1. \A j \in Keys : origin[j].ver \in Nat /\ origin'[j].ver = origin[j].ver
      BY <1>2, WriterFacts
    <3> QED
      BY Reflexive, <3>1
  <2>2. \A t \in Stripes : lock[t] # None => epoch'[t] = epoch[t]
    BY <1>2, <1>5
  <2> QED
    BY <1>2, <1>6, <2>1, <2>2 DEF Ordered
<1>10. Outlasts(w)
  <2>1. SUFFICES ASSUME NEW r \in Readers, NEW j \in Keys, Storable(r, j)'
                 PROVE  /\ got[r][j].ver >= settled'[j]
                        /\ Barrier(w, j)' => got[r][j].ver >= wver'[w][j]
    BY DEF Outlasts
  <2>2. Storable(r, j) /\ epoch'[StripeOf[j]] = epoch[StripeOf[j]]
    BY <1>6, <1>7, <2>1, StorableBefore
  <2>3. j # k
    <3>1. epoch[s] \in Nat /\ epoch[s] + 1 # epoch[s]
      BY Successor, <1>3
    <3> QED
      BY <1>5, <2>2, <3>1 DEF s
  <2>4. ~Barrier(w, j)'
    BY <1>1, <1>7, <2>3 DEF Barrier
  <2> QED
    BY <1>2, <2>2, <2>4, WriterFacts DEF FillInv
<1>11. \A j \in Keys : KeyInv(j)'
  BY <1>2, <1>4, ShrinksKeyInv DEF IInv
<1>12. WriterInv(w)'
  BY <1>1, <1>2, <1>3, <1>4, <1>5, <1>7 DEF WriterInv, s
<1> QED
  BY <1>7, <1>8, <1>9, <1>10, <1>11, <1>12, WriterKeeps

LEMMA WriteThroughStoreSafe ==
  ASSUME IInv, TypeOK', NEW w \in Writers, WriteThroughStore(w)
  PROVE  StripeDiscipline'
<1>1. PICK k \in Keys : wkeys[w] = {k}
  BY ThroughKey DEF WriteThroughStore
<1> DEFINE s == StripeOf[k]
<1>2. /\ wpc[w] = "throughStore" /\ WriterFrame
      /\ UNCHANGED <<origin, prob, epoch, adv, wver>>
      /\ lock' = [lock EXCEPT ![s] = None] /\ Settle(w, k)
      /\ wpc' = [wpc EXCEPT ![w] = "forget"]
      /\ \/ prot' \in Put(prot, closed["prot"], k, wver[w][k])
         \/ prot' = Without(prot, k)
  BY <1>1 DEF WriteThroughStore, WGoto
<1>3. /\ s \in Stripes /\ w # None /\ wver \in [Writers -> [Keys -> Nat]]
      /\ wpc \in [Writers -> WriterPC] /\ epoch \in [Stripes -> Nat]
      /\ lock \in [Stripes -> Procs \cup {None}] /\ prot \in [Keys -> Entry]
      /\ settled \in [Keys -> Nat] /\ WriterInv(w)
  BY WriterFacts
<1>4. lock[s] = w /\ ~Present(prob[k]) /\ wver[w][k] >= 1 /\ adv[w] = {}
  BY <1>1, <1>2, <1>3 DEF WriterInv
<1>5. PutsOnly(prot, prot', k, wver[w][k])
  <2>1. ASSUME prot' = Without(prot, k)
        PROVE  PutsOnly(prot, prot', k, wver[w][k])
    <3>1. Shrinks(prot, prot') /\ ~Present(prot'[k])
      BY <1>3, <2>1, WithoutShrinks
    <3> QED
      BY <3>1 DEF Shrinks, PutsOnly
  <2>2. prot' \in Put(prot, closed["prot"], k, wver[w][k]) =>
          PutsOnly(prot, prot', k, wver[w][k])
    BY <1>3, PutStores
  <2> QED
    BY <1>2, <2>1, <2>2
<1>6. settled'[k] = wver[w][k] /\ \A j \in Keys \ {k} : settled'[j] = settled[j]
  <2>1. wver[w][k] # 0
    BY Positive, <1>3, <1>4
  <2> QED
    BY <1>2, <1>3, <2>1 DEF Settle
<1>7. \A t \in Stripes \ {s} : lock'[t] = lock[t]
  BY <1>2, <1>3
<1>8. Writes(w) /\ wpc'[w] = "forget" /\ UNCHANGED <<wcmd, wkeys, drop, ep, fpc, ftodo>>
  BY <1>2, <1>3 DEF Writes, WriterFrame, transVars, readerVars, fillVars
<1>9. OthersKeep(w) /\ NewUnderLock(prot, prot', w) /\ NewUnderLock(prob, prob', w)
  BY <1>2, <1>4, <1>5, <1>7 DEF OthersKeep, NewUnderLock, PutsOnly
<1> HIDE DEF s
<1>10. Ordered(w)
  <2>1. \A j \in Keys : origin'[j].ver >= origin[j].ver
    <3>1. \A j \in Keys : origin[j].ver \in Nat /\ origin'[j].ver = origin[j].ver
      BY <1>2, WriterFacts
    <3> QED
      BY <3>1, Reflexive
  <2>2. \A t \in Stripes : epoch'[t] >= epoch[t]
    <3>1. \A t \in Stripes : epoch'[t] = epoch[t] /\ epoch[t] \in Nat
      BY <1>2, <1>3
    <3> QED
      BY Reflexive, <3>1
  <2>3. \A j \in Keys : lock[StripeOf[j]] # w => settled'[j] = settled[j]
    BY <1>4, <1>6 DEF s
  <2> QED
    BY <1>2, <2>1, <2>2, <2>3 DEF Ordered
<1>11. Outlasts(w)
  <2>1. SUFFICES ASSUME NEW r \in Readers, NEW j \in Keys, Storable(r, j)'
                 PROVE  got[r][j].ver >= settled'[j]
    BY <1>8 DEF Outlasts, Barrier
  <2>2. Storable(r, j)
    BY <1>2, <1>8, <2>1 DEF Storable
  <2>3. /\ got[r][j].ver >= settled[j]
        /\ Barrier(w, j) => got[r][j].ver >= wver[w][j]
    BY <2>2, WriterFacts DEF FillInv
  <2>4. Barrier(w, k)
    BY <1>1, <1>2 DEF Barrier
  <2> QED
    BY <1>6, <2>3, <2>4
<1>12. ASSUME NEW j \in Keys
       PROVE  KeyInv(j)'
  <2>1. CASE j = k
    <3>1. /\ wver[w][k] \in Nat /\ wver[w][k] <= origin[k].ver
          /\ settled'[k] = wver[w][k] /\ UNCHANGED <<origin, prob>>
      <4>1. wver[w][k] \in Nat
        BY <1>3
      <4>2. wver[w][k] <= origin[k].ver
        BY <1>3 DEF WriterInv
      <4> QED
        BY <1>2, <1>6, <4>1, <4>2
    <3>2. Present(prot'[k]) => prot'[k].ver = wver[w][k]
      BY <1>5 DEF PutsOnly
    <3>3. ~Present(prob'[k])
      BY <1>4, <3>1
    <3> QED
      BY <2>1, <3>1, <3>2, <3>3, Reflexive DEF KeyInv
  <2>2. CASE j # k
    BY <1>2, <1>5, <1>6, <2>2, WriterFacts DEF KeyInv, PutsOnly
  <2> QED
    BY <2>1, <2>2
<1>13. WriterInv(w)'
  BY ZenonT(30), <1>2, <1>3, <1>4, <1>8 DEF WriterInv
<1> QED
  BY <1>8, <1>9, <1>10, <1>11, <1>12, <1>13, WriterKeeps
-----------------------------------------------------------------------------
(***************************************************************************)
(* Administrative calls.                                                   *)
(***************************************************************************)
LEMMA AdminFacts ==
  ASSUME IInv, NEW a \in Admins
  PROVE  /\ a \in Procs /\ a \notin Readers /\ a \notin Writers /\ a # None
         /\ apc \in [Admins -> AdminPC] /\ alock \in [Admins -> 0 .. NumStripes]
         /\ NumStripes \in Nat /\ Stripes = 0 .. NumStripes - 1 /\ NumStripes > 0
         /\ lock \in [Stripes -> Procs \cup {None}] /\ epoch \in [Stripes -> Nat]
         /\ prot \in [Keys -> Entry] /\ prob \in [Keys -> Entry]
         /\ AdminInv(a) /\ DropInv(a)
BY SMTT(30), NoneFresh, ServiceAssumption DEF IInv, StripeDiscipline, TypeOK, TypeShared, TypeAdmin,
   Procs, Stripes

\* A step of a that stores nothing.
LEMMA AdminKeeps ==
  ASSUME IInv, TypeOK', NEW a \in Admins, AdminFrame,
         \A b \in Admins \ {a} : apc'[b] = apc[b] /\ alock'[b] = alock[b],
         \A q \in Procs \ {a} : drop'[q] = drop[q],
         \A s \in Stripes : epoch'[s] >= epoch[s],
         \A s \in Stripes : lock[s] \notin {None, a} => epoch'[s] = epoch[s],
         OthersKeep(a), Shrinks(prot, prot'), Shrinks(prob, prob'),
         DropInv(a)', AdminInv(a)'
  PROVE  StripeDiscipline'
<1>1. UNCHANGED <<origin, settled, readerVars, fillVars, writerVars, aop>>
  BY DEF AdminFrame
<1>2. Outside(a)
  BY <1>1 DEF Outside, readerVars, fillVars, writerVars
<1>3. Ordered(a)
  <2>1. \A k \in Keys : origin[k].ver \in Nat /\ origin'[k] = origin[k]
    BY <1>1 DEF IInv, TypeOK, TypeShared, Value
  <2>2. \A k \in Keys : origin'[k].ver >= origin[k].ver
    BY Reflexive, <2>1
  <2> QED
    BY <1>1, <2>2 DEF Ordered
<1>4. Outlasts(a)
  <2>1. UNCHANGED <<ep, fpc, ftodo>>
    BY <1>1 DEF readerVars, fillVars
  <2>2. \A r \in Readers, k \in Keys : Storable(r, k)' => Storable(r, k)
    BY <2>1, StorableBefore
  <2>3. \A r \in Readers, k \in Keys : Storable(r, k) => got[r][k].ver >= settled[k]
    BY DEF IInv, StripeDiscipline, FillInv
  <2> QED
    BY <1>1, <2>2, <2>3, AdminFacts DEF Outlasts
<1>5. /\ \A k \in Keys : KeyInv(k)'
      /\ NewUnderLock(prot, prot', a) /\ NewUnderLock(prob, prob', a)
  BY <1>1, ShrinksKeyInv, ShrinksNew DEF IInv
<1>6. a \notin Readers /\ a \notin Writers
  BY AdminFacts
<1> QED
  BY <1>2, <1>3, <1>4, <1>5, <1>6, OutsideKeeps

\* The steps that leave the epochs alone.
LEMMA AdminElsewhere ==
  ASSUME IInv, TypeOK', NEW a \in Admins, AdminFrame, UNCHANGED epoch,
         \A b \in Admins \ {a} : apc'[b] = apc[b] /\ alock'[b] = alock[b],
         \A q \in Procs \ {a} : drop'[q] = drop[q],
         OthersKeep(a), Shrinks(prot, prot'), Shrinks(prob, prob'),
         DropInv(a)', AdminInv(a)'
  PROVE  StripeDiscipline'
<1>1. \A s \in Stripes : epoch[s] \in Nat /\ epoch'[s] = epoch[s]
  BY AdminFacts
<1>2. \A s \in Stripes : epoch'[s] >= epoch[s]
  BY Reflexive, <1>1
<1> QED
  BY <1>1, <1>2, AdminKeeps

\* Only a purge of everything holds stripes from one step to the next.
LEMMA NoPurge ==
  ASSUME IInv, NEW a \in Admins, aop[a] # "purgeAll"
  PROVE  alock[a] = 0
<1>1. alock[a] \in 0 .. NumStripes /\ ~(alock[a] > 0)
  BY AdminFacts DEF AdminInv
<1> QED
  BY SMT, <1>1

\* Catch-up, the last step of a purge, a full purge of a tier, and Close.
LEMMA AdminTiersSafe ==
  ASSUME IInv, TypeOK', NEW a \in Admins,
         \/ AdvanceTracker(a) \/ ForgetPurged(a) \/ PurgeTier(a) \/ CloseService(a)
  PROVE  StripeDiscipline'
<1> USE DEF AdvanceTracker, ForgetPurged, PurgeTier, CloseService
<1>1. /\ AdminFrame /\ UNCHANGED <<epoch, lock, alock, drop>>
      /\ prot' = prot \/ prot' = [k \in Keys |-> NoEntry]
      /\ prob' = prob \/ prob' = [k \in Keys |-> NoEntry]
  BY DEF transVars
<1>2. \/ aop[a] = "advance" /\ \E label \in {"done", "apply"} : AGoto(a, label)
      \/ apc[a] = "forget" /\ AGoto(a, "done")
      \/ apc[a] \in Purging /\ \E label \in Purging : AGoto(a, label)
      \/ aop[a] = "close" /\ \E label \in {"done", "closeProt", "closeProb", "closeOrigin"} :
                               AGoto(a, label)
  BY DEF Purging
<1> HIDE DEF AdvanceTracker, ForgetPurged, PurgeTier, CloseService
<1>3. apc \in [Admins -> AdminPC] /\ AdminInv(a) /\ DropInv(a) /\ UNCHANGED aop
  BY <1>1, AdminFacts DEF AdminFrame
<1>4. /\ \A b \in Admins \ {a} : apc'[b] = apc[b] /\ alock'[b] = alock[b]
      /\ apc'[a] = "apply" => aop[a] = "advance"
      /\ apc'[a] \in Purging => apc[a] \in Purging
  BY <1>1, <1>2, <1>3 DEF AGoto, Purging
<1>5. AdminInv(a)' /\ DropInv(a)' /\ OthersKeep(a)
  BY <1>1, <1>3, <1>4 DEF AdminInv, DropInv, OthersKeep
<1>6. Shrinks(prot, prot') /\ Shrinks(prob, prob')
  BY <1>1, ShrinksSelf, EmptyShrinks
<1> QED
  BY <1>1, <1>4, <1>5, <1>6, AdminElsewhere

LEMMA HandleTransitionsSafe ==
  ASSUME IInv, TypeOK', NEW a \in Admins, HandleTransitions(a)
  PROVE  StripeDiscipline'
<1>1. /\ apc[a] = "apply" /\ ApplyDemotion(a) /\ AdminFrame /\ UNCHANGED <<epoch, alock>>
      /\ \E label \in {"done", "apply"} : AGoto(a, label)
  BY DEF HandleTransitions
<1>2. /\ apc \in [Admins -> AdminPC] /\ AdminInv(a) /\ UNCHANGED aop /\ a \in Procs
      /\ alock \in [Admins -> 0 .. NumStripes] /\ NumStripes \in Nat
      /\ Stripes = 0 .. NumStripes - 1
  BY <1>1, AdminFacts DEF AdminFrame
<1>3. aop[a] = "advance" /\ alock[a] = 0
  BY <1>1, <1>2, NoPurge DEF AdminInv
<1>4. \A b \in Admins \ {a} : apc'[b] = apc[b] /\ alock'[b] = alock[b]
  BY <1>1, <1>2 DEF AGoto
<1>5. apc'[a] \in {"done", "apply"}
  BY <1>1, <1>2 DEF AGoto
<1>6. AdminInv(a)'
  BY <1>1, <1>2, <1>3, <1>5, NoneBelowZero DEF AdminInv, Purging
<1>7. /\ Shrinks(prot, prot') /\ Shrinks(prob, prob') /\ OthersKeep(a) /\ DropInv(a)'
      /\ \A q \in Procs \ {a} : drop'[q] = drop[q]
  BY <1>1, <1>2, ApplyDemotionSafe
<1> QED
  BY <1>1, <1>4, <1>6, <1>7, AdminElsewhere

LEMMA PurgeKeySafe ==
  ASSUME IInv, TypeOK', NEW a \in Admins, PurgeKey(a)
  PROVE  StripeDiscipline'
<1> DEFINE k == akey[a]
           s == StripeOf[k]
<1>1. /\ aop[a] = "purgeKey" /\ AGoto(a, "forget") /\ AdminFrame
      /\ UNCHANGED <<lock, drop, alock>> /\ lock[s] = None
      /\ epoch' = [epoch EXCEPT ![s] = @ + 1]
      /\ prot' = Without(prot, k) /\ prob' = Without(prob, k)
  BY DEF PurgeKey, InvalidateKey, transVars
<1>2. k \in Keys /\ s \in Stripes
  BY StripeKnown DEF IInv, TypeOK, TypeAdmin
<1>3. /\ apc \in [Admins -> AdminPC] /\ AdminInv(a) /\ DropInv(a) /\ UNCHANGED aop
      /\ epoch \in [Stripes -> Nat] /\ prot \in [Keys -> Entry] /\ prob \in [Keys -> Entry]
  BY <1>1, AdminFacts DEF AdminFrame
<1>4. /\ Shrinks(prot, prot') /\ Shrinks(prob, prob')
  BY <1>1, <1>2, <1>3, WithoutShrinks
<1>5. /\ \A t \in Stripes \ {s} : epoch'[t] = epoch[t]
      /\ epoch'[s] = epoch[s] + 1
  BY <1>1, <1>2, <1>3
<1> HIDE DEF k, s
<1>6. /\ \A t \in Stripes : epoch'[t] >= epoch[t]
      /\ \A t \in Stripes : lock[t] \notin {None, a} => epoch'[t] = epoch[t]
  BY Reflexive, Successor, <1>1, <1>3, <1>5
<1>7. /\ \A b \in Admins \ {a} : apc'[b] = apc[b] /\ alock'[b] = alock[b]
      /\ apc'[a] = "forget"
  BY <1>1, <1>3 DEF AGoto
<1>8. AdminInv(a)' /\ DropInv(a)' /\ OthersKeep(a)
  BY <1>1, <1>3, <1>7 DEF AdminInv, DropInv, OthersKeep, Purging
<1> QED
  BY <1>1, <1>4, <1>6, <1>7, <1>8, AdminKeeps

LEMMA LockAllStripesSafe ==
  ASSUME IInv, TypeOK', NEW a \in Admins, LockAllStripes(a)
  PROVE  StripeDiscipline'
<1> DEFINE s == alock[a]
<1>1. /\ aop[a] = "purgeAll" /\ s < NumStripes /\ lock[s] = None /\ AdminFrame
      /\ lock' = [lock EXCEPT ![s] = a] /\ alock' = [alock EXCEPT ![a] = s + 1]
      /\ AGoto(a, IF s + 1 = NumStripes THEN "purgeProt" ELSE "lock")
      /\ UNCHANGED <<prot, prob, epoch, drop>>
  BY DEF LockAllStripes, transVars
<1>2. /\ apc \in [Admins -> AdminPC] /\ alock \in [Admins -> 0 .. NumStripes]
      /\ NumStripes \in Nat /\ Stripes = 0 .. NumStripes - 1 /\ a # None
      /\ lock \in [Stripes -> Procs \cup {None}] /\ AdminInv(a) /\ DropInv(a) /\ UNCHANGED aop
  BY <1>1, AdminFacts DEF AdminFrame
<1>3. s \in Stripes /\ s \in Nat
  BY SMT, <1>1, <1>2
<1>4. /\ \A b \in Admins \ {a} : apc'[b] = apc[b] /\ alock'[b] = alock[b]
      /\ alock'[a] = s + 1
      /\ apc'[a] = IF s + 1 = NumStripes THEN "purgeProt" ELSE "lock"
  BY <1>1, <1>2 DEF AGoto
<1>5. lock'[s] = a /\ \A t \in Stripes \ {s} : lock'[t] = lock[t]
  BY <1>1, <1>2, <1>3
<1>6. drop[a] = None
  BY <1>1, <1>2 DEF AdminInv
<1>7. \A t \in Stripes : t < s => lock[t] = a
  BY <1>2 DEF AdminInv
<1> HIDE DEF s
<1>8. \A t \in Stripes : t < s + 1 => lock'[t] = a
  BY SMT, <1>2, <1>3, <1>5, <1>7
<1>9. AdminInv(a)'
  BY <1>1, <1>2, <1>4, <1>6, <1>8 DEF AdminInv, Purging
<1>10. DropInv(a)' /\ OthersKeep(a)
  BY <1>1, <1>5, <1>6 DEF DropInv, OthersKeep
<1>11. Shrinks(prot, prot') /\ Shrinks(prob, prob') /\ \A q \in Procs \ {a} : drop'[q] = drop[q]
  BY <1>1, ShrinksSelf
<1> QED
  BY <1>1, <1>4, <1>9, <1>10, <1>11, AdminElsewhere

LEMMA AdvanceEpochsSafe ==
  ASSUME IInv, TypeOK', NEW a \in Admins, AdvanceEpochs(a)
  PROVE  StripeDiscipline'
<1>1. /\ apc[a] = "bump" /\ epoch' = [s \in Stripes |-> epoch[s] + 1] /\ AdminFrame
      /\ lock' = [s \in Stripes |-> None] /\ alock' = [alock EXCEPT ![a] = 0]
      /\ apc' = [apc EXCEPT ![a] = "done"] /\ UNCHANGED <<prot, prob, drop>>
  BY DEF AdvanceEpochs, EpochsAdvanced, AGoto, transVars
<1>2. /\ apc \in [Admins -> AdminPC] /\ alock \in [Admins -> 0 .. NumStripes]
      /\ NumStripes \in Nat /\ NumStripes > 0 /\ Stripes = 0 .. NumStripes - 1
      /\ epoch \in [Stripes -> Nat] /\ AdminInv(a) /\ UNCHANGED aop
  BY <1>1, AdminFacts DEF AdminFrame
<1>3. alock[a] = NumStripes /\ aop[a] = "purgeAll" /\ drop[a] = None
  BY <1>1, <1>2 DEF AdminInv, Purging
<1>4. \A s \in Stripes : lock[s] = a
  <2>1. \A s \in Stripes : s < alock[a] => lock[s] = a
    BY <1>2, Zenon DEF AdminInv
  <2> QED
    BY <1>3, <2>1, StripesBelow, Zenon
<1>5. /\ \A s \in Stripes : epoch'[s] >= epoch[s]
      /\ \A s \in Stripes : lock[s] \notin {None, a} => epoch'[s] = epoch[s]
  BY Successor, <1>1, <1>2, <1>4
<1>6. /\ \A b \in Admins \ {a} : apc'[b] = apc[b] /\ alock'[b] = alock[b]
      /\ alock'[a] = 0 /\ apc'[a] = "done"
  BY <1>1, <1>2
<1>7. AdminInv(a)' /\ DropInv(a)' /\ OthersKeep(a)
  <2>1. AdminInv(a)'
    BY <1>1, <1>2, <1>3, <1>6, NoneBelowZero DEF AdminInv, Purging
  <2>2. DropInv(a)' /\ OthersKeep(a)
    BY <1>1, <1>3, <1>4 DEF DropInv, OthersKeep
  <2> QED
    BY <2>1, <2>2
<1>8. Shrinks(prot, prot') /\ Shrinks(prob, prob')
  BY <1>1, ShrinksSelf
<1> QED
  BY <1>1, <1>5, <1>6, <1>7, <1>8, AdminKeeps
-----------------------------------------------------------------------------
(***************************************************************************)
(* The environment, and the theorems.                                      *)
(***************************************************************************)
LEMMA AgedShrinks ==
  ASSUME NEW t \in [Keys -> Entry], NEW k \in Keys, Present(t[k]), NEW age
  PROVE  Shrinks(t, [t EXCEPT ![k].age = age])
BY DEF Shrinks, Present, Entry

LEMMA EnvironmentSafe ==
  ASSUME IInv, TypeOK', NEW k \in Keys, Expire(k) \/ ExternalWrite(k)
  PROVE  StripeDiscipline'
<1>1. /\ UNCHANGED <<epoch, lock, settled, readerVars, transVars, fillVars, writerVars,
                     adminVars>>
      /\ prot' = prot \/ \E age : Present(prot[k]) /\ prot' = [prot EXCEPT ![k].age = age]
      /\ prob' = prob \/ \E age : Present(prob[k]) /\ prob' = [prob EXCEPT ![k].age = age]
      /\ origin' = origin \/ origin' \in Applied("SET", {k})
  <2>1. CASE Expire(k)
    BY <2>1 DEF Expire, Aged, Present, Fresh, histVars
  <2>2. CASE ExternalWrite(k)
    BY <2>2 DEF ExternalWrite, histVars
  <2> QED
    BY <2>1, <2>2
<1>2. /\ prot \in [Keys -> Entry] /\ prob \in [Keys -> Entry]
      /\ \A j \in Keys : origin[j].ver \in Nat
      /\ \A s \in Stripes : epoch[s] \in Nat
  BY DEF IInv, TypeOK, TypeShared, Value
<1>3. Shrinks(prot, prot') /\ Shrinks(prob, prob')
  <2>1. \A age : /\ Present(prot[k]) => Shrinks(prot, [prot EXCEPT ![k].age = age])
                 /\ Present(prob[k]) => Shrinks(prob, [prob EXCEPT ![k].age = age])
    BY <1>2, AgedShrinks
  <2>2. Shrinks(prot, prot')
    BY <1>1, <2>1, ShrinksSelf
  <2>3. Shrinks(prob, prob')
    BY <1>1, <2>1, ShrinksSelf
  <2> QED
    BY <2>2, <2>3
<1>4. \A j \in Keys : origin'[j].ver >= origin[j].ver
  <2>1. CASE origin' = origin
    BY Reflexive, <1>2, <2>1
  <2>2. CASE origin' \in Applied("SET", {k})
    BY <2>2, AppliedGrows DEF IInv
  <2> QED
    BY <1>1, <2>1, <2>2
<1>5. \A s \in Stripes : epoch'[s] >= epoch[s]
  <2>1. \A s \in Stripes : epoch'[s] = epoch[s]
    BY <1>1
  <2> QED
    BY Reflexive, <1>2, <2>1
<1>6. Ordered(None) /\ OthersKeep(None)
  BY <1>1, <1>4, <1>5 DEF Ordered, OthersKeep
<1>7. Outside(None)
  BY <1>1 DEF Outside, readerVars, transVars, fillVars, writerVars, adminVars
<1>8. NewUnderLock(prot, prot', None) /\ NewUnderLock(prob, prob', None)
  BY <1>3, ShrinksNew
<1>9. Outlasts(None)
  <2>1. UNCHANGED <<ep, fpc, ftodo>>
    BY <1>1 DEF readerVars, fillVars
  <2>2. \A r \in Readers, j \in Keys : Storable(r, j)' => Storable(r, j)
    BY <1>5, <2>1, StorableBefore
  <2>3. \A r \in Readers, j \in Keys : Storable(r, j) => got[r][j].ver >= settled[j]
    BY DEF IInv, StripeDiscipline, FillInv
  <2> QED
    BY <1>1, <2>2, <2>3, NoneFresh DEF Outlasts, Procs
<1>10. ASSUME NEW j \in Keys
       PROVE  KeyInv(j)'
  <2>1. /\ settled[j] \in Nat /\ origin[j].ver \in Nat /\ KeyInv(j)
    BY <1>2 DEF IInv, StripeDiscipline, TypeOK, TypeHistory
  <2>2. origin'[j].ver \in Nat /\ origin'[j].ver >= origin[j].ver
    BY <1>4 DEF TypeOK, TypeShared, Value
  <2>3. settled'[j] <= origin'[j].ver
    BY Transitive, <1>1, <2>1, <2>2 DEF KeyInv
  <2> QED
    BY <1>1, <1>3, <2>1, <2>3 DEF KeyInv, Shrinks
<1> QED
  BY <1>6, <1>7, <1>8, <1>9, <1>10, OutsideKeeps, NoneFresh DEF Procs

LEMMA StutterSafe ==
  ASSUME IInv, UNCHANGED vars
  PROVE  StripeDiscipline'
<1>1. /\ UNCHANGED <<origin, prot, prob, epoch, lock, pc, cur, cand, ep, drop, fpc, ftodo>>
      /\ UNCHANGED <<fkey, got, wpc, wcmd, wkeys, adv, wver, apc, aop, alock, settled>>
  BY DEF vars, sharedVars, readerVars, transVars, fillVars, writerVars, adminVars, histVars
<1> USE DEF IInv, StripeDiscipline
<1>2. ASSUME NEW r \in Readers
      PROVE  ReaderInv(r)'
  BY <1>1 DEF ReaderInv, Stripe
<1>3. ASSUME NEW r \in Readers
      PROVE  FillInv(r)'
  <2>1. /\ \A k \in Keys : Storable(r, k)' <=> Storable(r, k)
        /\ \A w \in Writers, k \in Keys : Barrier(w, k)' <=> Barrier(w, k)
    BY <1>1 DEF Storable, Barrier
  <2> QED
    BY <1>1, <2>1 DEF FillInv
<1>4. /\ \A p \in Procs : DropInv(p)'
      /\ \A k \in Keys : KeyInv(k)'
  BY <1>1 DEF DropInv, KeyInv
<1>5. ASSUME NEW w \in Writers
      PROVE  WriterInv(w)'
  BY <1>1 DEF WriterInv
<1>6. ASSUME NEW a \in Admins
      PROVE  AdminInv(a)'
  BY <1>1 DEF AdminInv
<1> QED
  BY <1>2, <1>3, <1>4, <1>5, <1>6

LEMMA InitSafe ==
  ASSUME Init
  PROVE  StripeDiscipline
<1>1. ASSUME NEW r \in Readers
      PROVE  ReaderInv(r) /\ FillInv(r)
  <2>1. /\ pc[r] = "next" /\ fpc[r] = "none" /\ drop[r] = None /\ r \in Procs
        /\ \A k \in Keys : ep[r][k] = 0 /\ epoch[StripeOf[k]] = 0
    BY StripeKnown DEF Init, Procs
  <2> QED
    BY <2>1, Reflexive DEF ReaderInv, FillInv, Holding, Reconciling, Storable
<1>2. ASSUME NEW p \in Procs
      PROVE  DropInv(p)
  BY DEF Init, DropInv
<1>3. ASSUME NEW w \in Writers
      PROVE  WriterInv(w)
  <2>1. /\ wpc[w] = "gate" /\ adv[w] = {} /\ drop[w] = None
        /\ \A k \in Keys : wver[w][k] = 0 /\ origin[k].ver = 0
    BY DEF Init, Procs
  <2>2. wcmd[w] # "DEL" => \E k \in Keys : wkeys[w] = {k}
    <3>1. wkeys[w] \in KeySets(wcmd[w] # "DEL")
      BY DEF Init
    <3> QED
      BY <3>1 DEF KeySets
  <2> QED
    BY <2>1, <2>2, Reflexive DEF WriterInv
<1>4. ASSUME NEW a \in Admins
      PROVE  AdminInv(a)
  <2>1. apc[a] = "start" /\ alock[a] = 0 /\ drop[a] = None
    BY DEF Init, Procs
  <2> QED
    BY <2>1, NoneBelowZero DEF AdminInv, Purging
<1>5. ASSUME NEW k \in Keys
      PROVE  KeyInv(k)
  <2>1. origin[k].ver = 0 /\ settled[k] = 0
    BY DEF Init
  <2>2. prot[k].ver = 0 /\ prob[k].ver = 0 /\ ~(Present(prot[k]) /\ Present(prob[k]))
    BY SMT DEF Init, Present, NoEntry
  <2> QED
    BY <2>1, <2>2, Reflexive DEF KeyInv
<1> QED
  BY <1>1, <1>2, <1>3, <1>4, <1>5 DEF StripeDiscipline

LEMMA NextSafe ==
  ASSUME IInv, TypeOK', [Next]_vars
  PROVE  StripeDiscipline'
<1>1. ASSUME NEW r \in Readers, ReaderStep(r) \/ ReadTimeout(r)
      PROVE  StripeDiscipline'
  BY <1>1, ObserveSafe, HandleObservationSafe, LookSafe, TakeStripeSafe, AdmitSafe,
     RemoveCandidateSafe, PromoteCandidateSafe, ClearPromotionFlagSafe,
     HandleAdmissionSafe, MissSafe, JoinSafe, AnswerSafe, FetchMissingSafe, FinishMGetSafe
     DEF ReaderStep
<1>2. ASSUME NEW r \in Readers, FillStep(r)
      PROVE  StripeDiscipline'
  BY <1>2, FlightFetchSafe, FillCheckSafe, FillDropSafe, FillStoreSafe, FlightDoneSafe
     DEF FillStep
<1>3. ASSUME NEW w \in Writers, WriterStep(w) \/ GateTimeout(w) \/ Retry(w) \/ LateApply(w)
      PROVE  StripeDiscipline'
  BY <1>3, WriterOriginSafe, DispatchSafe, LateApplySafe, InvalidateKeysSafe,
     WriteThroughSafe, WriteThroughStoreSafe DEF WriterStep
<1>4. ASSUME NEW a \in Admins, AdminStep(a)
      PROVE  StripeDiscipline'
  BY <1>4, AdminTiersSafe, HandleTransitionsSafe, PurgeKeySafe, LockAllStripesSafe,
     AdvanceEpochsSafe DEF AdminStep
<1>5. ASSUME NEW k \in Keys, Expire(k) \/ ExternalWrite(k)
      PROVE  StripeDiscipline'
  BY <1>5, EnvironmentSafe
<1>6. ASSUME Idle \/ UNCHANGED vars
      PROVE  StripeDiscipline'
  BY <1>6, StutterSafe DEF Idle
<1> QED
  BY <1>1, <1>2, <1>3, <1>4, <1>5, <1>6 DEF Next
=============================================================================
