------------------------------- MODULE Service -------------------------------
(***************************************************************************)
(* The request paths of internal/service/service.go: GET and MGET reads,   *)
(* proxied writes, administrative purges, tracker catch-up and shutdown,   *)
(* over two cache tiers, the hotness tracker, the striped cache epochs,    *)
(* the mutation gates and the singleflight group.                          *)
(*                                                                         *)
(* A member of Readers, Writers or Admins is ONE request: what it asks for *)
(* is chosen in Init, and its first step is its arrival.  Values are       *)
(* abstracted to versions: the n-th mutation the origin applies to a key   *)
(* makes version n.  A step is one operation on a shared object, or a      *)
(* stripe critical section whose intermediate states no lock-free reader   *)
(* can tell apart; the sections that a lock-free reader CAN see half done  *)
(* (promotion, reconciliation, write-through, full purge) are split.       *)
(***************************************************************************)
EXTENDS Integers, FiniteSets

CONSTANTS
  Keys,          \* cacheable keys
  Readers,       \* GET and MGET requests
  Writers,       \* ExecuteWrite requests
  Admins,        \* Status/HotKeys, PurgeCache and Close calls
  None,          \* no owner, no flight
  NumStripes,    \* cacheEpochStripeCount
  StripeOf,      \* cacheEpochStripe, any function from keys to stripes
  PolicyMode,    \* the mode the policy matcher gives each key
  Probationary,  \* s.probationary # nil
  AllowStale,    \* AllowStaleOnUpstreamError with StaleGrace > 0
  ReadOps,       \* subset of {"GET", "MGET"}
  WriteOps,      \* subset of {"SET", "DEL", "OTHER"}
  AdminOps,      \* subset of {"advance", "purgeKey", "purgeAll", "close"}
  Env,           \* environment behaviours that may occur, see EnvOptions
  WarmKeys,      \* keys that earlier traffic may have left HOT and cached
  CandidateKeys, \* keys it may have left tracked, with a probationary copy
  MaxVersion,    \* bound on the versions that direct origin writes make
  MaxTries       \* how often the client library sends one write

Stripes == 0 .. NumStripes - 1

EnvOptions ==
  { "demote",    \* the tracker demotes HOT keys
    "promote",   \* the EWMA promotes tracked keys
    "evict",     \* the tracker reuses a non-HOT slot or drops an observation
    "expire",    \* local entries run out of TTL
    "reject",    \* a tier refuses an entry (size, TTL) or evicts others
    "error",     \* origin calls fail or time out
    "late",      \* the origin applies a failed write after the call returned
    "external" } \* writes that bypass the proxy

ASSUME ServiceAssumption ==
  /\ Keys # {}
  /\ NumStripes \in Nat \ {0}
  /\ StripeOf \in [Keys -> Stripes]
  /\ PolicyMode \in [Keys -> {"deny", "observe", "cache"}]
  /\ Probationary \in BOOLEAN /\ AllowStale \in BOOLEAN
  /\ ReadOps \subseteq {"GET", "MGET"}
  /\ WriteOps \subseteq {"SET", "DEL", "OTHER"}
  /\ AdminOps \subseteq {"advance", "purgeKey", "purgeAll", "close"}
  /\ Env \subseteq EnvOptions
  /\ WarmKeys \cup CandidateKeys \subseteq {k \in Keys : PolicyMode[k] = "cache"}
  /\ CandidateKeys # {} => Probationary
  /\ MaxVersion \in Nat /\ MaxTries \in Nat \ {0}
  /\ Readers \cap Writers = {} /\ Readers \cap Admins = {}
  /\ Writers \cap Admins = {}
  /\ None \notin Keys \cup Readers \cup Writers \cup Admins

Procs == Readers \cup Writers \cup Admins

CacheKeys == {k \in Keys : PolicyMode[k] = "cache"}

VARIABLES
  origin,     \* [Keys -> Value]: what the upstream holds
  prot,       \* [Keys -> Entry]: the protected tier, s.cache
  prob,       \* [Keys -> Entry]: the probationary tier
  closed,     \* [Parts -> BOOLEAN]: what Service.Close has shut so far
  track,      \* [Keys -> TrackState]: what the tracker knows of a key
  epoch,      \* cacheEpochs[i].epoch
  lock,       \* cacheEpochs[i].mu, by owner
  promoting,  \* cacheEpochs[i].promotionInProgress
  gate,       \* mutationGates[i], by owner
  group       \* s.group: the current flight of a key

sharedVars == <<origin, prot, prob, closed, track, epoch, lock, promoting,
                gate, group>>

VARIABLES
  pc,         \* [Readers -> STRING]: next step of the request's goroutine
  op,         \* [Readers -> ReadOps]
  todo,       \* keys the current loop of the request still has to visit
  cur,        \* the key being looked up
  hot,        \* observedState = HOT, later "promoting"
  cand,       \* the probationary candidate in hand
  miss,       \* missingKeys
  ep,         \* the epoch captured for a missing key
  res,        \* results by key, NoResult until known
  out,        \* "none", then the outcome "ok" or "error"
  flight      \* the request that leads the flight this one waits for

readerVars == <<pc, op, todo, cur, hot, cand, miss, ep, res, out, flight>>

VARIABLES
  pend,       \* [Procs -> SUBSET Keys]: reported demotions not yet applied
  drop        \* the demoted key whose stripe the process holds to delete it

transVars == <<pend, drop>>

VARIABLES
  fpc,        \* [Readers -> STRING]: the fill a request leads (its flight
              \* goroutine for GET, the request's own loop for MGET)
  ftodo,      \* keys still to be reconciled
  fkey,       \* key being reconciled
  got,        \* values the origin answered
  ferr        \* the origin read failed

fillVars == <<fpc, ftodo, fkey, got, ferr>>

VARIABLES
  wpc,        \* [Writers -> STRING]
  wcmd, wkeys,\* command and its keys
  held,       \* mutation gates acquired
  wtodo,      \* keys the current loop still has to visit
  adv,        \* "advanced" of invalidateCacheKeys
  wver,       \* version the write made, 0 if it was not applied
  wok,        \* the origin acknowledged the write
  whot,       \* IsHot as read by writeThroughSet
  late,       \* the failed write is still on its way to the origin
  tries       \* how often the client library sent the write

writerVars == <<wpc, wcmd, wkeys, held, wtodo, adv, wver, wok, whot, late,
                tries>>

VARIABLES
  apc,        \* [Admins -> STRING]
  aop, akey,  \* operation and key
  alock       \* stripes purgeAllCache has locked so far

adminVars == <<apc, aop, akey, alock>>

VARIABLES     \* history: mentioned by the properties, read by no action
  settled,    \* [Keys -> Nat]: newest version whose write is finalized
  acked,      \* [Keys -> Nat]: newest version whose write was acknowledged
  purged,     \* [Keys -> Nat]: origin version when the key was last purged
  floor,      \* acked as the request began with the key
  had         \* a servable local copy existed as the lookup began; none of the key
              \* has expired since

histVars == <<settled, acked, purged, floor, had>>

vars == <<sharedVars, readerVars, transVars, fillVars, writerVars, adminVars,
          histVars>>
-----------------------------------------------------------------------------
Value == [ver : Nat, exists : BOOLEAN]
Entry == [ver : Nat, age : {"none", "fresh", "grace", "dead"}]
NoEntry == [ver |-> 0, age |-> "none"]
NoResult == -1
TrackState == {"untracked", "tracked", "hot"}
Parts == {"lifetime", "prot", "prob", "origin"}

Present(e) == e.age # "none"
Fresh(e) == e.age = "fresh"
Larger(m, n) == IF m >= n THEN m ELSE n

IsHot(k) == track[k] = "hot"
IsTracked(k) == track[k] # "untracked"

(***************************************************************************)
(* cache.Cache as the service sees it.  A tier refuses an entry that is    *)
(* too large or out of TTL and then drops the older one, a closed tier     *)
(* refuses everything, and an insertion may evict other entries.           *)
(***************************************************************************)
Without(t, k) == [t EXCEPT ![k] = NoEntry]

RefusesNot(shut) == FALSE
Refuses(shut) == shut

Put(t, shut, k, v) ==
  LET Stored(E) == [j \in Keys |-> IF j = k THEN [ver |-> v, age |-> "fresh"]
                                   ELSE IF j \in E THEN NoEntry ELSE t[j]]
  IN  IF Refuses(shut) THEN {Without(t, k)}
      ELSE IF "reject" \in Env
           THEN {Without(t, k)} \cup {Stored(E) : E \in SUBSET (Keys \ {k})}
           ELSE {Stored({})}

\* A Get removes the entry it finds expired; GetStale(key, 0) keeps it.
AfterGet(t, k, keep) == IF Present(t[k]) /\ ~Fresh(t[k]) /\ ~keep
                        THEN Without(t, k) ELSE t

GetFreshProtected(k) == prot' = AfterGet(prot, k, AllowStale)

(***************************************************************************)
(* hotness.Tracker as the service sees it: only HOT, tracked but not HOT,  *)
(* and untracked are told apart.  A catch-up reports in D every key that   *)
(* left HOT on the way and promotes the keys of P.                         *)
(***************************************************************************)
Demotable == IF "demote" \in Env THEN {j \in Keys : IsTracked(j)} ELSE {}
Promotable == IF "promote" \in Env THEN {j \in Keys : track[j] = "tracked"}
              ELSE {}

Advanced(D, P) == [j \in Keys |-> IF j \in D THEN "tracked"
                                  ELSE IF j \in P THEN "hot" ELSE track[j]]

ObserveWithState(k, D, P) ==
  LET base == Advanced(D, P)
      added == [base EXCEPT ![k] = "tracked"]
  IN  IF base[k] # "untracked" THEN {base}
      ELSE {added} \cup
           IF "evict" \in Env
           THEN {base} \cup {[base EXCEPT ![k] = "tracked", ![v] = "untracked"] :
                               v \in {j \in Keys : base[j] = "tracked"}}
           ELSE {}

Admit(k, D, P) == LET base == Advanced(D, P)
                  IN  IF base[k] = "untracked" THEN base
                      ELSE [base EXCEPT ![k] = "hot"]
-----------------------------------------------------------------------------
ReaderPC == {"next", "obs", "lookProt", "lookProb", "recheck", "flag", "lockProt",
             "lateProt", "lockCand", "admit", "flagOn", "takeCand", "promote",
             "flagOff", "admitted", "miss", "join", "wait", "fetch", "mfetch",
             "fill", "stale", "done"}
FillPC == {"none", "fetch", "lock", "drop", "storeProt", "storeProb", "end", "done"}
WriterPC == {"gate", "pre", "send", "sent", "final", "through", "throughStore",
             "forget", "release", "reply", "done"}
AdminPC == {"start", "apply", "forget", "lock", "purgeProt", "purgeProb", "bump",
            "closeProt", "closeProb", "closeOrigin", "done"}

TypeShared ==
  /\ origin \in [Keys -> Value]
  /\ prot \in [Keys -> Entry] /\ prob \in [Keys -> Entry]
  /\ closed \in [Parts -> BOOLEAN]
  /\ track \in [Keys -> TrackState]
  /\ epoch \in [Stripes -> Nat]
  /\ lock \in [Stripes -> Procs \cup {None}]
  /\ promoting \in [Stripes -> BOOLEAN]
  /\ gate \in [Stripes -> Writers \cup {None}]
  /\ group \in [Keys -> Readers \cup {None}]

TypeReader ==
  /\ pc \in [Readers -> ReaderPC]
  /\ op \in [Readers -> {"GET", "MGET"}]
  /\ todo \in [Readers -> SUBSET Keys]
  /\ cur \in [Readers -> Keys]
  /\ hot \in [Readers -> BOOLEAN]
  /\ cand \in [Readers -> Entry]
  /\ miss \in [Readers -> SUBSET Keys]
  /\ ep \in [Readers -> [Keys -> Nat]]
  /\ res \in [Readers -> [Keys -> Nat \cup {NoResult}]]
  /\ out \in [Readers -> {"none", "ok", "error"}]
  /\ flight \in [Readers -> Readers]

TypeTrans ==
  /\ pend \in [Procs -> SUBSET Keys]
  /\ drop \in [Procs -> Keys \cup {None}]

TypeFill ==
  /\ fpc \in [Readers -> FillPC]
  /\ ftodo \in [Readers -> SUBSET Keys]
  /\ fkey \in [Readers -> Keys]
  /\ got \in [Readers -> [Keys -> Value]]
  /\ ferr \in [Readers -> BOOLEAN]

TypeWriter ==
  /\ wpc \in [Writers -> WriterPC]
  /\ wcmd \in [Writers -> {"SET", "DEL", "OTHER"}]
  /\ wkeys \in [Writers -> SUBSET Keys]
  /\ held \in [Writers -> SUBSET Stripes]
  /\ wtodo \in [Writers -> SUBSET Keys]
  /\ adv \in [Writers -> SUBSET Stripes]
  /\ wver \in [Writers -> [Keys -> Nat]]
  /\ wok \in [Writers -> BOOLEAN] /\ whot \in [Writers -> BOOLEAN]
  /\ late \in [Writers -> BOOLEAN] /\ tries \in [Writers -> Nat]

TypeAdmin ==
  /\ apc \in [Admins -> AdminPC]
  /\ aop \in [Admins -> {"advance", "purgeKey", "purgeAll", "close"}]
  /\ akey \in [Admins -> Keys]
  /\ alock \in [Admins -> 0 .. NumStripes]

TypeHistory ==
  /\ settled \in [Keys -> Nat] /\ acked \in [Keys -> Nat]
  /\ purged \in [Keys -> Nat]
  /\ floor \in [Readers -> [Keys -> Nat]]
  /\ had \in [Readers -> BOOLEAN]

\* The type invariant.
TypeOK == TypeShared /\ TypeReader /\ TypeTrans /\ TypeFill /\ TypeWriter
          /\ TypeAdmin /\ TypeHistory

\* The keys a command may name: one for GET, SET and the single-key writes,
\* several distinct ones for MGET and DEL/UNLINK.
KeySets(single) == IF single THEN {{k} : k \in Keys}
                   ELSE (SUBSET Keys) \ {{}}

Init ==
  /\ origin = [k \in Keys |-> [ver |-> 0, exists |-> TRUE]]
  /\ \E warm \in SUBSET WarmKeys, candidates \in SUBSET CandidateKeys :
       /\ warm \cap candidates = {}
       /\ track = [k \in Keys |-> IF k \in warm THEN "hot"
                                  ELSE IF k \in candidates THEN "tracked" ELSE "untracked"]
       /\ prot = [k \in Keys |-> IF k \in warm THEN [ver |-> 0, age |-> "fresh"] ELSE NoEntry]
       /\ prob = [k \in Keys |-> IF k \in candidates THEN [ver |-> 0, age |-> "fresh"]
                                 ELSE NoEntry]
  /\ closed = [part \in Parts |-> FALSE]
  /\ epoch = [s \in Stripes |-> 0]
  /\ lock = [s \in Stripes |-> None]
  /\ promoting = [s \in Stripes |-> FALSE]
  /\ gate = [s \in Stripes |-> None]
  /\ group = [k \in Keys |-> None]
  /\ pc = [r \in Readers |-> "next"]
  /\ op \in [Readers -> ReadOps]
  /\ todo \in {f \in [Readers -> SUBSET Keys] :
                 \A r \in Readers : f[r] \in KeySets(op[r] = "GET")}
  /\ cur = [r \in Readers |-> CHOOSE k \in Keys : TRUE]
  /\ hot = [r \in Readers |-> FALSE]
  /\ pend = [p \in Procs |-> {}] /\ drop = [p \in Procs |-> None]
  /\ cand = [r \in Readers |-> NoEntry]
  /\ miss = [r \in Readers |-> {}]
  /\ ep = [r \in Readers |-> [k \in Keys |-> 0]]
  /\ res = [r \in Readers |-> [k \in Keys |-> NoResult]]
  /\ out = [r \in Readers |-> "none"]
  /\ flight = [r \in Readers |-> r]
  /\ fpc = [r \in Readers |-> "none"]
  /\ ftodo = [r \in Readers |-> {}]
  /\ fkey = [r \in Readers |-> CHOOSE k \in Keys : TRUE]
  /\ got = [r \in Readers |-> [k \in Keys |-> [ver |-> 0, exists |-> FALSE]]]
  /\ ferr = [r \in Readers |-> FALSE]
  /\ wpc = [w \in Writers |-> "gate"]
  /\ wcmd \in [Writers -> WriteOps]
  /\ wkeys \in {f \in [Writers -> SUBSET Keys] :
                  \A w \in Writers : f[w] \in KeySets(wcmd[w] # "DEL")}
  /\ held = [w \in Writers |-> {}]
  /\ wtodo = [w \in Writers |-> {}]
  /\ adv = [w \in Writers |-> {}]
  /\ wver = [w \in Writers |-> [k \in Keys |-> 0]]
  /\ wok = [w \in Writers |-> FALSE] /\ whot = [w \in Writers |-> FALSE]
  /\ late = [w \in Writers |-> FALSE] /\ tries = [w \in Writers |-> 0]
  /\ apc = [a \in Admins |-> "start"]
  /\ aop \in [Admins -> AdminOps]
  /\ akey \in [Admins -> Keys]
  /\ alock = [a \in Admins |-> 0]
  /\ settled = [k \in Keys |-> 0] /\ acked = [k \in Keys |-> 0]
  /\ purged = [k \in Keys |-> 0]
  /\ floor = [r \in Readers |-> [k \in Keys |-> 0]]
  /\ had = [r \in Readers |-> FALSE]
-----------------------------------------------------------------------------
(***************************************************************************)
(* Reads: Get and MGet.                                                    *)
(***************************************************************************)
ReaderFrame == UNCHANGED <<origin, closed, epoch, gate, op, writerVars,
                           adminVars, settled, acked, purged>>
LookupFrame == ReaderFrame /\ UNCHANGED <<group, todo, cur, miss, ep, flight,
                                          fillVars, floor, had>>
AnswerFrame == ReaderFrame /\ UNCHANGED <<prob, track, lock, promoting, cur, hot,
                                          transVars, cand, miss, ep, floor, had>>

Goto(r, label) == pc' = [pc EXCEPT ![r] = label]
Stripe(r) == StripeOf[cur[r]]

\* The loop of MGet over its keys; Get has one key.
AfterKey(r, missing) == IF todo[r] # {} THEN "next"
                        ELSE IF missing # {} THEN "mfetch" ELSE "done"

\* A local hit: the value is the result for the key.
Hit(r, v) ==
  /\ res' = [res EXCEPT ![r][cur[r]] = v]
  /\ Goto(r, AfterKey(r, miss[r]))
  /\ out' = [out EXCEPT ![r] = IF AfterKey(r, miss[r]) = "done" THEN "ok" ELSE @]

NoHit(r, label) == Goto(r, label) /\ UNCHANGED <<res, out>>

Lookup(k, h) == IF PolicyMode[k] # "cache" THEN "miss"
                ELSE IF h THEN "lookProt" ELSE "lookProb"

\* Match the policy and observe the key, unless it is denied.
Observe(r) ==
  /\ pc[r] = "next"
  /\ \E k \in todo[r] :
       /\ todo' = [todo EXCEPT ![r] = @ \ {k}]
       /\ cur' = [cur EXCEPT ![r] = k]
       /\ floor' = [floor EXCEPT ![r][k] = acked[k]]
       /\ IF PolicyMode[k] = "deny"
          THEN /\ Goto(r, "miss")
               /\ hot' = [hot EXCEPT ![r] = FALSE]
               /\ UNCHANGED <<track, pend>>
          ELSE \E D \in SUBSET Demotable : \E P \in SUBSET (Promotable \ D) :
                 /\ track' \in ObserveWithState(k, D, P)
                 /\ pend' = [pend EXCEPT ![r] = D]
                 /\ hot' = [hot EXCEPT ![r] = track'[k] = "hot"]
                 /\ Goto(r, IF D = {} THEN Lookup(k, track'[k] = "hot") ELSE "obs")
       /\ had' = [had EXCEPT ![r] =
                    \/ track'[k] = "hot" /\ Fresh(prot[k])
                    \/ track'[k] # "untracked" /\ Fresh(prob[k])]
  /\ ReaderFrame
  /\ UNCHANGED <<prot, prob, lock, promoting, group, drop, cand, miss, ep, res,
                 out, flight, fillVars>>

\* The recheck of applyTransitions: the key is still not HOT.
StillDemotedSkipped(k) == TRUE
StillDemoted(k) == ~IsHot(k)

\* applyTransitions, one reported demotion after the other: under the stripe
\* of the key its state is read again, and the key leaves both tiers.
ApplyDemotion(p) ==
  \/ \E k \in pend[p] :
       /\ drop[p] = None /\ lock[StripeOf[k]] = None
       /\ IF StillDemoted(k)
          THEN /\ drop' = [drop EXCEPT ![p] = k]
               /\ lock' = [lock EXCEPT ![StripeOf[k]] = p]
               /\ UNCHANGED pend
          ELSE pend' = [pend EXCEPT ![p] = @ \ {k}] /\ UNCHANGED <<drop, lock>>
       /\ UNCHANGED <<prot, prob>>
  \/ \E k \in Keys :
       /\ drop[p] = k
       /\ prot' = Without(prot, k) /\ prob' = Without(prob, k)
       /\ pend' = [pend EXCEPT ![p] = @ \ {k}]
       /\ drop' = [drop EXCEPT ![p] = None]
       /\ lock' = [lock EXCEPT ![StripeOf[k]] = None]

\* handleObservation after ObserveWithState.
HandleObservation(r) ==
  /\ pc[r] = "obs"
  /\ ApplyDemotion(r)
  /\ NoHit(r, IF pend'[r] = {} THEN Lookup(cur[r], hot[r]) ELSE "obs")
  /\ LookupFrame /\ UNCHANGED <<track, promoting, hot, cand>>

\* getFreshProtected without the stripe: on an observed HOT state, and after
\* the recheck below.
LookProtected(r) ==
  /\ pc[r] \in {"lookProt", "lateProt"}
  /\ GetFreshProtected(cur[r])
  /\ IF Fresh(prot[cur[r]]) THEN Hit(r, prot[cur[r]].ver)
     ELSE NoHit(r, IF pc[r] = "lookProt" THEN "lookProb" ELSE "miss")
  /\ LookupFrame /\ UNCHANGED <<prob, track, lock, promoting, hot, transVars, cand>>

\* The unlocked look into the probationary tier.
LookProbationary(r) ==
  /\ pc[r] = "lookProb"
  /\ prob' = AfterGet(prob, cur[r], FALSE)
  /\ NoHit(r, IF ~Probationary THEN "miss"
              ELSE IF Fresh(prob[cur[r]]) THEN "lockCand" ELSE "recheck")
  /\ LookupFrame /\ UNCHANGED <<prot, track, lock, promoting, hot, transVars, cand>>

\* No candidate: look again if the key became HOT, and wait for the stripe
\* only while a promotion is moving a value between the tiers.
RecheckHot(r) ==
  /\ pc[r] = "recheck"
  /\ NoHit(r, IF IsHot(cur[r]) THEN "flag" ELSE "miss")
  /\ LookupFrame
  /\ UNCHANGED <<prot, prob, track, lock, promoting, hot, transVars, cand>>

TransferRunningIgnored(r) == FALSE
TransferRunning(r) == promoting[Stripe(r)]

LoadPromotionFlag(r) ==
  /\ pc[r] = "flag"
  /\ NoHit(r, IF TransferRunning(r) THEN "lockProt" ELSE "lateProt")
  /\ LookupFrame
  /\ UNCHANGED <<prot, prob, track, lock, promoting, hot, transVars, cand>>

LookProtectedLocked(r) ==
  /\ pc[r] = "lockProt" /\ lock[Stripe(r)] = None
  /\ GetFreshProtected(cur[r])
  /\ IF Fresh(prot[cur[r]]) THEN Hit(r, prot[cur[r]].ver) ELSE NoHit(r, "miss")
  /\ LookupFrame /\ UNCHANGED <<prob, track, lock, promoting, hot, transVars, cand>>

\* Under the stripe: another reader's promotion wins, else the candidate is
\* read again and the stripe is kept.
TakeStripe(r) ==
  /\ pc[r] = "lockCand" /\ lock[Stripe(r)] = None
  /\ LET k == cur[r]
     IN  /\ IF IsHot(k) THEN GetFreshProtected(k) ELSE UNCHANGED prot
         /\ IF IsHot(k) /\ Fresh(prot[k])
            THEN Hit(r, prot[k].ver) /\ UNCHANGED <<prob, cand, lock>>
            ELSE /\ prob' = AfterGet(prob, k, FALSE)
                 /\ NoHit(r, IF Fresh(prob[k]) THEN "admit" ELSE "miss")
                 /\ IF Fresh(prob[k])
                    THEN /\ cand' = [cand EXCEPT ![r] = prob[k]]
                         /\ lock' = [lock EXCEPT ![Stripe(r)] = r]
                    ELSE UNCHANGED <<cand, lock>>
  /\ LookupFrame /\ UNCHANGED <<track, promoting, hot, transVars>>

AdmitCandidate(r) ==
  /\ pc[r] = "admit"
  /\ \E D \in SUBSET Demotable : \E P \in SUBSET (Promotable \ D) :
       /\ track' = Admit(cur[r], D, P)
       /\ pend' = [pend EXCEPT ![r] = D]
  /\ hot' = [hot EXCEPT ![r] = track'[cur[r]] = "hot"]
  /\ NoHit(r, IF track'[cur[r]] = "hot" THEN "flagOn" ELSE "takeCand")
  /\ LookupFrame /\ UNCHANGED <<prot, prob, lock, promoting, drop, cand>>

SetPromotionFlag(r) ==
  /\ pc[r] = "flagOn"
  /\ promoting' = [promoting EXCEPT ![Stripe(r)] = TRUE]
  /\ NoHit(r, "takeCand")
  /\ LookupFrame /\ UNCHANGED <<prot, prob, track, lock, hot, transVars, cand>>

\* What follows the critical section: the demotions D that Admit reported,
\* then the candidate is the answer if it was stored.
AfterPromotion(r, D, c) ==
  IF D # {} THEN NoHit(r, "admitted")
  ELSE IF Present(c) THEN Hit(r, c.ver) ELSE NoHit(r, "miss")

\* The candidate leaves the probationary tier before it enters the protected.
AfterTaking(k) == Without(prob, k)

RemoveCandidate(r) ==
  /\ pc[r] = "takeCand"
  /\ prob' = AfterTaking(cur[r])
  /\ IF hot[r] THEN NoHit(r, "promote") /\ UNCHANGED <<cand, lock>>
     ELSE /\ cand' = [cand EXCEPT ![r] = NoEntry]
          /\ lock' = [lock EXCEPT ![Stripe(r)] = None]
          /\ AfterPromotion(r, pend[r], NoEntry)
  /\ LookupFrame /\ UNCHANGED <<prot, track, promoting, hot, transVars>>

\* PutUntil; the candidate in hand is the answer only if it was stored.
PromoteCandidate(r) ==
  /\ pc[r] = "promote"
  /\ prot' \in Put(prot, closed["prot"], cur[r], cand[r].ver)
  /\ cand' = [cand EXCEPT ![r] = IF Present(prot'[cur[r]]) THEN @ ELSE NoEntry]
  /\ NoHit(r, "flagOff")
  /\ LookupFrame /\ UNCHANGED <<prob, track, lock, promoting, hot, transVars>>

ClearPromotionFlag(r) ==
  /\ pc[r] = "flagOff"
  /\ promoting' = [promoting EXCEPT ![Stripe(r)] = FALSE]
  /\ lock' = [lock EXCEPT ![Stripe(r)] = None]
  /\ AfterPromotion(r, pend[r], cand[r])
  /\ LookupFrame /\ UNCHANGED <<prot, prob, track, hot, transVars, cand>>

HandleAdmission(r) ==
  /\ pc[r] = "admitted"
  /\ ApplyDemotion(r)
  /\ AfterPromotion(r, pend'[r], cand[r])
  /\ LookupFrame /\ UNCHANGED <<track, promoting, hot, cand>>

\* A miss.  The epoch of a cacheable key is captured before anything is read
\* from the origin; Get of any other key goes to the origin by itself.
Miss(r) ==
  /\ pc[r] = "miss"
  /\ LET k == cur[r]
     IN  /\ miss' = [miss EXCEPT ![r] = @ \cup {k}]
         /\ ep' = IF k \in CacheKeys
                  THEN [ep EXCEPT ![r][k] = epoch[StripeOf[k]]] ELSE ep
         /\ NoHit(r, IF op[r] = "MGET" THEN AfterKey(r, {k})
                     ELSE IF k \in CacheKeys THEN "join" ELSE "fetch")
  /\ ReaderFrame
  /\ UNCHANGED <<prot, prob, track, lock, promoting, group, todo, cur, hot, transVars,
                 cand, flight, fillVars, floor, had>>

\* group.DoChan: join the key's current flight or lead a new one.
Join(r) ==
  /\ pc[r] = "join"
  /\ LET k == cur[r]
     IN  IF group[k] = None
         THEN /\ group' = [group EXCEPT ![k] = r]
              /\ flight' = [flight EXCEPT ![r] = r]
              /\ fpc' = [fpc EXCEPT ![r] = "fetch"]
         ELSE /\ flight' = [flight EXCEPT ![r] = group[k]]
              /\ UNCHANGED <<group, fpc>>
  /\ NoHit(r, "wait")
  /\ AnswerFrame /\ UNCHANGED <<prot, todo, ftodo, fkey, got, ferr>>

\* A failed origin read: every missing key needs a stale value, if allowed.
ReadFailed(r) ==
  /\ todo' = [todo EXCEPT ![r] = IF AllowStale THEN miss[r] ELSE @]
  /\ Goto(r, IF AllowStale THEN "stale" ELSE "done")
  /\ out' = [out EXCEPT ![r] = IF AllowStale THEN @ ELSE "error"]
  /\ UNCHANGED res

OriginUp == ~closed["origin"]
CallMayFail == "error" \in Env \/ closed["origin"]

\* The caller of Get: the flight's result, or its own deadline (which may be
\* over before the call starts).
Receive(r) ==
  /\ pc[r] = "wait" /\ fpc[flight[r]] = "done"
  /\ IF ferr[flight[r]] THEN ReadFailed(r)
     ELSE /\ res' = [res EXCEPT ![r][cur[r]] = got[flight[r]][cur[r]].ver]
          /\ Goto(r, "done")
          /\ out' = [out EXCEPT ![r] = "ok"]
          /\ UNCHANGED todo
  /\ AnswerFrame /\ UNCHANGED <<prot, group, flight, fillVars>>

ReadTimeout(r) ==
  /\ pc[r] = "wait" \/ (pc[r] = "next" /\ op[r] = "GET")
  /\ "error" \in Env
  /\ Goto(r, "done")
  /\ out' = [out EXCEPT ![r] = "error"]
  /\ AnswerFrame /\ UNCHANGED <<prot, group, todo, res, flight, fillVars>>

\* Get of a key whose policy is not cache: no coalescing, no fallback.
FetchBypass(r) ==
  /\ pc[r] = "fetch"
  /\ \/ /\ OriginUp
        /\ res' = [res EXCEPT ![r][cur[r]] = origin[cur[r]].ver]
        /\ out' = [out EXCEPT ![r] = "ok"]
     \/ /\ CallMayFail
        /\ out' = [out EXCEPT ![r] = "error"]
        /\ UNCHANGED res
  /\ Goto(r, "done")
  /\ AnswerFrame /\ UNCHANGED <<prot, group, todo, flight, fillVars>>

\* upstream.MGet of all missing keys, then one reconciliation per cached key.
FetchMissing(r) ==
  /\ pc[r] = "mfetch"
  /\ \/ /\ OriginUp
        /\ got' = [got EXCEPT ![r] = [k \in Keys |-> IF k \in miss[r]
                                             THEN origin[k] ELSE @[k]]]
        /\ res' = [res EXCEPT ![r] = [k \in Keys |-> IF k \in miss[r]
                                             THEN origin[k].ver ELSE @[k]]]
        /\ ftodo' = [ftodo EXCEPT ![r] = miss[r] \cap CacheKeys]
        /\ fpc' = [fpc EXCEPT ![r] = IF miss[r] \cap CacheKeys = {}
                                     THEN "end" ELSE "lock"]
        /\ Goto(r, "fill")
        /\ UNCHANGED <<todo, out>>
     \/ /\ CallMayFail
        /\ ReadFailed(r)
        /\ UNCHANGED <<got, ftodo, fpc>>
  /\ AnswerFrame /\ UNCHANGED <<prot, group, flight, fkey, ferr>>

FinishMGet(r) ==
  /\ pc[r] = "fill" /\ fpc[r] = "end"
  /\ fpc' = [fpc EXCEPT ![r] = "done"]
  /\ Goto(r, "done")
  /\ out' = [out EXCEPT ![r] = "ok"]
  /\ AnswerFrame
  /\ UNCHANGED <<prot, group, todo, res, flight, ftodo, fkey, got, ferr>>

\* cache.GetStale(key, StaleGrace) for the missing keys, one after the other.
StaleFallback(r) ==
  /\ pc[r] = "stale"
  /\ \E k \in todo[r] :
       LET usable == k \in CacheKeys /\ prot[k].age \in {"fresh", "grace"}
       IN  /\ todo' = [todo EXCEPT ![r] = @ \ {k}]
           /\ res' = IF usable THEN [res EXCEPT ![r][k] = prot[k].ver] ELSE res
           /\ prot' = IF k \in CacheKeys /\ prot[k].age = "dead"
                      THEN Without(prot, k) ELSE prot
           /\ out' = [out EXCEPT ![r] = IF usable /\ @ # "error" THEN "ok"
                                        ELSE "error"]
           /\ IF todo[r] = {k} THEN Goto(r, "done") ELSE UNCHANGED pc
  /\ AnswerFrame /\ UNCHANGED <<group, flight, fillVars>>
-----------------------------------------------------------------------------
(***************************************************************************)
(* Fills: the flight goroutine of Get, and the reconciliations of MGet.    *)
(***************************************************************************)
FillFrame == UNCHANGED <<origin, closed, track, epoch, promoting, gate,
                         readerVars, transVars, writerVars, adminVars, histVars>>

FlightFetch(r) ==
  /\ fpc[r] = "fetch"
  /\ \/ /\ OriginUp
        /\ got' = [got EXCEPT ![r][cur[r]] = origin[cur[r]]]
        /\ ftodo' = [ftodo EXCEPT ![r] = {cur[r]}]
        /\ fpc' = [fpc EXCEPT ![r] = "lock"]
        /\ UNCHANGED ferr
     \/ /\ CallMayFail \/ closed["lifetime"]
        /\ ferr' = [ferr EXCEPT ![r] = TRUE]
        /\ fpc' = [fpc EXCEPT ![r] = "end"]
        /\ UNCHANGED <<got, ftodo>>
  /\ FillFrame /\ UNCHANGED <<prot, prob, lock, group, fkey>>

\* A refused fill is given up, not tried again.
AfterRefusal(r, k) == ftodo[r] \ {k}

FillCurrentUnchecked(r, k) == TRUE
FillCurrent(r, k) == epoch[StripeOf[k]] = ep[r][k]

\* withCurrentCacheEpoch: a fill whose epoch is not current changes nothing.
FillCheck(r) ==
  /\ fpc[r] = "lock"
  /\ \E k \in ftodo[r] :
       /\ lock[StripeOf[k]] = None
       /\ IF FillCurrent(r, k)
          THEN /\ lock' = [lock EXCEPT ![StripeOf[k]] = r]
               /\ fkey' = [fkey EXCEPT ![r] = k]
               /\ fpc' = [fpc EXCEPT ![r] = "drop"]
               /\ UNCHANGED ftodo
          ELSE /\ ftodo' = [ftodo EXCEPT ![r] = AfterRefusal(r, k)]
               /\ fpc' = [fpc EXCEPT ![r] = IF ftodo'[r] = {} THEN "end" ELSE @]
               /\ UNCHANGED <<lock, fkey>>
  /\ FillFrame /\ UNCHANGED <<prot, prob, group, got, ferr>>

FillNext(r) ==
  /\ ftodo' = [ftodo EXCEPT ![r] = @ \ {fkey[r]}]
  /\ fpc' = [fpc EXCEPT ![r] = IF ftodo[r] = {fkey[r]} THEN "end" ELSE "lock"]
  /\ lock' = [lock EXCEPT ![StripeOf[fkey[r]]] = None]

FillDropProtected(r) ==
  /\ fpc[r] = "drop" /\ got[r][fkey[r]].exists
  /\ prob' = Without(prob, fkey[r])
  /\ fpc' = [fpc EXCEPT ![r] = "storeProt"]
  /\ FillFrame /\ UNCHANGED <<prot, ftodo, lock, group, fkey, got, ferr>>

\* reconcileLocalIfCurrent, up to the tier the value does not belong in.
FillDrop(r) ==
  /\ fpc[r] = "drop"
  /\ LET k == fkey[r]
     IN  \/ /\ ~got[r][k].exists
            /\ prot' = Without(prot, k) /\ prob' = Without(prob, k)
            /\ FillNext(r)
         \/ /\ got[r][k].exists /\ IsHot(k)
            /\ prob' = Without(prob, k)
            /\ fpc' = [fpc EXCEPT ![r] = "storeProt"]
            /\ UNCHANGED <<prot, ftodo, lock>>
         \/ /\ got[r][k].exists /\ ~IsHot(k)
            /\ prot' = Without(prot, k)
            /\ fpc' = [fpc EXCEPT ![r] = "storeProb"]
            /\ UNCHANGED <<prob, ftodo, lock>>
  /\ FillFrame /\ UNCHANGED <<group, fkey, got, ferr>>

\* storeLocal and storeProbationary; only a tracked key is kept on probation.
FillStore(r) ==
  /\ LET k == fkey[r]
     IN  \/ /\ fpc[r] = "storeProt"
            /\ prot' \in Put(prot, closed["prot"], k, got[r][k].ver)
            /\ UNCHANGED prob
         \/ /\ fpc[r] = "storeProb"
            /\ IF Probationary /\ IsTracked(k)
               THEN prob' \in Put(prob, closed["prob"], k, got[r][k].ver)
               ELSE UNCHANGED prob
            /\ UNCHANGED prot
  /\ FillNext(r)
  /\ FillFrame /\ UNCHANGED <<group, fkey, got, ferr>>

\* The flight ends: its waiters get the result, the key may be flown again.
\* A flight that was forgotten meanwhile leaves its successor alone.
FlightDone(r) ==
  /\ op[r] = "GET" /\ fpc[r] = "end"
  /\ fpc' = [fpc EXCEPT ![r] = "done"]
  /\ group' = IF group[cur[r]] = r THEN [group EXCEPT ![cur[r]] = None] ELSE group
  /\ FillFrame /\ UNCHANGED <<prot, prob, lock, ftodo, fkey, got, ferr>>
-----------------------------------------------------------------------------
(***************************************************************************)
(* Writes: ExecuteWrite.                                                   *)
(***************************************************************************)
WriterFrame == UNCHANGED <<closed, track, promoting, readerVars, transVars, fillVars,
                           wcmd, wkeys, adminVars, purged, floor, had>>
\* The steps that leave both tiers, the stripes and the flights alone.
OriginFrame == WriterFrame /\ UNCHANGED <<prot, prob, epoch, lock, group, settled>>

WGoto(w, label) == wpc' = [wpc EXCEPT ![w] = label]
Needed(w) == {StripeOf[k] : k \in wkeys[w]}

\* The next required stripe, in ascending order.
NextGateAny(w) == Needed(w) \ held[w]
NextGate(w) == {s \in Needed(w) \ held[w] :
                  \A t \in Needed(w) \ held[w] : s <= t}

GateFreeIgnored(s) == TRUE
GateFree(s) == gate[s] = None

AcquireGate(w) ==
  /\ wpc[w] = "gate"
  /\ \E s \in NextGate(w) :
       /\ GateFree(s)
       /\ gate' = [gate EXCEPT ![s] = w]
       /\ held' = [held EXCEPT ![w] = @ \cup {s}]
       /\ IF Needed(w) \ held[w] = {s}
          THEN WGoto(w, "pre") /\ wtodo' = [wtodo EXCEPT ![w] = wkeys[w]]
          ELSE UNCHANGED <<wpc, wtodo>>
  /\ OriginFrame
  /\ UNCHANGED <<origin, adv, wver, wok, whot, late, tries, acked>>

ReleaseGates(w) ==
  /\ gate' = [s \in Stripes |-> IF s \in held[w] THEN None ELSE gate[s]]
  /\ held' = [held EXCEPT ![w] = {}]

\* The request's deadline while it waits for a gate.
GateTimeout(w) ==
  /\ wpc[w] = "gate" /\ "error" \in Env
  /\ ReleaseGates(w)
  /\ WGoto(w, "done")
  /\ OriginFrame
  /\ UNCHANGED <<origin, wtodo, adv, wver, wok, whot, late, tries, acked>>

\* One key of invalidateCacheKeys, under its stripe.
InvalidateKeyProtectedOnly(k, bump) ==
  /\ lock[StripeOf[k]] = None
  /\ epoch' = IF bump THEN [epoch EXCEPT ![StripeOf[k]] = @ + 1] ELSE epoch
  /\ prot' = Without(prot, k) /\ UNCHANGED prob
InvalidateKeyFirstOfStripe(k, bump) ==
  /\ lock[StripeOf[k]] = None
  /\ IF bump THEN /\ epoch' = [epoch EXCEPT ![StripeOf[k]] = @ + 1]
                  /\ prot' = Without(prot, k) /\ prob' = Without(prob, k)
     ELSE UNCHANGED <<epoch, prot, prob>>
InvalidateKey(k, bump) ==
  /\ lock[StripeOf[k]] = None
  /\ epoch' = IF bump THEN [epoch EXCEPT ![StripeOf[k]] = @ + 1] ELSE epoch
  /\ prot' = Without(prot, k) /\ prob' = Without(prob, k)

\* A version is settled once the final invalidation or write-through of its
\* key is done.
Settle(w, k) ==
  settled' = [settled EXCEPT ![k] = IF wver[w][k] = 0 THEN @ ELSE wver[w][k]]

\* invalidateCacheKeys before dispatch and in finalizeWrite: the epoch of a
\* stripe advances once per call, the keys are removed one by one.
InvalidateKeys(w) ==
  /\ wpc[w] \in {"pre", "final"}
  /\ \E k \in wtodo[w] :
       /\ InvalidateKey(k, StripeOf[k] \notin adv[w])
       /\ IF wtodo[w] = {k}
          THEN /\ WGoto(w, IF wpc[w] = "pre" THEN "send" ELSE "forget")
               /\ wtodo' = [wtodo EXCEPT ![w] = wkeys[w]]
               /\ adv' = [adv EXCEPT ![w] = {}]
          ELSE /\ wtodo' = [wtodo EXCEPT ![w] = @ \ {k}]
               /\ adv' = [adv EXCEPT ![w] = @ \cup {StripeOf[k]}]
               /\ UNCHANGED wpc
       /\ IF wpc[w] = "final" THEN Settle(w, k) ELSE UNCHANGED settled
  /\ WriterFrame /\ UNCHANGED <<origin, lock, gate, group, held, wver, wok, whot,
                               late, tries, acked>>

\* What the origin may hold after it ran a command on the keys K: SET makes a
\* value, DEL removes it, any other write may do either, or nothing at all.
Applied(cmd, K) ==
  LET Outcome == CASE cmd = "SET" -> {TRUE} [] cmd = "DEL" -> {FALSE}
                   [] OTHER -> BOOLEAN
  IN  {[k \in Keys |-> IF k \in K THEN [ver |-> origin[k].ver + 1, exists |-> e]
                       ELSE origin[k]] : e \in Outcome}
      \cup (IF cmd = "OTHER" THEN {origin} ELSE {})

\* upstream.Do reaches the origin, which applies the command atomically.
Dispatch(w) ==
  /\ wpc[w] = "send" /\ OriginUp
  /\ origin' \in Applied(wcmd[w], wkeys[w])
  /\ wver' = [wver EXCEPT ![w] = [k \in Keys |-> IF k \in wkeys[w]
                                         THEN origin'[k].ver ELSE 0]]
  /\ WGoto(w, "sent")
  /\ tries' = [tries EXCEPT ![w] = @ + 1]
  /\ OriginFrame /\ UNCHANGED <<gate, held, wtodo, adv, wok, whot, late, acked>>

\* The client library sends the command again when the reply is late.
Retry(w) ==
  /\ wpc[w] = "sent" /\ "error" \in Env /\ tries[w] < MaxTries
  /\ WGoto(w, "send")
  /\ OriginFrame /\ UNCHANGED <<origin, gate, held, wtodo, adv, wver, wok, whot,
                               late, tries, acked>>

\* The reply: an acknowledged plain SET is written through, every other
\* outcome invalidates.
WriteReply(w) ==
  /\ wpc[w] = "sent"
  /\ wok' = [wok EXCEPT ![w] = TRUE]
  /\ WGoto(w, IF wcmd[w] = "SET" THEN "through" ELSE "final")
  /\ OriginFrame /\ UNCHANGED <<origin, gate, held, wtodo, adv, wver, whot, late,
                               tries, acked>>

\* An error before or after the origin applied the command; when it had not,
\* the command may still be on its way.
WriteError(w) ==
  /\ wpc[w] \in {"send", "sent"} /\ CallMayFail
  /\ WGoto(w, "final")
  /\ late' = [late EXCEPT ![w] = wpc[w] = "send" /\ "late" \in Env]
  /\ OriginFrame /\ UNCHANGED <<origin, gate, held, wtodo, adv, wver, wok, whot,
                               tries, acked>>

LateApply(w) ==
  /\ late[w]
  /\ late' = [late EXCEPT ![w] = FALSE]
  /\ origin' \in Applied(wcmd[w], wkeys[w])
  /\ OriginFrame /\ UNCHANGED <<gate, wpc, held, wtodo, adv, wver, wok, whot,
                               tries, acked>>

WritesThrough(k) == k \in CacheKeys /\ IsHot(k)

\* writeThroughSet, up to the read of the tracker.
WriteThrough(w) ==
  /\ wpc[w] = "through"
  /\ \E k \in wkeys[w] :
       /\ lock[StripeOf[k]] = None
       /\ lock' = [lock EXCEPT ![StripeOf[k]] = w]
       /\ epoch' = [epoch EXCEPT ![StripeOf[k]] = @ + 1]
       /\ prob' = Without(prob, k)
       /\ whot' = [whot EXCEPT ![w] = WritesThrough(k)]
  /\ WGoto(w, "throughStore")
  /\ WriterFrame /\ UNCHANGED <<origin, prot, gate, group, held, wtodo, adv, wver,
                               wok, late, tries, settled, acked>>

WriteThroughStore(w) ==
  /\ wpc[w] = "throughStore"
  /\ \E k \in wkeys[w] :
       /\ prot' \in IF whot[w] THEN Put(prot, closed["prot"], k, wver[w][k])
                    ELSE {Without(prot, k)}
       /\ lock' = [lock EXCEPT ![StripeOf[k]] = None]
       /\ Settle(w, k)
  /\ WGoto(w, "forget")
  /\ WriterFrame /\ UNCHANGED <<origin, prob, epoch, gate, group, held, wtodo,
                               adv, wver, wok, whot, late, tries, acked>>

ForgottenNot(k) == group
Forgotten(k) == [group EXCEPT ![k] = None]

\* group.Forget: no later Get joins a flight that may predate the write.
Forget(w) ==
  /\ wpc[w] = "forget"
  /\ \E k \in wtodo[w] :
       /\ group' = Forgotten(k)
       /\ wtodo' = [wtodo EXCEPT ![w] = @ \ {k}]
       /\ IF wtodo[w] = {k} THEN WGoto(w, "release") ELSE UNCHANGED wpc
  /\ WriterFrame /\ UNCHANGED <<origin, prot, prob, epoch, lock, gate, held, adv,
                               wver, wok, whot, late, tries, settled, acked>>

Release(w) ==
  /\ wpc[w] = "release"
  /\ ReleaseGates(w)
  /\ WGoto(w, "reply")
  /\ OriginFrame
  /\ UNCHANGED <<origin, wtodo, adv, wver, wok, whot, late, tries, acked>>

\* The client learns the outcome.
WriteReturn(w) ==
  /\ wpc[w] = "reply"
  /\ WGoto(w, "done")
  /\ acked' = IF wok[w] THEN [k \in Keys |-> Larger(acked[k], wver[w][k])]
              ELSE acked
  /\ OriginFrame /\ UNCHANGED <<origin, gate, held, wtodo, adv, wver, wok, whot,
                               late, tries>>
-----------------------------------------------------------------------------
(***************************************************************************)
(* Administrative calls: Status and HotKeys (tracker catch-up), PurgeCache *)
(* and Close.                                                              *)
(***************************************************************************)
AdminFrame == UNCHANGED <<origin, promoting, gate, readerVars, fillVars,
                          writerVars, aop, akey, settled, acked, floor, had>>
AGoto(a, label) == apc' = [apc EXCEPT ![a] = label]

\* handleTransitions of a tracker catch-up.
AdvanceTracker(a) ==
  /\ aop[a] = "advance" /\ apc[a] = "start"
  /\ \E D \in SUBSET Demotable : \E P \in SUBSET (Promotable \ D) :
       /\ track' = Advanced(D, P)
       /\ pend' = [pend EXCEPT ![a] = D]
       /\ AGoto(a, IF D = {} THEN "done" ELSE "apply")
  /\ AdminFrame /\ UNCHANGED <<prot, prob, closed, epoch, lock, group, drop, alock,
                              purged>>

HandleTransitions(a) ==
  /\ apc[a] = "apply"
  /\ ApplyDemotion(a)
  /\ AGoto(a, IF pend'[a] = {} THEN "done" ELSE "apply")
  /\ AdminFrame /\ UNCHANGED <<closed, track, epoch, group, alock, purged>>

\* PurgeCache of one key.
PurgeKey(a) ==
  /\ aop[a] = "purgeKey" /\ apc[a] = "start"
  /\ InvalidateKey(akey[a], TRUE)
  /\ purged' = [purged EXCEPT ![akey[a]] = origin[akey[a]].ver]
  /\ AGoto(a, "forget")
  /\ AdminFrame /\ UNCHANGED <<closed, track, lock, group, transVars, alock>>

ForgetPurged(a) ==
  /\ apc[a] = "forget"
  /\ group' = Forgotten(akey[a])
  /\ AGoto(a, "done")
  /\ AdminFrame
  /\ UNCHANGED <<prot, prob, closed, track, epoch, lock, transVars, alock, purged>>

\* purgeAllCache: every stripe in ascending order, both tiers, all epochs.
LockAllStripes(a) ==
  /\ aop[a] = "purgeAll" /\ apc[a] \in {"start", "lock"}
  /\ alock[a] < NumStripes /\ lock[alock[a]] = None
  /\ lock' = [lock EXCEPT ![alock[a]] = a]
  /\ alock' = [alock EXCEPT ![a] = @ + 1]
  /\ AGoto(a, IF alock[a] + 1 = NumStripes THEN "purgeProt" ELSE "lock")
  /\ AdminFrame
  /\ UNCHANGED <<prot, prob, closed, track, epoch, group, transVars, purged>>

PurgeTier(a) ==
  /\ \/ /\ apc[a] = "purgeProt"
        /\ prot' = [k \in Keys |-> NoEntry]
        /\ AGoto(a, "purgeProb")
        /\ UNCHANGED prob
     \/ /\ apc[a] = "purgeProb"
        /\ prob' = [k \in Keys |-> NoEntry]
        /\ AGoto(a, "bump")
        /\ UNCHANGED prot
  /\ AdminFrame
  /\ UNCHANGED <<closed, track, epoch, lock, group, transVars, alock, purged>>

EpochsAdvancedNot == epoch
EpochsAdvanced == [s \in Stripes |-> epoch[s] + 1]

AdvanceEpochs(a) ==
  /\ apc[a] = "bump"
  /\ epoch' = EpochsAdvanced
  /\ lock' = [s \in Stripes |-> None]
  /\ alock' = [alock EXCEPT ![a] = 0]
  /\ purged' = [k \in Keys |-> origin[k].ver]
  /\ AGoto(a, "done")
  /\ AdminFrame /\ UNCHANGED <<prot, prob, closed, track, group, transVars>>

\* Close: the first call cancels the flights, closes both tiers and then the
\* origin client; a second call returns at once.
CloseService(a) ==
  /\ aop[a] = "close"
  /\ \/ /\ apc[a] = "start"
        /\ AGoto(a, IF closed["lifetime"] THEN "done" ELSE "closeProt")
        /\ closed' = [closed EXCEPT !["lifetime"] = TRUE]
        /\ UNCHANGED <<prot, prob>>
     \/ /\ apc[a] = "closeProt"
        /\ AGoto(a, "closeProb")
        /\ closed' = [closed EXCEPT !["prot"] = TRUE]
        /\ prot' = [k \in Keys |-> NoEntry]
        /\ UNCHANGED prob
     \/ /\ apc[a] = "closeProb"
        /\ AGoto(a, "closeOrigin")
        /\ closed' = [closed EXCEPT !["prob"] = TRUE]
        /\ prob' = [k \in Keys |-> NoEntry]
        /\ UNCHANGED prot
     \/ /\ apc[a] = "closeOrigin"
        /\ AGoto(a, "done")
        /\ closed' = [closed EXCEPT !["origin"] = TRUE]
        /\ UNCHANGED <<prot, prob>>
  /\ AdminFrame /\ UNCHANGED <<track, epoch, lock, group, transVars, alock, purged>>
-----------------------------------------------------------------------------
(***************************************************************************)
(* The environment: time, and writers that bypass the proxy.               *)
(***************************************************************************)
Aged(e) == [e EXCEPT !.age = IF e.age = "fresh" /\ AllowStale THEN "grace"
                             ELSE "dead"]

Expire(k) ==
  /\ "expire" \in Env
  /\ \/ /\ prot[k].age \in {"fresh", "grace"}
        /\ prot' = [prot EXCEPT ![k] = Aged(@)]
        /\ UNCHANGED prob
     \/ /\ Fresh(prob[k])
        /\ prob' = [prob EXCEPT ![k].age = "dead"]
        /\ UNCHANGED prot
  /\ had' = [r \in Readers |-> had[r] /\ cur[r] # k]
  /\ UNCHANGED <<origin, closed, track, epoch, lock, promoting, gate, group,
                 readerVars, transVars, fillVars, writerVars, adminVars,
                 settled, acked, purged, floor>>

ExternalWrite(k) ==
  /\ "external" \in Env /\ origin[k].ver < MaxVersion
  /\ origin' \in Applied("SET", {k})
  /\ UNCHANGED <<prot, prob, closed, track, epoch, lock, promoting, gate, group,
                 readerVars, transVars, fillVars, writerVars, adminVars, histVars>>

Quiet == /\ \A r \in Readers : pc[r] = "done" /\ fpc[r] \in {"none", "done"}
         /\ \A w \in Writers : wpc[w] = "done"
         /\ \A a \in Admins : apc[a] = "done"

\* All requests are answered; the service waits for the next.
Idle == Quiet /\ UNCHANGED vars
-----------------------------------------------------------------------------
ReaderStep(r) ==
  \/ Observe(r) \/ HandleObservation(r) \/ LookProtected(r)
  \/ LookProbationary(r) \/ RecheckHot(r) \/ LoadPromotionFlag(r)
  \/ LookProtectedLocked(r) \/ TakeStripe(r) \/ AdmitCandidate(r)
  \/ SetPromotionFlag(r) \/ RemoveCandidate(r) \/ PromoteCandidate(r)
  \/ ClearPromotionFlag(r) \/ HandleAdmission(r) \/ Miss(r) \/ Join(r)
  \/ Receive(r) \/ FetchBypass(r) \/ FetchMissing(r)
  \/ FinishMGet(r) \/ StaleFallback(r)

FillStep(r) ==
  \/ FlightFetch(r) \/ FillCheck(r) \/ FillDrop(r) \/ FillStore(r)
  \/ FlightDone(r)

WriterStep(w) ==
  \/ AcquireGate(w) \/ InvalidateKeys(w) \/ Dispatch(w)
  \/ WriteReply(w) \/ WriteError(w) \/ WriteThrough(w) \/ WriteThroughStore(w)
  \/ Forget(w) \/ Release(w) \/ WriteReturn(w)

AdminStep(a) ==
  \/ AdvanceTracker(a) \/ HandleTransitions(a) \/ PurgeKey(a)
  \/ ForgetPurged(a) \/ LockAllStripes(a) \/ PurgeTier(a) \/ AdvanceEpochs(a)
  \/ CloseService(a)

Next ==
  \/ \E r \in Readers : ReaderStep(r) \/ ReadTimeout(r) \/ FillStep(r)
  \/ \E w \in Writers : WriterStep(w) \/ GateTimeout(w) \/ Retry(w) \/ LateApply(w)
  \/ \E a \in Admins : AdminStep(a)
  \/ \E k \in Keys : Expire(k) \/ ExternalWrite(k)
  \/ Idle

Spec == Init /\ [][Next]_vars
-----------------------------------------------------------------------------
(***************************************************************************)
(* Fairness.  A goroutine that can run does run (WF); sync.Mutex and the   *)
(* channel behind a mutation gate hand themselves to every waiter in the   *)
(* end, so a step that needs one is not passed over for ever (SF).  No     *)
(* fairness is assumed of deadlines, late replies, expiry or direct        *)
(* writes.  Origin calls answer because every one carries a deadline.      *)
(***************************************************************************)
ReaderWaits(r) == HandleObservation(r) \/ LookProtectedLocked(r)
                  \/ TakeStripe(r) \/ HandleAdmission(r)
WriterWaits(w) == AcquireGate(w) \/ InvalidateKeys(w) \/ WriteThrough(w)
AdminWaits(a) == HandleTransitions(a) \/ PurgeKey(a) \/ LockAllStripes(a)

Fairness ==
  /\ \A r \in Readers : /\ WF_vars(ReaderStep(r)) /\ SF_vars(ReaderWaits(r))
                        /\ WF_vars(FillStep(r)) /\ SF_vars(FillCheck(r))
  /\ \A w \in Writers : WF_vars(WriterStep(w)) /\ SF_vars(WriterWaits(w))
  /\ \A a \in Admins : WF_vars(AdminStep(a)) /\ SF_vars(AdminWaits(a))

FairSpec == Spec /\ Fairness
-----------------------------------------------------------------------------
\* No retained entry of either tier, fresh or kept for stale fallback, is older
\* than the last finalized write of its key: a fill that overlapped the write
\* is deleted by finalizeWrite or refused by withCurrentCacheEpoch.
NoSupersededEntry ==
  \A k \in Keys : /\ Present(prot[k]) => prot[k].ver >= settled[k]
                  /\ Present(prob[k]) => prob[k].ver >= settled[k]

\* A read returns at least the version acknowledged before it looked the key
\* up, whether it comes from a tier, from a flight it joined (Forget), from
\* its own origin read or from the stale fallback.
ReadsSeeAcknowledgedWrites ==
  \A r \in Readers, k \in Keys :
    res[r][k] # NoResult => res[r][k] >= floor[r][k]

\* While no write of the key is between dispatch and finalization, both tiers
\* agree with the origin, failed writes included.  (Without direct writes and
\* without writes that the origin applies after the call returned.)
CoherentWhenSettled ==
  \A k \in Keys :
    (\A w \in Writers : k \in wkeys[w] /\ tries[w] > 0 =>
       wpc[w] \notin {"send", "sent", "final", "through", "throughStore"})
    => /\ Present(prot[k]) => prot[k].ver = origin[k].ver
       /\ Present(prob[k]) => prob[k].ver = origin[k].ver

\* Writes of one key are finalized in the order in which the origin applied
\* them: the mutation gate is held from before dispatch to after write-through.
FinalizedInOriginOrder == [][\A k \in Keys : settled'[k] >= settled[k]]_settled

\* A key is never held by both tiers, not even inside a stripe section, so the
\* two budgets together bound what a key costs.
TiersDisjoint == \A k \in Keys : ~(Present(prot[k]) /\ Present(prob[k]))

\* A protected entry belongs to a HOT key, or the demotion that will remove it
\* was reported and is still to be applied (applyTransitions runs after the
\* tracker's lock is released).
ProtectedIsHot ==
  \A k \in Keys : Present(prot[k]) => IsHot(k) \/ \E p \in Procs : k \in pend[p]

\* A delayed demotion does not erase the value of a key that is HOT again: the
\* step that applies a reported demotion leaves the protected copy of a HOT key
\* alone.  (Without EWMA promotions, which take the tracker's lock only.)
HotCopyKept ==
  [][\A p \in Procs, k \in Keys :
       k \in pend[p] \ pend'[p] /\ Present(prot[k]) /\ IsHot(k)
         => Present(prot'[k])]_vars

\* A read that finds a servable copy when it begins is answered locally even
\* while another read moves the copy to the protected tier: as long as no write
\* of the key has begun and no copy of it has expired it never turns to the
\* origin.  (Without purges, Close, evictions, refused entries and EWMA changes.)
NoMissDuringPromotion ==
  \A r \in Readers :
    had[r] /\ (\A w \in Writers : cur[r] \in wkeys[w] => wpc[w] = "gate")
    => pc[r] # "miss"

\* No value read from the origin before a purge is in a tier after it: the
\* purge removes it or the advanced epoch refuses it.  (Refills only: a SET
\* that the origin applied before the purge may still be written through.)
NoRefillAcrossPurge ==
  \A k \in Keys : /\ Present(prot[k]) => prot[k].ver >= purged[k]
                  /\ Present(prob[k]) => prob[k].ver >= purged[k]

\* A closed tier stays empty, whatever fill or promotion was under way.
ClosedTiersEmpty ==
  \A k \in Keys : /\ closed["prot"] => ~Present(prot[k])
                  /\ closed["prob"] => ~Present(prob[k])

\* Every request is answered and every flight ends: no deadlock between
\* stripes, gates and flights, and nobody waits for a flight that is lost.
EveryRequestEnds == <>Quiet

\* ExecuteWrite: "Remove both tiers before dispatch so a slow write never
\* leaves a stale local-hit window": no fresh protected copy is older than
\* what the origin holds.
NoStaleLocalHitWindow ==
  \A k \in Keys : Fresh(prot[k]) => prot[k].ver = origin[k].ver
=============================================================================
