--------------------------- MODULE HotnessTracker ----------------------------
(***************************************************************************)
(* internal/hotness/tracker.go.  Every method is one step under t.mu; its  *)
(* clock reading precedes the lock, so a call may apply any number of the  *)
(* windows that have elapsed since t.window, or none.                      *)
(*                                                                         *)
(* Time is counted in windows, relative to t.window.  Scores and rates are *)
(* integers, in units of 1/Scale requests per window; rounding down stands *)
(* for the underflow by which a float64 score reaches zero.  hotWindows    *)
(* saturates at MinimumHotWindows and the time in COOLING at Cooldown: no  *)
(* branch tells larger values apart.  Counters that are only reported are  *)
(* left out; an observation of an empty or oversized key is an Advance.    *)
(***************************************************************************)
EXTENDS Integers, SequencesExt

CONSTANTS
  Keys,
  KeyRank,  \* the order of the keys as strings
  Configs   \* [keys, maxTrackedKeys, alphaNum, alphaDen, scale,
            \*  promotionThreshold, demotionThreshold, minimumHotWindows,
            \*  cooldown, maxCount, maxLag]

\* What config.Validate accepts.
ASSUME ConfigAssumption ==
  \A c \in Configs :
    /\ c.keys \subseteq Keys
    /\ c.maxTrackedKeys > 0 /\ c.minimumHotWindows > 0 /\ c.cooldown > 0
    /\ 0 < c.alphaNum /\ c.alphaNum <= c.alphaDen
    /\ 0 < c.demotionThreshold /\ c.demotionThreshold < c.promotionThreshold

VARIABLES
  cfg,         \* t.cfg and the bounds, chosen at the start and fixed
  ring,        \* admissionRing: the tracked entries in their slots
  items,       \* [tracked key -> slot]
  nextVictim,
  hot,         \* t.hot
  lag,         \* windows elapsed since t.window
  seen,        \* history: each key's state as the reported transitions tell it
  early        \* history: keys promoted within the open window

vars == <<ring, items, nextVictim, hot, lag, seen, early>>

MaxTrackedKeys == cfg.maxTrackedKeys
AlphaNum == cfg.alphaNum   \* EWMAAlpha = AlphaNum / AlphaDen
AlphaDen == cfg.alphaDen
Scale == cfg.scale
PromotionThreshold == cfg.promotionThreshold  \* in score units
DemotionThreshold == cfg.demotionThreshold
MinimumHotWindows == cfg.minimumHotWindows
Cooldown == cfg.cooldown   \* in windows
MaxCount == cfg.maxCount   \* bound on the observations of a key in a window
MaxLag == cfg.maxLag       \* bound on the windows elapsed and not applied

Capped(n, bound) == IF n > bound THEN bound ELSE n

NewEntry(key) ==
  [key |-> key, state |-> "COLD", score |-> 0, count |-> 0, hotWindows |-> 0, cooling |-> 0]

-----------------------------------------------------------------------------
(* One window boundary.                                                    *)

NextScore(e) == (AlphaNum * e.count * Scale + (AlphaDen - AlphaNum) * e.score) \div AlphaDen

\* The score after m further windows without observations.
Decayed(score, m) ==
  IF m = 0 THEN score ELSE (score * (AlphaDen - AlphaNum) ^ m) \div AlphaDen ^ m

BandNeverLow(score) == IF score >= PromotionThreshold THEN "high" ELSE "mid"

Band(score) == CASE score >= PromotionThreshold -> "high"
                 [] score >= DemotionThreshold /\ score < PromotionThreshold -> "mid"
                 [] OTHER -> "low"

applyState(e) ==
  LET streak == Capped(e.hotWindows + 1, MinimumHotWindows)
      cooled == IF e.state = "COOLING" THEN Capped(e.cooling + 1, Cooldown) ELSE 0
      Become(state, streakAfter, coolingAfter) ==
        [e EXCEPT !.state = state, !.hotWindows = streakAfter, !.cooling = coolingAfter]
  IN  CASE Band(e.score) = "high" ->
             Become(IF e.state = "COOLING" \/ streak >= MinimumHotWindows THEN "HOT"
                    ELSE IF e.state = "COLD" THEN "WARM" ELSE e.state, streak, 0)
        [] Band(e.score) = "mid" ->
             Become(IF e.state = "COLD" THEN "WARM" ELSE e.state, 0, cooled)
        [] Band(e.score) = "low" ->
             CASE e.state = "HOT" -> Become("COOLING", 0, 0)
               [] e.state = "COOLING" /\ cooled >= Cooldown -> Become("COLD", 0, 0)
               [] e.state = "WARM" /\ e.score = 0 -> Become("COLD", 0, 0)
               [] OTHER -> Become(e.state, 0, cooled)

\* The transition between two states of an entry, if there is one.
Change(before, after) == IF before = after THEN <<>> ELSE <<[from |-> before, to |-> after]>>

\* The boundary that closes the window e.count belongs to.
FirstBoundary(e) == applyState([e EXCEPT !.score = NextScore(e), !.count = 0])

-----------------------------------------------------------------------------
(* Several boundaries at once: advanceEntryLocked.                         *)

RECURSIVE Lower(_, _, _)
Lower(score, threshold, m) ==
  IF m > 0 /\ Decayed(score, m) < threshold THEN Lower(score, threshold, m - 1) ELSE m

RECURSIVE Raise(_, _, _, _)
Raise(score, threshold, m, maxWindows) ==
  IF m < maxWindows /\ Decayed(score, m + 1) >= threshold
  THEN Raise(score, threshold, m + 1, maxWindows) ELSE m

DecayEstimateOnly(score, threshold, maxWindows, estimate) == Capped(estimate, maxWindows)

\* How many of the next maxWindows empty windows keep the score at the
\* threshold.  The quotient of logarithms is an estimate that the loops correct.
decayWindowsAtLeast(score, threshold, maxWindows, estimate) ==
  IF maxWindows <= 0 \/ score <= 0 \/ AlphaNum = AlphaDen \/ Decayed(score, 1) < threshold THEN 0
  ELSE IF Decayed(score, maxWindows) >= threshold THEN maxWindows
  ELSE Raise(score, threshold, Lower(score, threshold, Capped(estimate, maxWindows)), maxWindows)

HighSegment(e, n) ==
  LET needed == MinimumHotWindows - e.hotWindows
      rises  == e.state = "COOLING" \/ (e.state # "HOT" /\ n >= needed)
  IN  IF n = 0 THEN e
      ELSE [e EXCEPT !.state = IF rises THEN "HOT" ELSE @,
                     !.hotWindows = Capped(@ + n, MinimumHotWindows),
                     !.cooling = IF e.state = "COOLING" THEN 0 ELSE @]

MidSegment(e, n) ==
  IF n = 0 THEN e
  ELSE [e EXCEPT !.state = IF @ = "COLD" THEN "WARM" ELSE @, !.hotWindows = 0,
                 !.cooling = IF e.state = "COOLING" THEN Capped(@ + n, Cooldown) ELSE @]

\* A HOT entry starts to cool at the first low window; n - 1 windows later
\* it may be COLD.
LowCools(e, n) ==
  IF n = 0 THEN e
  ELSE [e EXCEPT !.hotWindows = 0,
                 !.state = IF @ = "HOT" THEN "COOLING" ELSE @,
                 !.cooling = CASE e.state = "HOT" -> Capped(n - 1, Cooldown)
                               [] e.state = "COOLING" -> Capped(@ + n, Cooldown)
                               [] OTHER -> @]

LowSettles(e, n, finalScore) ==
  IF n > 0 /\ (\/ e.state = "COOLING" /\ e.cooling >= Cooldown
               \/ e.state = "WARM" /\ finalScore = 0)
  THEN [e EXCEPT !.state = "COLD", !.cooling = 0] ELSE e

\* The entry before and after each of the segments of elapsed >= 1 windows.
Trail(e, first, rest, high, atLeast) ==
  LET Segment(trail, name) ==
        Append(trail,
               CASE name = "high"    -> HighSegment(Last(trail), high)
                 [] name = "mid"     -> MidSegment(Last(trail), atLeast - high)
                 [] name = "low"     -> LowCools(Last(trail), rest - atLeast)
                 [] name = "settles" -> LowSettles(Last(trail), rest - atLeast,
                                                   Decayed(first.score, rest)))
  IN  FoldLeft(Segment, <<e, first>>, <<"high", "mid", "low", "settles">>)

\* The entry after elapsed >= 1 windows, and the transitions it reports.
advanceEntry(e, elapsed, estimate) ==
  LET first   == FirstBoundary(e)
      Windows(threshold) == decayWindowsAtLeast(first.score, threshold, elapsed - 1, estimate)
      trail   == Trail(e, first, elapsed - 1, Windows(PromotionThreshold), Windows(DemotionThreshold))
      Crossed(reported, i) == reported \o Change(trail[i].state, trail[i + 1].state)
  IN  [entry |-> [Last(trail) EXCEPT !.score = Decayed(first.score, elapsed - 1)],
       transitions |-> FoldLeft(Crossed, <<>>, <<1, 2, 3, 4, 5>>)]

\* The definition it must agree with: one window after the other.
RECURSIVE WindowByWindow(_, _)
WindowByWindow(e, elapsed) ==
  IF elapsed = 0 THEN [entry |-> e, transitions |-> <<>>]
  ELSE LET next == FirstBoundary(e)
           rest == WindowByWindow(next, elapsed - 1)
       IN  [entry |-> rest.entry, transitions |-> Change(e.state, next.state) \o rest.transitions]

-----------------------------------------------------------------------------
(* The tracker: a record of the variables a call computes in turn.         *)

Now == [ring |-> ring, items |-> items, nextVictim |-> nextVictim, hot |-> hot,
        out |-> [k \in Keys |-> <<>>]]

\* adjustHotCountLocked.
Adjusted(n, before, after) ==
  CASE before = "HOT" /\ after # "HOT" -> n - 1
    [] before # "HOT" /\ after = "HOT" -> n + 1
    [] OTHER -> n

Report(t, key, transitions) == [t EXCEPT !.out[key] = @ \o transitions]

\* advanceLocked, for the windows that had elapsed at the call's clock reading.
advance(t, elapsed, estimate) ==
  IF elapsed = 0 THEN t
  ELSE LET One(acc, i) ==
             LET result == advanceEntry(t.ring[i], elapsed, estimate) IN
             [Report(acc, result.entry.key, result.transitions) EXCEPT
                !.ring[i] = result.entry,
                !.hot = Adjusted(@, t.ring[i].state, result.entry.state)]
       IN  FoldLeft(One, t, [i \in DOMAIN t.ring |-> i])

NextSlot(slot, n) == IF slot = n THEN 1 ELSE slot + 1

VictimAlways(victim) == TRUE

\* A HOT entry gets a second chance.
MayEvict(victim) == victim.state # "HOT"

EvictionReportNone(victim) == <<>>

EvictionReport(victim) == Change(victim.state, "COLD")

\* getOrCreateLocked: the tracker with the key in a slot, or unchanged but for
\* the cursor when the observation is dropped.
getOrCreate(t, key) ==
  LET slot   == t.nextVictim
      victim == t.ring[slot]
      moved  == [t EXCEPT !.nextVictim = NextSlot(slot, Len(t.ring))]
      kept   == [k \in DOMAIN t.items \ {victim.key} |-> t.items[k]]
  IN  CASE key \in DOMAIN t.items -> t
        [] key \notin DOMAIN t.items /\ Len(t.ring) < MaxTrackedKeys ->
             [t EXCEPT !.ring = Append(@, NewEntry(key)), !.items = @ @@ (key :> Len(t.ring) + 1)]
        [] key \notin DOMAIN t.items /\ Len(t.ring) >= MaxTrackedKeys /\ ~MayEvict(victim) -> moved
        [] OTHER ->
             [Report(moved, victim.key, EvictionReport(victim)) EXCEPT
                !.ring[slot] = NewEntry(key),
                !.items = kept @@ (key :> slot),
                !.hot = Adjusted(@, victim.state, "COLD")]

GuaranteedCountAlone(e) == e.state = "WARM" /\ e.count * Scale >= PromotionThreshold

\* The open window, whatever it still brings, completes the streak.
Guaranteed(e) ==
  /\ e.state = "WARM" /\ e.hotWindows > 0 /\ e.hotWindows + 1 >= MinimumHotWindows
  /\ NextScore(e) >= PromotionThreshold

\* Count the observation and commit a promotion the boundary cannot undo.
Counted(t, key) ==
  LET slot == t.items[key]
      e    == [t.ring[slot] EXCEPT !.count = @ + 1]
  IN  IF Guaranteed(e)
      THEN [Report(t, key, Change("WARM", "HOT")) EXCEPT
              !.ring[slot] = [e EXCEPT !.state = "HOT",
                                       !.hotWindows = Capped(@ + 1, MinimumHotWindows)],
              !.hot = @ + 1]
      ELSE [t EXCEPT !.ring[slot] = e]

AdmittedUncounted(t, key) ==
  LET slot == t.items[key] IN
  [Report(t, key, Change(t.ring[slot].state, "HOT")) EXCEPT
     !.ring[slot] = [@ EXCEPT !.state = "HOT", !.hotWindows = 0, !.cooling = 0]]

\* Admit, for a tracked key that is not HOT.
Admitted(t, key) ==
  LET slot == t.items[key] IN
  [Report(t, key, Change(t.ring[slot].state, "HOT")) EXCEPT
     !.ring[slot] = [@ EXCEPT !.state = "HOT", !.hotWindows = 0, !.cooling = 0],
     !.hot = @ + 1]

-----------------------------------------------------------------------------
(* scorer.go: what AdvanceAndSnapshot and Snapshots list.                  *)

\* math.Round(score*100)/100, in hundredths.
Snapshot(e) ==
  [key |-> e.key, state |-> e.state, score |-> (200 * e.score + Scale) \div (2 * Scale)]

\* HOT first, then by score, then by key.
snapshotBetter(left, right) ==
  IF (left.state = "HOT") # (right.state = "HOT") THEN left.state = "HOT"
  ELSE IF left.score = right.score THEN KeyRank[left.key] < KeyRank[right.key]
  ELSE left.score > right.score

sortSnapshots(snapshots) == SetToSortSeq(snapshots, snapshotBetter)

\* The root of the heap.
WorstOf(selected) == CHOOSE s \in selected : \A o \in selected \ {s} : snapshotBetter(o, s)

ReplacesAny(snapshot, selected) == snapshotBetter(snapshot, CHOOSE s \in selected : TRUE)

Replaces(snapshot, selected) == snapshotBetter(snapshot, WorstOf(selected))

Offer(selected, snapshot, limit) ==
  CASE Cardinality(selected) < limit -> selected \cup {snapshot}
    [] Cardinality(selected) >= limit /\ Replaces(snapshot, selected) ->
         (selected \ {WorstOf(selected)}) \cup {snapshot}
    [] OTHER -> selected

\* The entries come in the order in which the map is iterated.
topSnapshots(entries, limit) ==
  IF limit <= 0 \/ limit >= Len(entries)
  THEN sortSnapshots({Snapshot(entries[i]) : i \in DOMAIN entries})
  ELSE sortSnapshots(FoldLeft(LAMBDA selected, e : Offer(selected, Snapshot(e), limit), {}, entries))

-----------------------------------------------------------------------------

\* A listener's view of a key after more transitions; a transition that does
\* not start where the last one ended leaves it lost.
RECURSIVE Follow(_, _)
Follow(state, transitions) ==
  IF transitions = <<>> THEN state
  ELSE Follow(IF Head(transitions).from = state THEN Head(transitions).to ELSE "LOST",
              Tail(transitions))

Take(t, elapsed) ==
  /\ ring' = t.ring /\ items' = t.items /\ nextVictim' = t.nextVictim /\ hot' = t.hot
  /\ lag' = lag - elapsed
  /\ seen' = [k \in Keys |-> Follow(seen[k], t.out[k])]

Init ==
  /\ cfg \in Configs
  /\ ring = <<>> /\ items = <<>> /\ nextVictim = 1 /\ hot = 0
  /\ lag = 0
  /\ seen = [k \in Keys |-> "COLD"]
  /\ early = {}

Open(elapsed) == IF elapsed = 0 THEN early ELSE {}

\* The tracker after advanceLocked, for a clock reading and an estimate.
Advanced(elapsed) == {advance(Now, elapsed, estimate) : estimate \in {0, MaxLag}}

\* Advance, AdvanceAndSnapshot, and observations that only advance.
Advance ==
  \E elapsed \in 1 .. lag : \E t \in Advanced(elapsed) : Take(t, elapsed) /\ early' = {}

ObserveWithState(key) ==
  \E elapsed \in 0 .. lag : \E advanced \in Advanced(elapsed) :
    \E t \in {getOrCreate(advanced, key)} :
      \/ /\ key \in DOMAIN t.items
         /\ t.ring[t.items[key]].count < MaxCount
         /\ \E after \in {Counted(t, key)} :
              /\ Take(after, elapsed)
              /\ early' = (Open(elapsed) \cap DOMAIN after.items)
                          \cup {k \in {key} : after.hot > t.hot}
      \/ key \notin DOMAIN t.items /\ Take(t, elapsed) /\ early' = Open(elapsed)

Admit(key) ==
  \E elapsed \in 0 .. lag : \E t \in Advanced(elapsed) :
    /\ Take(IF key \in DOMAIN t.items /\ t.ring[t.items[key]].state # "HOT"
            THEN Admitted(t, key) ELSE t, elapsed)
    /\ early' = Open(elapsed)

Tick == lag < MaxLag /\ lag' = lag + 1 /\ UNCHANGED <<ring, items, nextVictim, hot, seen, early>>

Next == Advance \/ Tick \/ \E key \in cfg.keys : ObserveWithState(key) \/ Admit(key)

Spec == Init /\ [][Next /\ UNCHANGED cfg]_<<vars, cfg>>

\* Some method applies windows that have elapsed: advanceLocked begins each.
CatchUp == \E elapsed \in 1 .. lag : lag' = lag - elapsed

\* Time passes, and requests or scrapes keep arriving.
FairSpec == Spec /\ WF_vars(Tick) /\ WF_lag(CatchUp)

-----------------------------------------------------------------------------

StateOf(k) == IF k \in DOMAIN items THEN ring[items[k]].state ELSE "COLD"

TypeOK ==
  /\ cfg \in Configs
  /\ ring \in Seq([key : Keys, state : {"COLD", "WARM", "HOT", "COOLING"}, score : Nat,
                   count : 0 .. MaxCount, hotWindows : 0 .. MinimumHotWindows,
                   cooling : 0 .. Cooldown])
  /\ Len(ring) <= MaxTrackedKeys /\ nextVictim \in 1 .. MaxTrackedKeys
  /\ hot \in Int /\ lag \in 0 .. MaxLag /\ early \subseteq Keys

\* The map and the ring name the same entries, each slot once, and the hot
\* counter the Service publishes is the number of HOT entries.
RingAccounted ==
  /\ TypeOK
  /\ DOMAIN items = {ring[i].key : i \in DOMAIN ring}
  /\ \A k \in DOMAIN items : items[k] \in DOMAIN ring /\ ring[items[k]].key = k
  /\ hot = Cardinality({i \in DOMAIN ring : ring[i].state = "HOT"})

\* Applying the reported transitions in the order of the calls gives every key's
\* state: none is missing, not even an eviction's or one inside a catch-up.
TransitionsComplete == \A k \in Keys : seen[k] = StateOf(k)

\* A promotion committed before its window ends is the one the boundary would
\* have made without it ("waiting for the wall-clock boundary cannot change the
\* decision", commitGuaranteedPromotionLocked).
EarlyPromotionSound ==
  \A k \in early :
    LET e == ring[items[k]] IN
    StateOf(k) = "HOT" /\ FirstBoundary([e EXCEPT !.state = "WARM", !.hotWindows = @ - 1]).state = "HOT"

\* Catching up by threshold segments is the same as window after window, for
\* the entry and for its transitions, whatever the logarithms estimate.
CatchUpExact ==
  \A i \in DOMAIN ring, elapsed \in 1 .. MaxLag, estimate \in 0 .. MaxLag :
    advanceEntry(ring[i], elapsed, estimate) = WindowByWindow(ring[i], elapsed)

\* Within a window nothing takes a key out of HOT: neither a scan of unseen keys
\* nor any other call evicts or demotes it before a boundary is applied.
HotUntilBoundary ==
  [][lag' >= lag => \A k \in Keys : StateOf(k) = "HOT" => StateOf(k)' = "HOT"]_vars

\* The bounded list is the head of the full ranking, in whatever order the map
\* hands out the entries.
TopIsHeadOfRanking ==
  \A order \in SetToSeqs(ToSet(ring)), limit \in 1 .. Len(ring) :
    topSnapshots(order, limit) = SubSeq(topSnapshots(ring, 0), 1, limit)

Observed(k) == k \in DOMAIN items /\ ring[items[k]].count > 0

\* An Admit in the middle of whose advance the key stopped being HOT.
Readmitted(k) ==
  /\ lag' < lag /\ StateOf(k)' = "HOT"
  /\ \E t \in Advanced(lag - lag') : /\ k \in DOMAIN t.items /\ t.ring[t.items[k]].state # "HOT"
                                    /\ ring' = Admitted(t, k).ring

\* A key that is neither observed nor admitted again does not stay HOT: the
\* windows without it take it to COOLING, however they are grouped into calls.
UnusedKeyCools ==
  \A k \in Keys : []<>(StateOf(k) # "HOT") \/ []<>Observed(k) \/ []<><<Readmitted(k)>>_vars
=============================================================================
