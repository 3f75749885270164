# A TLA+ model of Slizen

Slizen is a proxy for Redis or Valkey that keeps local copies of hot keys.
Reads of a hot key are answered from one of two LRU tiers; everything else is
forwarded to the origin. This directory models the parts of it in which
several goroutines, several clients or several configuration layers have to
agree, checks them with TLC on small instances, and proves the central
properties of the service, the cache and its tiers, the commands, the drain, the
process and the origin client with TLAPS for every instance. It also models the
benchmark beside the system, whose verdict is only as good as the counters it
reads.

## The system and its modules

    client --RESP--> proxy --Get/MGet/ExecuteWrite/PassThrough--> service --> upstream --> origin
                       |                                       /    |    \
                  drain tracker                   cache tiers   tracker   policies
    operator --HTTP--> admin server --Status/HotKeys/PurgeCache--> service
                        slizend's run starts, stops and waits for both servers

| module | code | what its state and actions are |
| --- | --- | --- |
| `Service` | `internal/service/service.go` | One process per request. A GET or MGET looks the tiers up, promotes a candidate, joins or leads a flight, fetches, and reconciles the tiers under the stripe of the key; a write takes its mutation gates, invalidates, dispatches, finalizes, forgets flights; an administrator advances the tracker, purges or closes. A value is the number of the mutation that made it. |
| `ServiceInv` | same | The six inductive invariants behind the proofs. |
| `ServiceProofs`, `ServiceOrderProofs`, `ServiceTierProofs` | same | What every action keeps of types and invariants. |
| `ServiceTheorems` | same | The theorems about `Service`. |
| `Lru` | `internal/cache/cache.go` | The operations of one cache as functions of its state: map, list, byte count, both limits. |
| `LruCache` | `internal/cache/cache.go` | One cache and concurrent callers, which read the clock before they take the lock. |
| `Tier` | what `Service` assumes of a cache | A lossy map; `LruCache` implements it. |
| `CacheTiers` | `service/cache_tiers.go`, the storing half of `service.go` | Two `Lru` caches under one budget, with lifetimes, promotion and demotion. |
| `CacheProofs` | same as `Lru`, `LruCache` | What each operation does to one cache, and the theorems about `LruCache`. |
| `CacheTierProofs` | same as `CacheTiers` | The theorems about the two tiers. |
| `HotnessTracker` | `internal/hotness` | Observation, admission into a ring of slots, windows of an EWMA in scaled integers, catch-up over skipped windows, eviction, the top list. |
| `Config` | `internal/config/config.go` | `Load`: defaults, file, environment, `Validate`. |
| `PolicyMatcher` | `internal/cachepolicy`, `service/policy.go` | Construction of the matcher and longest-prefix matching. |
| `Commands` | `proxy/server.go` (`handle`), `proxy/commands.go`, `compatibility/catalog.go` | The process after `Load`: every command is routed, and leaves local copies as its route and the policies of its keys allow. It composes `Config` and `PolicyMatcher`. |
| `Proxy` | `proxy/drain.go`, the rest of `proxy/server.go` | Connections as goroutines of redcon, dispatch, handler accounting, drain, `Start` and `Close`. |
| `Daemon` | `cmd/slizend/main.go`, `admin/server.go` | `run` with its two servers, the signal, the error path, both deadlines and the deferred `svc.Close`. |
| `Upstream` | `internal/upstream/redis.go` | GET with PTTL, the MGET pipeline and Do, against an origin that changes between the commands and a connection that breaks. |
| `ProxyProofs` | same as `Commands`, `Proxy` | Inductive invariants and theorems of both. |
| `ProcessProofs` | same as `Daemon`, `Upstream` | Inductive invariants and theorems of both. |
| `Benchmark` | `cmd/slizenctl/benchmark.go` | One scenario of the workload benchmark: a direct and a Slizen phase of concurrent workers that lock the key they use, the snapshots of the origin's and the daemon's counters around each phase, the final validation and the verdict. The origin, the daemon and other clients are external; what they may do to the evidence is a set of troubles. |

`MC*` modules hold the constants of the runs. The components meet at these
points: `Service` uses tiers as `Tier` describes them and a tracker whose
transitions `HotnessTracker` shows to be complete; its policy modes are those
`Commands` obtains from `PolicyMatcher`; its origin calls behave as `Upstream`
shows; `Daemon` uses of the proxy's `Start` what `Proxy` shows.

Libraries are external: x/sync's singleflight, redcon, go-redis and net/http
are modelled from how the code uses them, as are the origin and the clock.

## How the code is translated

* A step is one access to a shared object, or one critical section when
  nobody without the lock can see it half done. Sections that a lock-free
  reader can see half done (promotion, reconciliation, write-through, the
  purge of everything) are split.
* An early return is a disjunct; an error of the origin is a choice.
* Values, keys and messages are model values; a value is a version in
  `Service`, a length in `Lru`, a number in `Upstream`.
* Scores are integers scaled by `Scale`; the logarithms of
  `decayWindowsAtLeast` may return any estimate within reach, so the two
  correcting loops after them have to be right.
* Configuration settings that are each checked by themselves (addresses,
  timeouts, hotness, privacy and logging) are one verdict in `Config`.

## The runs

| run | question | size |
| --- | --- | --- |
| `ServiceWrites` | up to three of two reads and two SETs that may fail or be repeated: coherence, acknowledged writes, order of finalization, copies on their way between the tiers | 437 000 states |
| `ServiceTiers` | up to three of two reads, a DEL that may fail, be repeated or come late, and an administrator, or a DEL of two keys in one stripe and a read of either: stripes, tiers, demotion, purge, Close | 407 000 |
| `ServiceLiveness` | a GET or MGET and a DEL of both keys over two stripes, with a second DEL or a purge of everything, or two reads: every request ends | 62 000 |
| `ServiceLocalHitWindow` | the claim that no local hit is stale while a write is in flight (violated) | |
| `ProxyLifecycle` | accept, dispatch, drain, Start and Close in every order; drains complete | 193 000 |
| `CacheCalls` | one cache: accounting, what a put or a lookup may lose; it implements `Tier` | 85 000 |
| `CacheBudget` | two caches: the common budget and the lifetime of a moved entry | 423 000 |
| `HotnessCalls` | ring, windows, catch-up, top list; unused keys cool | 38 000 |
| `CommandsServed` | configuration, policies, routing and the SET grammar | 2 100 |
| `DaemonRun` | the two servers, the signal and the deadlines; the process ends | 5 800 |
| `UpstreamCalls` | pipelines against a changing origin and a breaking connection | 882 000 |
| `BenchmarkEvidence` | two phases of three operations with up to two troubles: valid evidence is sound, a quiet run is accepted | 2 100 000 |

Several runs have scenarios: a variable (`scene`, `config`, `cfg`) takes a
value from a small set of configurations in `Init` and keeps it, so one run
covers, for instance, twelve ways to split a budget.

**The bounds.** Two reads are needed for a flight with a waiter, and for a
read that watches the promotion another one makes; two writes for gates and the
order of finalization; one write and one read for every race of a fill. A copy
may begin in the protected tier (`WarmKeys`) or in probation
(`CandidateKeys`), so that a promotion needs no history of fills. Every race the
properties speak of needs two requests and a witness: `FewerRepeated` keeps
`ServiceWrites` to three requests out of four, and to two once a SET has been
sent again; `SharedBound` keeps `ServiceTiers` to three, and to two once a call
has failed or somebody else has written. In `ServiceTiers` both keys have the
same stripe: either all requests are about the first key, or the DEL is of both
and comes with one read, so that a fill of one key meets the invalidation of the
other (`SharedSpec`). In `ServiceLiveness` the keys have a stripe each and the
DELs name both, since only then the order of gates and of stripes
matters; `GroupSpec` lets a read and a DEL come with a second DEL or with a purge
of everything, which takes every stripe, and two reads, which may wait for one
flight, by themselves. Connections: two, and
three where the limit is two. The tracker has three keys over two slots, so
that the ring evicts, and one key with six skipped windows, more than the
longest cooldown. Caches hold two or three entries under limits that the
sizes of the values meet exactly and exceed. The benchmark's plans have a write
between reads of its key, and two reads that may share a flight; a trouble that
sets counters back comes alone, since a second one could make up for it and no
evidence of the code's kind would show it.

**Symmetry** is used for readers and writers of `Service` and for the readers
of `CacheTiers`, and for the workers of `Benchmark`, in runs without liveness properties only.

**Deadlock** is checked everywhere but in `DaemonRun` and `CommandsServed`,
whose process ends.

**Fairness.** Goroutines that can run do (weak fairness); `sync.Mutex` and the
channel behind a mutation gate serve every waiter in the end (strong fairness
of the steps that need one). Origin calls end because each carries a deadline.
Nothing is assumed of clients, signals, deadlines, late replies, expiry or
direct writes. `Proxy`: connection goroutines, `Start` and `Close` run, redcon
notices a closed listener. `Daemon`: `run`, listeners and servers that have
begun to stop, both of which have deadlines. `HotnessTracker`: time passes and
some call catches up, as every request does.

## What the checks show

* **Cache coherence** (`NoSupersededEntry`, `CoherentWhenSettled`,
  `ReadsSeeAcknowledgedWrites`, `FinalizedInOriginOrder`). A fill that
  overlaps a write is refused by the epoch or deleted by `finalizeWrite`. A
  write that fails may have been applied: it is finalized as well. A write
  that the origin applies after its call has failed is not seen by anybody,
  and a copy filled in between stays until it expires, as the documentation
  says of ambiguous writes; `CoherentWhenSettled` is stated without such
  writes and without direct ones.
* **The tiers** (`StripeDiscipline`, `ProtectedIsHot`, `HotCopyKept`,
  `NoMissDuringPromotion`, `BudgetKept`, `ExpiryPreserved`,
  `ClosedTiersEmpty`, `NoRefillAcrossPurge`). A SET that the origin applied
  before a purge may be written through after it: the value is current, and
  `NoRefillAcrossPurge` speaks of refills only.
* **One cache** (`Accounted`, `LossesJustified`, `ImplementsTier`). `Tier`, what
  the service relies on, is a lossy map without limits or expiry: it says what a
  key may hold. The limits are in `Accounted`, and in `BudgetKept` for both
  tiers. When an entry may go is in `LossesJustified`: a put evicts the oldest and
  no more than the limits require, and a lookup, whose clock reading may be older
  than the entry it meets, removes only what is past expiry and grace.
* **The tracker** (`RingAccounted`, `TransitionsComplete`, `CatchUpExact`,
  `EarlyPromotionSound`, `TopIsHeadOfRanking`, `HotUntilBoundary`,
  `UnusedKeyCools`).
* **The proxy** (`DrainedIsQuiet`, `ActiveCountsReservations`,
  `AdmissionEnds`, `ListenerNotLeaked`, `DrainCompletes`, `StartReturns`).
* **Commands and configuration** (`CopiesFollowCommands`,
  `LongestPrefixDecides`, `WidestMGetServed`). An MGET within the limits of
  keys and of bytes is served whatever the limit of arguments. The length of a
  command in bytes is a parameter of `Commands` (`RawBytes`): an operator may set
  the limit of bytes below what a wide MGET needs, and `Validate` accepts that.
* **The process** (`NoHandlerAtClose`, `FailureReported`,
  `ShutdownCompletes`) and **the origin client** (`MissIsReal`,
  `OwnLifetime`, `AcknowledgedExecuted`).
* **The benchmark** (`EvidenceSound`, `QuietRunAccepted`). Evidence reported as
  valid counts exactly the GETs the origin executed for the phases and the hits
  of the Slizen phase, no stale read is in it and one origin process served
  both phases; and a run that nothing disturbs is never rejected because of how
  its workers interleave. Another client's request that straddles a snapshot is
  not modelled: process-wide counters cannot tell it from the benchmark's own,
  which is why the harness asks for an otherwise idle daemon.

One statement of the repository does not hold. `ServiceLocalHitWindow`: a read
that begins after the pre-dispatch invalidation of a write and reads the origin
before the write is applied refills the tier, so local hits may return the old
value until the write returns; the comment of `ExecuteWrite` and
`FAILURE_MODES.md` say that this window does not exist.

Three more were met while modelling and have no run of their own. A lifetime
reported by the origin is counted from the moment of the store, so a copy can
outlive the origin's key by the time in between, where the documents call the
local TTL capped by the origin's. `storeProbationary` leaves an older candidate
in place when the tracker has forgotten the key, where ADR 0004 says that an
unstorable response deletes it. And the hot-key gauge is published with a read
and a set, so two callers can publish in the other order, although the comment
of `handleObservation` says that they cannot.

## What is proved

Of `Service`, for any numbers of keys, stripes, readers, writers and
administrators, every policy and, where nothing else is said, every
environment (direct writes, failing and late calls, expiry, evictions):

| theorem | what it says |
| --- | --- |
| `TypeCorrect` (`ServiceProofs`) | every reachable state is well typed |
| `SupersededEntriesGone` (`ServiceTheorems`) | `NoSupersededEntry`: no tier keeps an entry older than the last finalized write of its key |
| `TiersStayDisjoint` (`ServiceTheorems`) | no key is in both tiers, not even in the middle of a move |
| `WritesFinalizedInOrder` | `FinalizedInOriginOrder` |
| `ReadsSeeWhatWasAcknowledged` | `ReadsSeeAcknowledgedWrites` |
| `SettledTiersAreCoherent` | `CoherentWhenSettled`, assuming `Calm` |
| `PurgedValuesStayOut` | `NoRefillAcrossPurge`, assuming `RefillsOnly` |
| `ClosedTiersStayEmpty` | `ClosedTiersEmpty` |
| `ProtectedEntriesAreHot` | `ProtectedIsHot` |
| `HotCopiesAreKept` | `HotCopyKept`, assuming that only admissions make a key HOT |
| `FoundCopiesAreServed` | `NoMissDuringPromotion`, assuming `Steady` |

Those without a module are in `ServiceTheorems`. The steps of the proofs, one
lemma per action and discipline, are in `ServiceProofs` (types and stripes),
`ServiceOrderProofs` (writes and reads) and `ServiceTierProofs` (closed tiers,
copies, the tracker, and moves between the tiers).

Of the cache, for any keys, key lengths, values, limits, lifetimes and number of
callers or readers:

| theorem | what it says |
| --- | --- |
| `CacheAccounted` (`CacheProofs`) | `Accounted`: map, list and byte count agree, and no caller finds a limit exceeded |
| `LossesAreJustified` (`CacheProofs`) | `LossesJustified`: a put evicts from the back only, and no more than it must; a lookup removes only what nobody can be given any more |
| `CacheImplementsTier` (`CacheProofs`) | `ImplementsTier`: `LruCache` refines `Tier`, initial states and every step |
| `BudgetAlwaysKept` (`CacheTierProofs`) | `BudgetKept`: both tiers together are within the configured budget in every intermediate state |
| `ExpiryAlwaysPreserved` (`CacheTierProofs`) | `ExpiryPreserved`: a copy that moves keeps its expiry |

Of `Commands`, for any keys, words, argument lists, files and environments
(`ProxyProofs`): `CommandsKeepCopies`, `LongestPrefixAlwaysDecides` and
`WidestMGetIsServed`, the three properties `CopiesFollowCommands`,
`LongestPrefixDecides` and `WidestMGetServed` of the `CommandsServed` run.

Of `Proxy`, for any number of connections (`ProxyProofs`):
`DrainedStaysQuiet`, `CounterExact`, `AdmissionStaysEnded` and `ListenerClosed`
are the properties `DrainedIsQuiet`, `ActiveCountsReservations`,
`AdmissionEnds` and `ListenerNotLeaked` of the `ProxyLifecycle` run;
`ActiveOnlyAdmitting` and `WithinConnectionLimit` say that the proxy is
reported active only while it admits commands, and that it tracks no more
connections than its limit.

Of `Daemon` (`ProcessProofs`): `CloseFindsNoHandler` and `FailureIsReported`, the
properties `NoHandlerAtClose` and `FailureReported`. `Daemon` has no constants;
the proof adds to the run an argument why they hold.

Of `Upstream`, for any keys, widths of a request, versions and breaks of the
connection (`ProcessProofs`): `MissesAreReal`, `LifetimesAreTheKeysOwn` and
`AcknowledgementsAreReal`, the properties `MissIsReal`, `OwnLifetime` and
`AcknowledgedExecuted`.

**Assumptions.** `ServiceAssumption`: there are keys and stripes, the sets of
requests are disjoint, and the copies of the initial state are of keys that may
have one. `ProxyAssumption`: the connections are finitely many and a batch of
wake-ups is not empty. `RequestsAssumption`: a request names at least one key,
as the empty MGET returns before the pipeline. `KeyLenAssumption`,
`ScenariosAssumption` and `ConfigsAssumption`: lengths, limits and times are
integers, and a byte budget is not negative, as `Validate` demands.
`NoneAssumption`: the mark of a free stripe is not a reader.
`SettingsAssumption`: a layer's limits are integers and its policies a list, as
the decoders deliver them, the defaults have all settings, and there is no
environment variable for policies. `RawBytesAssumption`: a command has a length.
Four theorems about `Service` have one more, without which the property is
false:

* `Calm`: nothing reaches the origin past the gates, that is, no direct write
  and none that the origin applies after its call has failed. Either leaves a
  copy behind that only its expiry removes.
* `RefillsOnly`: `Calm`, or no SET at all. A SET that a late reply overtook may
  be written through after a purge with the version it made before it.
* `"promote" \notin Env`: a key becomes HOT only by an admission, under the
  stripe of the key. A promotion by the EWMA takes the tracker's lock only, so
  it can fall between the check of `applyTransitions` and its removal, and the
  copy of the key is lost, which costs a fetch.
* `Steady`: the EWMA changes no state and no entry is evicted from the tracker
  or a tier, refused, purged or closed. Each of these removes the copy that a
  request has found, and the request must then go to the origin.

**The argument for `Service`.** None of the properties is inductive: each is
kept by what requests have in their hands. `ServiceInv` has six invariants,
one per way in which a request may still change what the property speaks of.

* `StripeDiscipline` says of every value that may still be stored why it is
  not older than the last finalized write of its key: a candidate was taken
  under the stripe that is still held; a fill with the current epoch was
  fetched after the last finalized write, and after every write that has
  advanced the epoch and not yet finalized (`Barrier`); a write-through holds
  the stripe. It also says who holds which stripe, which makes the tiers
  disjoint in the middle of a move.
* `WriteDiscipline`: a gate has one owner, who holds it from before the
  dispatch to after the finalization, so two writes of a key are never both
  between the two; what a write made is newer than what is finalized until it
  is finalized itself. Under `Calm` the origin's version is the finalized one
  or belongs to a write under way.
* `CopyDiscipline`: everything in a tier or on its way into one lies between
  the last purge of its key and the origin's version. With `StripeDiscipline`
  from below and `WriteDiscipline` this closes the gap to equality in
  `CoherentWhenSettled`.
* `HotDiscipline`: whoever is about to store a key as HOT learned it under the
  stripe, so the key is HOT or its demotion is among the transitions that
  somebody has yet to apply.
* `ReadDiscipline`: a request has a floor per key, the newest write
  acknowledged when it looked the key up. What it holds is not below its
  floor, and the flight in the group is not below anything acknowledged,
  because a write forgets the flight before it is acknowledged: that is the
  order of `Forget` and the reply in `ExecuteWrite`, and the invariant fails
  without it.

* `MoveDiscipline`, under `Steady`: the copy that a request found is where the
  request has yet to look, label by label of the lookup (`FoundInv`). A value
  that has left the probationary tier is in the hand of the request that
  promotes it, which holds the stripe, has raised the flag of the stripe and has
  made the key HOT before (`PromotionInv`); a key that is HOT and on probation is
  about to be taken from it (`PlaceInv`); and a fill that deletes a copy has found
  that the key is gone from the origin, where only a write can have removed it
  (`PlacementInv`). This is why the lookup reads the tracker again after it has
  missed the candidate, and then the flag, in this order.

`StripeDiscipline` is kept by itself, every other one by steps from states that
satisfy it too; `CopyDiscipline`, `ReadDiscipline` and `MoveDiscipline` also need
`WriteDiscipline`, and `MoveDiscipline` needs `HotDiscipline`.

**The others.** The drain signal is right because the counter is: the
invariant of `Proxy` (`IInv`, theorem `ProxyInvariant`) says that the counter is
the number of reservations, that a connection is tracked from its admission to
its end, that a handler that ends a drain is in one, and which of the
listener's flags each place of `Start` and `Close` allows. None of the four
properties is inductive without the places. The invariant of `Daemon` says what
is in `errCh` and who has been waited for at each place of `run`; that of
`Upstream` that a reply read in this attempt is what the origin answered at
some instant of the call, and that the version read by GET or MGET is not newer
than the one whose lifetime PTTL reported.

**The cache.** The invariant of one cache (`Sound` in `CacheProofs`) says that
the list holds every mapped key once, that sizes are natural numbers and that
`bytes` is their sum. What an operation does follows from three facts
about it: unlinking an element takes its size from the sum, putting one at the
front adds it, and the loop of `enforceLimitsLocked` stops, because every turn
removes the last element, at the first turn that leaves both limits kept; so what
it leaves is a prefix of the list, and the entry that was just stored is in it,
because it was admitted by size. `LruInv` adds the calls that have read the clock
and wait for the lock, and `Timely` that their readings are not ahead of it: an
entry that is past its grace at an old reading is past it now. With `TiersInv` two caches have the limits that
`splitCacheTierLimits` made of one budget, and the lemma `SplitWithin` says that
these add up to no more than the budget, whatever it is; an entry in the hand of
a promotion has the expiry it was given, and `given` changes only with a store
under the stripe of the key.

**The commands.** `CopiesFollowCommands` is inductive: the work is in
`Dropped` and `PassedThroughChangesNothing`, that the keys `handle` gives to
`ExecuteWrite` are all the keys the origin changes. The policies need `Loaded`,
that `cfg` is one `Validate` accepted: then prefixes are distinct, the matcher's
lengths are those of the policies in descending order (`Lengths` exists for every
finite set of policies), and the first hit is the longest prefix.

**Recursion.** The loop of `enforceLimitsLocked` and the sum of the sizes are
recursive functions over `0 .. Len(lru)`. That they are defined, and what they
compute, is proved from the least natural number at which a claim would fail
(`LeastNatural`): induction over the position in a list is in reach this way,
since the set of counterexamples is a set and not an operator.

## What is only model-checked

* Liveness (`EveryRequestEnds`, `DrainCompletes`, `StartReturns`,
  `ShutdownCompletes`, `UnusedKeyCools`): fairness and ENABLED are outside the
  prover.
* `HotnessTracker`: scores are sums and quotients, catch-up over skipped windows
  compares two recursive computations on them, and the top list is sorted; the
  prover has neither the nonlinear arithmetic nor the induction over
  transitions that this takes.
* `Benchmark`: its verdict compares sums over the calls of all workers, which
  is an induction over data as well.

## Not modelled

* Encoding of replies, log lines, the wording of errors, key hashing, build
  information: no state.
* Of `slizenctl`, everything but the workload benchmark: clients of the
  administration API. Of the benchmark, latencies, request generation, runtime
  versions and the hot-key variant, which takes the same snapshots around one
  key.
* The administration handlers: decoding and encoding around service calls that
  `Service` has as the requests of administrators.
* Failing `SetDeadline` calls, which are only logged.
* Metrics: counters and gauges that no decision of the system reads.
