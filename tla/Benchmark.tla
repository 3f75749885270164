------------------------------ MODULE Benchmark ------------------------------
(***************************************************************************)
(* One scenario of `slizenctl benchmark workload`                          *)
(* (cmd/slizenctl/benchmark.go): a direct phase and a Slizen phase over    *)
(* freshly seeded keys, each bracketed by counter snapshots, and the       *)
(* verdict whether the counters are evidence.                              *)
(*                                                                         *)
(* Values are the write versions of values.Fill; the requests of a phase   *)
(* are a plan fixed in Init, as workloadRequestAt fixes them by the seed.  *)
(* The daemon is reduced to its counters and copies; the origin and other  *)
(* clients are external.  What may spoil the evidence is a trouble, at     *)
(* most one of each kind.                                                  *)
(* Another client's request does not straddle a snapshot.  Latencies and   *)
(* notes are left out.                                                     *)
(***************************************************************************)
EXTENDS Integers, Sequences, FiniteSets, SequencesExt

CONSTANTS
  Keys,
  Workers,      \* cfg.Concurrency
  Plans,        \* sequences of [key, read]; the length is cfg.MaxRequests
  Missing,      \* no value
  Failed,       \* a command or snapshot that returned an error
  Kinds,        \* the troubles that may occur, see Troubles
  MaxTroubles   \* bound on the troubles of a run

Troubles ==
  { "error",        \* a command fails, or its reply does
    "retry",        \* a reply is lost and go-redis sends the command again
    "deadline",     \* the context of the final validation ends
    "unreachable",  \* a step of the harness fails: seed, ping, purge, status, INFO
    "stale",        \* the daemon under test keeps a copy across a write
    "directGet", "proxiedGet",       \* other clients
    "originRestart", "originReset",  \* a new process, CONFIG RESETSTAT
    "daemonRestart" }

\* Those that set counters back, so that a second trouble could make up for them.
Resets == {"originReset", "daemonRestart"}

ASSUME BenchmarkAssumption ==
  /\ Kinds \subseteq Troubles
  /\ \A plan \in Plans : plan # <<>> /\ plan \in Seq([key : Keys, read : BOOLEAN])

VARIABLES
  plan,
  phase,     \* "direct", then "slizen"
  pc,        \* where runWorkloadBenchmark is
  bracket,   \* which INFO snapshot it takes next, "before" or "after" the phase
  info,      \* the snapshot being taken, and the two of the phase
  status,    \* the status snapshot before the Slizen phase
  issued,    \* operations handed out
  expired,   \* the phase's context is done
  version,   \* keyStates: the last acknowledged write of each key
  changed,   \* keys still to validate
  worker,    \* each worker's place, operation and reply
  tally,     \* the sums of the workers' results
  report,    \* the benchmarkPhase of each phase
  valid,     \* EvidenceValid
  origin,    \* external: run_id, cmdstat_get and the values
  daemon,    \* slizend: its start, its counters and its copies
  troubles,  \* history: what went wrong
  truth      \* history: GETs the origin executed for each phase's operations, hits,
             \* and whether a stale copy was served or the origin restarted in between

harness == <<plan, phase, pc, bracket, info, status, report, valid>>
load == <<issued, expired, version, changed, worker, tally>>
outside == <<origin, daemon, truth>>
vars == <<harness, load, outside, troubles>>

Idle == [pc |-> "exit", key |-> Missing, read |-> TRUE, got |-> Missing]
Ready == [w \in Workers |-> [Idle EXCEPT !.pc = "next"]]
NoInfo == [run |-> 0, calls |-> 0, before |-> Failed, after |-> Failed]
NoTally == [reads |-> 0, writes |-> 0, failures |-> 0, mismatches |-> 0]

Init ==
  /\ plan \in Plans
  /\ phase = "direct" /\ pc = "seed" /\ bracket = "before"
  /\ info = NoInfo
  /\ status = Failed
  /\ issued = 0 /\ expired = FALSE
  /\ version = [k \in Keys |-> 0] /\ changed = <<>>
  /\ worker = [w \in Workers |-> Idle]
  /\ tally = NoTally
  /\ report = [p \in {"direct", "slizen"} |-> Failed]
  /\ valid = FALSE
  /\ origin = [run |-> 1, calls |-> 2, value |-> [k \in Keys |-> Missing]]
  /\ daemon = [start |-> 1, requests |-> 0, hits |-> 0, misses |-> 0, upstream |-> 0,
               copy |-> [k \in Keys |-> Missing]]
  /\ troubles = {}
  /\ truth = [direct |-> 0, slizen |-> 0, hits |-> 0, stale |-> FALSE, restarted |-> FALSE]

\* Troubles that set counters back come alone.
Trouble(kind) ==
  /\ kind \in Kinds \ troubles
  /\ Cardinality(troubles) < MaxTroubles
  /\ troubles \cap Resets = {} /\ (kind \in Resets => troubles = {})
  /\ troubles' = troubles \cup {kind}

-----------------------------------------------------------------------------
(* The workers.                                                            *)

At(w, place) == worker[w].pc = place

\* The key's lock is held from the acquisition to the reply.
Holds(w, k) == worker[w].key = k /\ worker[w].pc \in {"call", "flight", "joined", "reply"}

LockFreeIgnored(w) == TRUE
LockFree(w) ==
  \A v \in Workers \ {w} :
    Holds(v, worker[w].key) => worker[w].read /\ worker[v].read

\* The next operation of the plan, unless the time or the requests are used up.
Issue(w) ==
  /\ pc = "run" /\ At(w, "next")
  /\ IF expired \/ issued >= Len(plan)
     THEN worker' = [worker EXCEPT ![w] = Idle] /\ UNCHANGED issued
     ELSE /\ worker' = [worker EXCEPT ![w] = [pc |-> "lock", key |-> plan[issued + 1].key,
                                              read |-> plan[issued + 1].read, got |-> Missing]]
          /\ issued' = issued + 1
  /\ UNCHANGED <<harness, outside, troubles, expired, version, changed, tally>>

Expire ==
  /\ pc = "run" /\ ~expired /\ expired' = TRUE
  /\ UNCHANGED <<harness, outside, troubles, issued, version, changed, worker, tally>>

Acquire(w) ==
  /\ At(w, "lock") /\ LockFree(w)
  /\ worker' = [worker EXCEPT ![w].pc = "call"]
  /\ UNCHANGED <<harness, outside, troubles, issued, expired, version, changed, tally>>

Replied(w, value) ==
  worker' = [worker EXCEPT ![w].pc = "reply",
                           ![w].got = IF value = Missing THEN Failed ELSE value]

CallFrame == UNCHANGED <<harness, troubles, issued, expired, version, changed, tally>>

\* The command at the origin, sent directly.
CallDirect(w) ==
  /\ phase = "direct" /\ At(w, "call")
  /\ LET k == worker[w].key IN
     IF worker[w].read
     THEN /\ origin' = [origin EXCEPT !.calls = @ + 1]
          /\ truth' = [truth EXCEPT !.direct = @ + 1]
          /\ Replied(w, origin.value[k])
     ELSE /\ origin' = [origin EXCEPT !.value[k] = version[k] + 1]
          /\ Replied(w, version[k] + 1)
          /\ UNCHANGED truth
  /\ UNCHANGED daemon /\ CallFrame

\* A SET through Slizen drops or refreshes the copy; a request is counted
\* before its reply is sent.
CallSet(w) ==
  /\ phase = "slizen" /\ At(w, "call") /\ ~worker[w].read
  /\ LET k == worker[w].key IN
     /\ origin' = [origin EXCEPT !.value[k] = version[k] + 1]
     /\ \E copy \in {Missing, version[k] + 1} :
          daemon' = [daemon EXCEPT !.requests = @ + 1, !.copy[k] = copy]
     /\ Replied(w, version[k] + 1)
  /\ UNCHANGED truth /\ CallFrame

\* The fault that the validation of every read is there to find.
CallSetKeepsCopy(w) ==
  /\ phase = "slizen" /\ At(w, "call") /\ ~worker[w].read /\ Trouble("stale")
  /\ LET k == worker[w].key IN
     /\ origin' = [origin EXCEPT !.value[k] = version[k] + 1]
     /\ daemon' = [daemon EXCEPT !.requests = @ + 1]
     /\ Replied(w, version[k] + 1)
  /\ UNCHANGED <<harness, issued, expired, version, changed, tally, truth>>

CallHit(w) ==
  LET k == worker[w].key IN
  /\ phase = "slizen" /\ At(w, "call") /\ worker[w].read /\ daemon.copy[k] # Missing
  /\ daemon' = [daemon EXCEPT !.requests = @ + 1, !.hits = @ + 1]
  /\ truth' = [truth EXCEPT !.hits = @ + 1, !.stale = @ \/ daemon.copy[k] # origin.value[k]]
  /\ Replied(w, daemon.copy[k])
  /\ UNCHANGED origin /\ CallFrame

\* A miss, perhaps because the copy expired, leads a flight or joins the one of
\* another worker.
CallMiss(w) ==
  LET k == worker[w].key
      leaders == {v \in Workers : At(v, "flight") /\ worker[v].key = k}
  IN
  /\ phase = "slizen" /\ At(w, "call") /\ worker[w].read
  /\ daemon' = [daemon EXCEPT !.misses = @ + 1]
  /\ worker' = [worker EXCEPT ![w].pc = IF leaders = {} THEN "flight" ELSE "joined"]
  /\ UNCHANGED <<origin, truth>> /\ CallFrame

\* One origin GET answers the flight and those that joined it.
Land(w) ==
  LET k == worker[w].key
      riders == {v \in Workers : v = w \/ (At(v, "joined") /\ worker[v].key = k)}
      value == origin.value[k]
  IN
  /\ At(w, "flight")
  /\ origin' = [origin EXCEPT !.calls = @ + 1]
  /\ truth' = [truth EXCEPT !.slizen = @ + 1]
  /\ \E copy \in {Missing, value} :
       daemon' = [daemon EXCEPT !.requests = @ + Cardinality(riders), !.upstream = @ + 1,
                                !.copy[k] = copy]
  /\ worker' = [v \in Workers |->
                  IF v \in riders
                  THEN [worker[v] EXCEPT !.pc = "reply",
                                         !.got = IF value = Missing THEN Failed ELSE value]
                  ELSE worker[v]]
  /\ CallFrame

\* A command fails, executed or not.
CallFails(w) ==
  /\ worker[w].pc \in {"call", "reply"} /\ Trouble("error")
  /\ worker' = [worker EXCEPT ![w].pc = "reply", ![w].got = Failed]
  /\ UNCHANGED <<harness, outside, issued, expired, version, changed, tally>>

\* The client library sends a command again whose reply it did not get.
Resend(w) ==
  /\ At(w, "reply") /\ Trouble("retry")
  /\ worker' = [worker EXCEPT ![w].pc = "call", ![w].got = Missing]
  /\ UNCHANGED <<harness, outside, issued, expired, version, changed, tally>>

\* values.Matches against the version of the last acknowledged write.
Matches(w) == worker[w].read => worker[w].got = version[worker[w].key]

\* Count the reply and release the key.
Reply(w) ==
  LET k == worker[w].key
      failed == worker[w].got = Failed
      mismatch == ~failed /\ ~Matches(w)
  IN
  /\ At(w, "reply")
  /\ worker' = [worker EXCEPT ![w] = [Idle EXCEPT !.pc = "next"]]
  /\ version' = IF worker[w].read \/ failed THEN version ELSE [version EXCEPT ![k] = @ + 1]
  /\ tally' = CASE failed \/ mismatch ->
                     [tally EXCEPT !.failures = @ + 1,
                                   !.mismatches = IF mismatch THEN @ + 1 ELSE @]
                [] ~failed /\ ~mismatch /\ worker[w].read -> [tally EXCEPT !.reads = @ + 1]
                [] OTHER -> [tally EXCEPT !.writes = @ + 1]
  /\ UNCHANGED <<harness, outside, troubles, issued, expired, changed>>

\* validateWrittenWorkloadValues: a GET of every written key, without its lock.
IssueValidation(w) ==
  /\ pc = "validate" /\ At(w, "next")
  /\ \/ /\ changed = <<>>
        /\ worker' = [worker EXCEPT ![w] = Idle] /\ UNCHANGED <<changed, troubles>>
     \/ /\ changed # <<>> /\ "deadline" \notin troubles
        /\ worker' = [worker EXCEPT ![w] = [pc |-> "call", key |-> Head(changed), read |-> TRUE,
                                            got |-> Missing]]
        /\ changed' = Tail(changed) /\ UNCHANGED troubles
     \/ /\ changed # <<>>
        /\ Trouble("deadline") \/ ("deadline" \in troubles /\ UNCHANGED troubles)
        /\ worker' = [worker EXCEPT ![w] = Idle] /\ UNCHANGED changed
  /\ UNCHANGED <<harness, outside, issued, expired, version, tally>>

-----------------------------------------------------------------------------
(* The counters as evidence.                                               *)

\* The counters of a status answer, and the start that its uptime tells.
Counters == [start |-> daemon.start, requests |-> daemon.requests, hits |-> daemon.hits,
             misses |-> daemon.misses, upstream |-> daemon.upstream]

\* applyOriginGETCounterDelta succeeds.
Continuous(before, after) ==
  before # Failed /\ after # Failed /\ after.run = before.run /\ after.calls >= before.calls

\* The phase with the delta of its two snapshots, and whether its GETs are those
\* that were expected: validatePhysicalOriginGETIsolation.
Physical(ph, before, after, expected) ==
  IF Continuous(before, after)
  THEN ph @@ [gets |-> after.calls - before.calls, run |-> before.run,
              isolated |-> after.calls - before.calls = expected]
  ELSE ph @@ [gets |-> 0, run |-> Missing, isolated |-> FALSE]

\* invalidStatusDeltaReason finds nothing.  After a restart the uptime may be
\* shorter than before or not.
Monotonic(before, after, uptimeFell) ==
  /\ ~uptimeFell
  /\ \A c \in {"requests", "hits", "misses", "upstream"} : after[c] >= before[c]

\* applyWorkloadStatusDelta.
RequestsMatch(before, after, ph) ==
  after.requests - before.requests = ph.reads + ph.writes + ph.failures

Isolated(before, after, ph) ==
  /\ RequestsMatch(before, after, ph)
  /\ ph.failures = 0 => /\ after.hits - before.hits + after.misses - before.misses = ph.reads
                        /\ after.upstream - before.upstream <= ph.reads

\* validateSameOriginRunID.
SameOrigin(direct, slizen) == direct.run # Missing /\ slizen.run = direct.run

Clean(ph) == ph.failures = 0 /\ ph.mismatches = 0

-----------------------------------------------------------------------------
(* runWorkloadBenchmark, one scenario.                                     *)

Goto(label) == pc' = label
MainFrame == UNCHANGED <<plan, issued, expired, tally, changed, worker>>

\* seedWorkloadKeys: version 0 of every key, directly at the origin.
Seed ==
  /\ pc = "seed"
  /\ origin' = [origin EXCEPT !.value = [k \in Keys |-> 0]]
  /\ version' = [k \in Keys |-> 0]
  /\ Goto(IF phase = "direct" THEN "runId" ELSE "clients")
  /\ MainFrame
  /\ UNCHANGED <<phase, bracket, info, status, report, valid, daemon, truth, troubles>>

\* newWorkloadClients: a PING on every connection, before the status snapshot.
Connect ==
  /\ pc = "clients"
  /\ daemon' = [daemon EXCEPT !.requests = @ + Cardinality(Workers)]
  /\ Goto("purge")
  /\ MainFrame
  /\ UNCHANGED <<phase, bracket, info, status, report, valid, origin, truth, version, troubles>>

PurgeAll ==
  /\ pc = "purge"
  /\ daemon' = [daemon EXCEPT !.copy = [k \in Keys |-> Missing]]
  /\ Goto("status")
  /\ MainFrame
  /\ UNCHANGED <<phase, bracket, info, status, report, valid, origin, truth, version, troubles>>

StatusBefore ==
  /\ pc = "status"
  /\ status' = Counters
  /\ Goto("runId")
  /\ MainFrame
  /\ UNCHANGED <<phase, bracket, info, report, valid, outside, version, troubles>>

\* readOriginGETCounter: run_id, commandstats, run_id again.
ReadRunId ==
  /\ pc = "runId"
  /\ info' = [info EXCEPT !.run = origin.run]
  /\ Goto("calls")
  /\ MainFrame
  /\ UNCHANGED <<phase, bracket, status, report, valid, outside, version, troubles>>

ReadCalls ==
  /\ pc = "calls"
  /\ info' = [info EXCEPT !.calls = origin.calls]
  /\ Goto("confirm")
  /\ MainFrame
  /\ UNCHANGED <<phase, bracket, status, report, valid, outside, version, troubles>>

ConfirmedAlways == TRUE
Confirmed == origin.run = info.run

\* After the snapshot the phase runs, or it is over: the direct one is followed
\* by the Slizen phase, the Slizen one by the second status snapshot.
Snapshot(result) ==
  IF bracket = "before"
  THEN /\ info' = [NoInfo EXCEPT !.before = result]
       /\ Goto("run") /\ bracket' = "after"
       /\ worker' = Ready
       /\ UNCHANGED <<phase, report, tally>>
  ELSE /\ bracket' = "before" /\ phase' = "slizen"
       /\ UNCHANGED worker
       /\ IF phase = "direct"
          THEN /\ Goto("seed")
               /\ report' = [report EXCEPT !.direct =
                               Physical(tally, info.before, result, tally.reads)]
               /\ info' = NoInfo /\ tally' = NoTally
          ELSE /\ Goto("verdict")
               /\ info' = [NoInfo EXCEPT !.before = info.before, !.after = result]
               /\ UNCHANGED <<report, tally>>

ConfirmRunId ==
  /\ pc = "confirm"
  /\ Snapshot(IF Confirmed THEN [run |-> info.run, calls |-> info.calls] ELSE Failed)
  /\ UNCHANGED <<plan, status, valid, outside, issued, expired, version, changed, troubles>>

InfoFails ==
  /\ pc \in {"runId", "calls", "confirm"} /\ Trouble("unreachable")
  /\ Snapshot(Failed)
  /\ UNCHANGED <<plan, status, valid, outside, issued, expired, version, changed>>

\* All workers are done: the written keys are validated.
RunOver ==
  /\ pc = "run" /\ \A w \in Workers : At(w, "exit")
  /\ changed' = SetToSeq({k \in Keys : version[k] > 0})
  /\ Goto("validate")
  /\ worker' = Ready
  /\ issued' = 0 /\ expired' = FALSE
  /\ UNCHANGED <<plan, phase, bracket, info, status, report, valid, outside, version, tally,
                 troubles>>

\* A validation that did not reach every key, or a phase without a successful
\* operation, is an error of the whole run.
ValidationOver ==
  /\ pc = "validate" /\ \A w \in Workers : At(w, "exit")
  /\ Goto(IF changed # <<>> \/ tally.reads + tally.writes = 0 THEN "failed" ELSE "runId")
  /\ MainFrame
  /\ UNCHANGED <<phase, bracket, info, status, report, valid, outside, version, troubles>>

\* A failed step ends the run; the direct phase connects after its first snapshot.
StepFails ==
  /\ \/ pc \in {"seed", "clients", "purge", "status", "verdict"}
     \/ pc = "run" /\ phase = "direct" /\ worker = Ready /\ issued = 0
  /\ Trouble("unreachable")
  /\ Goto("failed")
  /\ MainFrame
  /\ UNCHANGED <<phase, bracket, info, status, report, valid, outside, version>>

\* The second status snapshot and summarizeWorkloadScenario.
Verdict ==
  /\ pc = "verdict"
  /\ \E uptimeFell \in {FALSE, Counters.start # status.start} :
       LET monotonic == Monotonic(status, Counters, uptimeFell)
           upstream == IF monotonic THEN Counters.upstream - status.upstream ELSE 0
           hits     == IF monotonic THEN Counters.hits - status.hits ELSE 0
           slizen   == Physical(tally @@ [hits |-> hits], info.before, info.after, upstream)
       IN  /\ report' = [report EXCEPT !.slizen = slizen]
           /\ valid' = /\ Clean(report.direct) /\ Clean(slizen)
                       /\ monotonic /\ Isolated(status, Counters, tally)
                       /\ report.direct.isolated /\ slizen.isolated
                       /\ SameOrigin(report.direct, slizen)
  /\ Goto("done")
  /\ MainFrame
  /\ UNCHANGED <<phase, bracket, info, status, outside, version, troubles>>

-----------------------------------------------------------------------------
(* Other clients and restarts.                                             *)

OutsideFrame == UNCHANGED <<harness, load>>
Running == pc \notin {"done", "failed"}

DirectGet ==
  /\ Running /\ Trouble("directGet")
  /\ origin' = [origin EXCEPT !.calls = @ + 1]
  /\ OutsideFrame /\ UNCHANGED <<daemon, truth>>

\* A GET of another key through Slizen, served locally or not.
ProxiedGet ==
  /\ Running /\ Trouble("proxiedGet")
  /\ \/ daemon' = [daemon EXCEPT !.requests = @ + 1, !.hits = @ + 1] /\ UNCHANGED origin
     \/ /\ daemon' = [daemon EXCEPT !.requests = @ + 1, !.misses = @ + 1, !.upstream = @ + 1]
        /\ origin' = [origin EXCEPT !.calls = @ + 1]
  /\ OutsideFrame /\ UNCHANGED truth

\* Between the first and the last reading of run_id.
Compared == ~(\/ phase = "direct" /\ bracket = "before" /\ pc \in {"seed", "runId"}
              \/ pc = "verdict")

\* A restarted origin may have kept its values or not.
OriginRestart ==
  /\ Running /\ Trouble("originRestart")
  /\ \E value \in {origin.value, [k \in Keys |-> Missing]} :
       origin' = [run |-> origin.run + 1, calls |-> 0, value |-> value]
  /\ truth' = [truth EXCEPT !.restarted = @ \/ Compared]
  /\ OutsideFrame /\ UNCHANGED daemon

OriginReset ==
  /\ Running /\ Trouble("originReset")
  /\ origin' = [origin EXCEPT !.calls = 0]
  /\ OutsideFrame /\ UNCHANGED <<daemon, truth>>

\* A restart of the daemon loses its flights: the client library sends those
\* commands again.
DaemonRestart ==
  /\ Running /\ Trouble("daemonRestart")
  /\ daemon' = [start |-> daemon.start + 1, requests |-> 0, hits |-> 0, misses |-> 0,
                upstream |-> 0, copy |-> [k \in Keys |-> Missing]]
  /\ worker' = [w \in Workers |->
                  IF At(w, "flight") \/ At(w, "joined") THEN [worker[w] EXCEPT !.pc = "call"]
                  ELSE worker[w]]
  /\ UNCHANGED <<harness, issued, expired, version, changed, tally, origin, truth>>

Finished == ~Running /\ UNCHANGED vars

Next ==
  \/ Seed \/ Connect \/ PurgeAll \/ StatusBefore \/ ReadRunId \/ ReadCalls \/ ConfirmRunId
  \/ InfoFails \/ RunOver \/ ValidationOver \/ StepFails \/ Verdict \/ Expire
  \/ \E w \in Workers :
       \/ Issue(w) \/ Acquire(w) \/ CallDirect(w) \/ CallSet(w) \/ CallSetKeepsCopy(w)
       \/ CallHit(w) \/ CallMiss(w) \/ Land(w) \/ CallFails(w) \/ Resend(w) \/ Reply(w) \/ IssueValidation(w)
  \/ DirectGet \/ ProxiedGet \/ OriginRestart \/ OriginReset \/ DaemonRestart
  \/ Finished

Spec == Init /\ [][Next]_vars

-----------------------------------------------------------------------------

\* Valid evidence is sound: every upstream GET it reports is one the origin
\* executed for the operations of the phase and none is missing, the hits are the
\* phase's own, no read was answered with a superseded value ("stale-after-write
\* responses invalidate the evidence", the notes of runWorkloadBenchmark) and the
\* compared phases met one origin process.
EvidenceSound ==
  pc = "done" /\ valid =>
    /\ report.direct.gets = truth.direct /\ report.slizen.gets = truth.slizen
    /\ report.slizen.hits = truth.hits
    /\ ~truth.stale /\ ~truth.restarted

\* A run that nothing disturbs is evidence, whatever the interleaving of its
\* workers: no read is taken for stale because of a write under way, and no
\* request is missing from a snapshot.  Only a phase whose time ended before its
\* first operation fails.
QuietRunAccepted ==
  troubles = {} => (pc = "done" => valid) /\ (pc = "failed" => tally.reads + tally.writes = 0)
=============================================================================
