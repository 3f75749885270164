---------------------------- MODULE ProcessProofs ----------------------------
(***************************************************************************)
(* Proofs about the process around the service.  First run of cmd/slizend: *)
(* what svc.Close finds, and what the process reports of a failed          *)
(* listener, in every interleaving of run and its servers.  Then the       *)
(* client of the origin: what the methods of internal/upstream/redis.go    *)
(* may answer, for every set of keys, batch, lifetime and number of        *)
(* retries.  The inductive invariant there relates every reply read so far *)
(* to what the origin has held for the key of its command since the call   *)
(* began, and orders the version read by GET or MGET before the one whose  *)
(* lifetime PTTL reported.                                                 *)
(***************************************************************************)
EXTENDS Daemon, Upstream, WellFoundedInduction, TLAPS

Start == {"starting", "serving", "stopping", "failing", "returnNil", "returnErr",
          "sent", "done"}

DaemonTypeOK ==
  /\ main \in {"select", "wait", "waitError", "return", "exited"}
  /\ signalled \in BOOLEAN /\ cancelled \in BOOLEAN /\ timedOut \in BOOLEAN
  /\ failed \in BOOLEAN
  /\ srv \in [Servers -> Start]
  /\ handlers \subseteq Servers /\ abandoned \subseteq Servers
  /\ errCh \in Seq({"nil", "error"})
  /\ runResult \in {"none", "nil", "error"}
  /\ service \in {"open", "closed"}

\* A server has no handler before it serves, and leaves none behind that it does
\* not know of.
ServerInv(s) ==
  /\ srv[s] = "starting" => s \notin handlers \cup abandoned
  /\ srv[s] \in {"returnNil", "returnErr", "sent", "done"} /\ s \in handlers =>
       s \in abandoned

\* run gets past its wait only with both servers done, or at its deadline.
WaitInv ==
  /\ main \in {"return", "exited"} => timedOut \/ BothDone
  /\ service = "closed" => main = "exited"

\* Until a signal comes the context is live as long as run selects, so that a
\* server stops only by failing and run can receive nothing but an error.
QuietInv ==
  ~signalled =>
    /\ main = "select" => /\ ~cancelled /\ errCh \in Seq({"error"})
                          /\ \A s \in Servers : srv[s] \notin {"stopping", "returnNil"}
    /\ main # "wait"
    /\ main \in {"return", "exited"} => runResult = "error"

DaemonInv == DaemonTypeOK /\ (\A s \in Servers : ServerInv(s)) /\ WaitInv /\ QuietInv

LEMMA InitHolds == DaemonInit => DaemonInv
<1> SUFFICES ASSUME DaemonInit
             PROVE  DaemonInv
  OBVIOUS
<1>1. DaemonTypeOK
  <2>1. errCh \in Seq({"nil", "error"}) /\ srv \in [Servers -> Start]
    BY DEF DaemonInit, Start
  <2> QED
    BY <2>1, Zenon DEF DaemonInit, DaemonTypeOK
<1>2. \A s \in Servers : ServerInv(s)
  BY Zenon DEF DaemonInit, ServerInv
<1>3. WaitInv /\ QuietInv
  BY DEF DaemonInit, WaitInv, QuietInv
<1> QED
  BY <1>1, <1>2, <1>3 DEF DaemonInv

-----------------------------------------------------------------------------
(* Each step keeps the types.                                              *)

LEMMA MoveType ==
  ASSUME srv \in [Servers -> Start], NEW s \in Servers, NEW from, NEW to \in Start,
         Move(s, from, to)
  PROVE  /\ srv[s] = from /\ srv' \in [Servers -> Start] /\ srv'[s] = to
         /\ \A t \in Servers \ {s} : srv'[t] = srv[t]
BY DEF Move

LEMMA ServerType ==
  ASSUME DaemonTypeOK, NEW s \in Servers,
         HandlerBegins(s) \/ HandlerEnds(s) \/ Fail(s) \/ Progress(s)
  PROVE  DaemonTypeOK'
<1> USE MoveType DEF DaemonTypeOK, Start, runVars
<1>1. CASE HandlerBegins(s)
  BY <1>1 DEF HandlerBegins
<1>2. CASE HandlerEnds(s)
  BY <1>2 DEF HandlerEnds
<1>3. CASE Fail(s)
  BY <1>3 DEF Fail
<1>4. CASE Listen(s)
  BY <1>4, Zenon DEF Listen
<1>5. CASE Stop(s)
  BY <1>5 DEF Stop
<1>6. CASE Stopped(s)
  BY <1>6 DEF Stopped
<1>7. CASE Send(s)
  BY <1>7 DEF Send
<1>8. CASE Done(s)
  BY <1>8 DEF Done
<1> QED
  BY <1>1, <1>2, <1>3, <1>4, <1>5, <1>6, <1>7, <1>8 DEF Progress

LEMMA RunType ==
  ASSUME DaemonTypeOK, Signal \/ Run
  PROVE  DaemonTypeOK'
<1> USE DEF DaemonTypeOK, serverVars
<1>1. CASE Signal
  BY <1>1 DEF Signal, runVars
<1>2. CASE SelectSignal
  BY <1>2 DEF SelectSignal, Cancels
<1>3. CASE SelectResult
  BY <1>3 DEF SelectResult, AfterResult, Cancels
<1>4. CASE WaitError
  BY <1>4 DEF WaitError
<1>5. CASE Wait
  BY <1>5 DEF Wait
<1>6. CASE GiveUp
  BY <1>6 DEF GiveUp
<1>7. CASE RunReturns
  BY <1>7 DEF RunReturns
<1> QED
  BY <1>1, <1>2, <1>3, <1>4, <1>5, <1>6, <1>7 DEF Run

-----------------------------------------------------------------------------
(* Each step keeps the rest of the invariant.                              *)

LEMMA ServerKeeps ==
  ASSUME DaemonInv, NEW s \in Servers, main # "exited",
         HandlerBegins(s) \/ HandlerEnds(s) \/ Fail(s) \/ Progress(s)
  PROVE  (\A t \in Servers : ServerInv(t)') /\ WaitInv'
<1> USE MoveType DEF DaemonInv, DaemonTypeOK, Start, ServerInv, WaitInv, BothDone, runVars
<1>1. CASE HandlerBegins(s)
  BY <1>1 DEF HandlerBegins
<1>2. CASE HandlerEnds(s)
  BY <1>2 DEF HandlerEnds
<1>3. CASE Fail(s)
  BY <1>3 DEF Fail
<1>4. CASE Listen(s)
  BY <1>4 DEF Listen
<1>5. CASE Stop(s)
  BY <1>5 DEF Stop
<1>6. CASE Stopped(s)
  BY <1>6 DEF Stopped
<1>7. CASE Send(s)
  BY <1>7 DEF Send
<1>8. CASE Done(s)
  BY <1>8 DEF Done
<1> QED
  BY <1>1, <1>2, <1>3, <1>4, <1>5, <1>6, <1>7, <1>8 DEF Progress

\* Without a signal only a failure changes what run will receive.
LEMMA ServerStaysQuiet ==
  ASSUME DaemonInv, NEW s \in Servers,
         HandlerBegins(s) \/ HandlerEnds(s) \/ Fail(s) \/ Progress(s)
  PROVE  QuietInv'
<1> SUFFICES ASSUME ~signalled'
             PROVE  /\ UNCHANGED <<main, cancelled, runResult, signalled>>
                    /\ main = "select" =>
                         /\ errCh' \in Seq({"error"})
                         /\ \A t \in Servers : srv'[t] \notin {"stopping", "returnNil"}
  BY DEF DaemonInv, QuietInv
<1> USE MoveType DEF DaemonInv, DaemonTypeOK, Start, QuietInv, runVars
<1>1. CASE HandlerBegins(s)
  BY <1>1 DEF HandlerBegins
<1>2. CASE HandlerEnds(s)
  BY <1>2 DEF HandlerEnds
<1>3. CASE Fail(s)
  BY <1>3 DEF Fail
<1>4. CASE Listen(s)
  BY <1>4 DEF Listen
<1>5. CASE Stop(s)
  BY <1>5 DEF Stop
<1>6. CASE Stopped(s)
  BY <1>6 DEF Stopped
<1>7. CASE Send(s)
  BY <1>7 DEF Send
<1>8. CASE Done(s)
  BY <1>8 DEF Done
<1> QED
  BY <1>1, <1>2, <1>3, <1>4, <1>5, <1>6, <1>7, <1>8 DEF Progress

LEMMA RunKeeps ==
  ASSUME DaemonInv, Signal \/ Run
  PROVE  (\A t \in Servers : ServerInv(t)') /\ WaitInv' /\ QuietInv'
<1>1. UNCHANGED serverVars
  BY DEF Signal, Run, SelectSignal, SelectResult, WaitError, Wait, GiveUp, RunReturns
<1>2. \A t \in Servers : ServerInv(t)'
  BY <1>1 DEF DaemonInv, ServerInv, serverVars
<1> USE <1>1 DEF DaemonInv, DaemonTypeOK, WaitInv, QuietInv, BothDone, serverVars
<1>3. CASE Signal
  BY <1>2, <1>3 DEF Signal, runVars
<1>4. CASE SelectSignal
  BY <1>2, <1>4 DEF SelectSignal
<1>5. CASE SelectResult
  <2>1. ~signalled => Head(errCh) = "error"
    BY <1>5 DEF SelectResult
  <2> QED
    BY <1>2, <1>5, <2>1 DEF SelectResult, AfterResult, Cancels
<1>6. CASE WaitError
  BY <1>2, <1>6 DEF WaitError, ErrorWaitOver
<1>7. CASE Wait
  BY <1>2, <1>7 DEF Wait
<1>8. CASE GiveUp
  BY <1>2, <1>8 DEF GiveUp
<1>9. CASE RunReturns
  BY <1>2, <1>9 DEF RunReturns
<1> QED
  BY <1>3, <1>4, <1>5, <1>6, <1>7, <1>8, <1>9 DEF Run

LEMMA NextKeeps == DaemonInv /\ [DaemonNext]_daemonVars => DaemonInv'
<1> SUFFICES ASSUME DaemonInv, [DaemonNext]_daemonVars
             PROVE  DaemonInv'
  OBVIOUS
<1>1. CASE UNCHANGED daemonVars
  BY <1>1 DEF daemonVars, serverVars, runVars, DaemonInv, DaemonTypeOK, ServerInv, WaitInv, QuietInv, BothDone
<1>2. CASE main # "exited" /\ (Signal \/ Run)
  BY <1>2, RunType, RunKeeps DEF DaemonInv
<1>3. CASE main # "exited" /\ \E s \in Servers : HandlerBegins(s) \/ HandlerEnds(s)
                                                 \/ Fail(s) \/ Progress(s)
  BY <1>3, ServerType, ServerKeeps, ServerStaysQuiet DEF DaemonInv
<1> QED
  BY <1>1, <1>2, <1>3 DEF DaemonNext

-----------------------------------------------------------------------------

LEMMA InvariantHolds == DaemonSpec => []DaemonInv
<1> QED
  BY InitHolds, NextKeeps, PTL DEF DaemonSpec

\* svc.Close, the last of run's deferred calls, finds no handler of either server
\* running, unless a deadline passed or a server was left with handlers that it had
\* given up: the error path and the signal's both wait for the two servers.
THEOREM CloseFindsNoHandler == DaemonSpec => []NoHandlerAtClose
<1>1. DaemonInv => NoHandlerAtClose
  BY DEF DaemonInv, DaemonTypeOK, ServerInv, WaitInv, BothDone, NoHandlerAtClose
<1> QED
  BY <1>1, InvariantHolds, PTL

\* A listener that fails while no shutdown is under way makes run return the error:
\* until a signal comes nothing but an error can be received from errCh.
THEOREM FailureIsReported == DaemonSpec => []FailureReported
<1>1. DaemonInv => FailureReported
  BY DEF DaemonInv, QuietInv, FailureReported
<1> QED
  BY <1>1, InvariantHolds, PTL

-----------------------------------------------------------------------------
(* The client of the origin.                                               *)

ItemReply == [exists : BOOLEAN, ver : Nat]
AnyReply == [err : {"none", "Nil", "reply", "broken"}, data : Int \cup Seq(ItemReply)]

TypeOK ==
  /\ origin \in [Keys -> [ver : Nat, ttl : Int]]
  /\ call \in Requests
  /\ replies \in Seq(AnyReply) /\ Len(replies) <= Commands
  /\ lives \in [Keys -> SUBSET [ver : Nat, ttl : Int]]
  /\ \A k \in Keys : origin[k] \in lives[k]

Absent(k) == \E h \in lives[k] : h.ttl = redisPTTLMissing
Lived(k, ttl, ver) == \E h \in lives[k] : h.ttl = ttl /\ h.ver >= ver

\* GET read a version that the origin still holds or has replaced, or found
\* none; PTTL reported the lifetime of that version or of a later one.
GetInv ==
  /\ Len(replies) >= 1 =>
       /\ replies[1].err = "none" =>
            replies[1].data \in Nat /\ replies[1].data <= origin[call.keys[1]].ver
       /\ replies[1].err = "Nil" => Absent(call.keys[1])
  /\ Len(replies) >= 2 /\ replies[1].err = "none" /\ replies[2].err = "none" =>
       Lived(call.keys[1], replies[2].data, replies[1].data)

\* The same position by position for MGET, none of whose replies is null.
ItemInv(item, i) ==
  /\ item.ver \in Nat /\ item.ver <= origin[call.keys[i]].ver
  /\ ~item.exists => Absent(call.keys[i])
  /\ i + 1 <= Len(replies) /\ replies[i + 1].err = "none" =>
       Lived(call.keys[i], replies[i + 1].data, item.ver)

MGetInv ==
  /\ \A j \in 1 .. Len(replies) : replies[j].err # "Nil"
  /\ Len(replies) >= 1 /\ replies[1].err = "none" =>
       \A i \in DOMAIN call.keys : ItemInv(replies[1].data[i], i)

DoInv == Len(replies) >= 1 /\ DoSucceeded(replies[1]) => executed

RepliesInv ==
  /\ call.op = "GET" => GetInv
  /\ call.op = "MGET" => MGetInv
  /\ call.op = "DO" => DoInv

Promises == MissIsReal /\ OwnLifetime /\ AcknowledgedExecuted

IInv == TypeOK /\ RepliesInv /\ Promises
-----------------------------------------------------------------------------
(* The decoding of replies.                                                *)

\* A nonempty set of naturals has a least element.
LEMMA MinOfNaturals ==
  ASSUME NEW S, S \subseteq Nat, S # {}
  PROVE  Min(S) \in S
<1> DEFINE R == {p \in Nat \X Nat : p[1] < p[2]}
<1>1. IsWellFoundedOn(R, Nat)
  BY NatLessThanWellFounded, Zenon DEF OpToRel
<1>2. PICK x \in S : \A y \in S : <<y, x>> \notin R
  <2> HIDE DEF R
  <2> QED  BY <1>1, WFMin, Zenon
<1>3. ASSUME NEW y \in S  PROVE x <= y
  <2>1. x \in Nat /\ y \in Nat
    OBVIOUS
  <2>2. <<y, x>> \in Nat \X Nat /\ <<y, x>>[1] = y /\ <<y, x>>[2] = x
    BY <2>1
  <2>3. ~(y < x)
    BY <1>2, <2>2, Zenon
  <2> QED  BY <2>1, <2>3
<1> QED  BY <1>3, Zenon DEF Min

\* The pipeline has no error only if no reply has one, and a null reply is its
\* error only if some reply is null.
LEMMA ExecErrMeaning ==
  ASSUME replies \in Seq(AnyReply), ExecErr(replies) \in {"none", "Nil"},
         \A j \in 1 .. Len(replies) : replies[j].err # "Nil"
  PROVE  \A j \in 1 .. Len(replies) : replies[j].err = "none"
<1> DEFINE errors == {i \in DOMAIN replies : replies[i].err # "none"}
<1>1. DOMAIN replies = 1 .. Len(replies) /\ errors \subseteq Nat
  OBVIOUS
<1>2. CASE errors = {}
  BY <1>1, <1>2
<1>3. CASE errors # {}
  <2>1. Min(errors) \in errors
    BY <1>1, <1>3, MinOfNaturals, Zenon
  <2> HIDE DEF errors
  <2>2. ExecErr(replies) \in {"broken", replies[Min(errors)].err}
    BY <1>3 DEF ExecErr, errors
  <2>3. replies[Min(errors)].err \notin {"none", "Nil"}
    BY <2>1, <1>1 DEF errors
  <2> QED  BY <2>2, <2>3
<1> QED  BY <1>2, <1>3

LEMMA CallType ==
  ASSUME call \in Requests
  PROVE  /\ call.op \in {"GET", "MGET", "DO"}
         /\ call.keys \in Seq(Keys) /\ Len(call.keys) \in Nat /\ Len(call.keys) >= 1
         /\ DOMAIN call.keys = 1 .. Len(call.keys)
         /\ \A i \in DOMAIN call.keys : call.keys[i] \in Keys
         /\ call.keys[1] \in Keys
         /\ Commands \in Nat /\ Commands >= 1
         /\ call.op = "GET" => Commands = 2
         /\ call.op = "MGET" => Commands = 1 + Len(call.keys)
         /\ call.op = "DO" => Commands = 1
<1>1. /\ call.op \in {"GET", "MGET", "DO"}
      /\ call.keys \in Seq(Keys) /\ call.keys # <<>>
  BY RequestsAssumption
<1>2. /\ Len(call.keys) \in Nat /\ Len(call.keys) >= 1
      /\ DOMAIN call.keys = 1 .. Len(call.keys)
      /\ \A i \in DOMAIN call.keys : call.keys[i] \in Keys
      /\ call.keys[1] \in Keys
  BY <1>1
<1> QED  BY <1>1, <1>2 DEF Commands
-----------------------------------------------------------------------------
(* The steps.                                                              *)

LEMMA InitInv == Init => IInv
<1> SUFFICES ASSUME Init PROVE IInv  OBVIOUS
<1>1. TypeOK
  <2>1. origin \in [Keys -> [ver : Nat, ttl : Int]]
    BY DEF Init, redisPTTLMissing
  <2>2. replies = <<>> /\ replies \in Seq(AnyReply) /\ Len(replies) = 0
    BY DEF Init
  <2>3. lives \in [Keys -> SUBSET [ver : Nat, ttl : Int]] /\ \A k \in Keys : origin[k] \in lives[k]
    BY <2>1 DEF Init
  <2> QED  BY <2>1, <2>2, <2>3, CallType DEF TypeOK, Init
<1>2. RepliesInv
  BY DEF Init, RepliesInv, GetInv, MGetInv, DoInv
<1>3. Promises
  BY DEF Init, Pending, Promises, MissIsReal, OwnLifetime, AcknowledgedExecuted
<1> QED  BY <1>1, <1>2, <1>3 DEF IInv

\* Before the call returns nothing is promised yet.
LEMMA PendingPromises ==
  ASSUME result = Pending, UNCHANGED result
  PROVE  Promises'
BY DEF Pending, Promises, MissIsReal, OwnLifetime, AcknowledgedExecuted

\* What a reply showed the origin to have held stays in the history.
LEMMA HistoryKept ==
  ASSUME TypeOK, RepliesInv, UNCHANGED <<call, replies>>, executed => executed',
         origin' \in [Keys -> [ver : Nat, ttl : Int]],
         \A k \in Keys : origin'[k].ver >= origin[k].ver,
         Remember
  PROVE  TypeOK' /\ RepliesInv'
<1>1. /\ \A k \in Keys : lives[k] \subseteq lives'[k] /\ origin'[k] \in lives'[k]
      /\ lives' \in [Keys -> SUBSET [ver : Nat, ttl : Int]]
  BY DEF TypeOK, Remember
<1>2. TypeOK'
  BY <1>1, Zenon DEF TypeOK, Commands
<1>3. /\ \A k \in Keys : Absent(k) => Absent(k)'
      /\ \A k \in Keys : \A ttl, ver : Lived(k, ttl, ver) => Lived(k, ttl, ver)'
  BY <1>1 DEF Absent, Lived
<1>4. call.op = "GET" => GetInv'
  <2> SUFFICES ASSUME GetInv  PROVE GetInv'
    BY DEF RepliesInv
  <2>1. origin'[call.keys[1]].ver >= origin[call.keys[1]].ver /\ call.keys[1] \in Keys
        /\ origin[call.keys[1]].ver \in Nat /\ origin'[call.keys[1]].ver \in Nat
    BY CallType DEF TypeOK
  <2> QED  BY <1>3, <2>1 DEF GetInv
<1>5. call.op = "MGET" => MGetInv'
  <2> SUFFICES ASSUME MGetInv  PROVE MGetInv'
    BY DEF RepliesInv
  <2>1. ASSUME NEW i \in DOMAIN call.keys
        PROVE  /\ origin'[call.keys[i]].ver >= origin[call.keys[i]].ver /\ call.keys[i] \in Keys
               /\ origin[call.keys[i]].ver \in Nat /\ origin'[call.keys[i]].ver \in Nat
    BY CallType DEF TypeOK
  <2>2. ASSUME NEW i \in DOMAIN call.keys, NEW item, ItemInv(item, i)
        PROVE  ItemInv(item, i)'
    BY <1>3, <2>1, <2>2 DEF ItemInv
  <2> QED  BY <2>2, Zenon DEF MGetInv
<1>6. call.op = "DO" => DoInv'
  BY DEF RepliesInv, DoInv
<1> QED  BY <1>2, <1>4, <1>5, <1>6 DEF RepliesInv

LEMMA WriteInv == ASSUME IInv, NEW k \in Keys, Write(k)  PROVE IInv'
<1>1. /\ origin' \in [Keys -> [ver : Nat, ttl : Int]]
      /\ \A j \in Keys : origin'[j].ver >= origin[j].ver
  <2>1. PICK ttl \in {redisPTTLMissing, NoExpiry} \cup 1 .. MaxTTL :
          origin' = [origin EXCEPT ![k] = [ver |-> @.ver + 1, ttl |-> ttl]]
    BY Zenon DEF Write
  <2>2. ttl \in Int
    BY DEF redisPTTLMissing, NoExpiry
  <2> QED  BY <2>1, <2>2 DEF IInv, TypeOK
<1>2. TypeOK' /\ RepliesInv'
  BY <1>1, HistoryKept DEF IInv, Write
<1> QED  BY <1>2, PendingPromises DEF IInv, Write

LEMMA TickInv == ASSUME IInv, Tick  PROVE IInv'
<1>1. ASSUME NEW j \in Keys
      PROVE  origin'[j] \in [ver : Nat, ttl : Int] /\ origin'[j].ver = origin[j].ver
  <2>1. origin[j] \in [ver : Nat, ttl : Int]
    BY DEF IInv, TypeOK
  <2>2. CASE origin[j].ttl > 0
    BY <2>1, <2>2 DEF Tick
  <2>3. CASE origin[j].ttl = 0
    BY <2>1, <2>3 DEF Tick, redisPTTLMissing
  <2>4. CASE ~(origin[j].ttl > 0) /\ origin[j].ttl # 0
    BY <2>1, <2>4 DEF Tick
  <2> QED  BY <2>2, <2>3, <2>4
<1>2. /\ origin' \in [Keys -> [ver : Nat, ttl : Int]]
      /\ \A j \in Keys : origin'[j].ver >= origin[j].ver
  <2>1. origin' = [j \in Keys |-> origin'[j]]
    BY DEF Tick
  <2> QED  BY <1>1, <2>1
<1>3. TypeOK' /\ RepliesInv'
  BY <1>2, HistoryKept DEF IInv, Tick
<1> QED  BY <1>3, PendingPromises DEF IInv, Tick

LEMMA ExecuteDoInv == ASSUME IInv, ExecuteDo  PROVE IInv'
<1>1. call.op = "DO" /\ call.keys[1] \in Keys /\ Commands = 1
  BY CallType DEF IInv, TypeOK, ExecuteDo
<1>2. /\ origin' \in [Keys -> [ver : Nat, ttl : Int]]
      /\ replies' \in Seq(AnyReply) /\ Len(replies') = 1
      /\ DoSucceeded(replies'[1]) => executed'
  <2>1. \A err \in {"none", "Nil", "reply", "broken"} :
          /\ <<Reply(err, 0)>> \in Seq(AnyReply) /\ Len(<<Reply(err, 0)>>) = 1
          /\ <<Reply(err, 0)>>[1].err = err
    BY DEF Reply, AnyReply
  <2>2. CASE UNCHANGED origin
    BY <2>1, <2>2, Zenon DEF ExecuteDo, DoSucceeded, IInv, TypeOK
  <2>3. CASE /\ origin' = [origin EXCEPT ![call.keys[1]] = [ver |-> @.ver + 1, ttl |-> NoExpiry]]
             /\ executed' = TRUE
             /\ \E err \in {"none", "broken"} : replies' = <<Reply(err, 0)>>
    BY <1>1, <2>1, <2>3 DEF IInv, TypeOK, NoExpiry
  <2> QED  BY <2>2, <2>3, Zenon DEF ExecuteDo
<1>3. TypeOK'
  <2>1. Commands' = 1 /\ call' \in Requests
    BY <1>1 DEF IInv, TypeOK, ExecuteDo, Commands
  <2>2. /\ lives' \in [Keys -> SUBSET [ver : Nat, ttl : Int]]
        /\ \A k \in Keys : origin'[k] \in lives'[k]
    BY <1>2 DEF IInv, TypeOK, ExecuteDo, Remember
  <2> QED  BY <1>2, <2>1, <2>2 DEF TypeOK
<1>4. RepliesInv'
  BY <1>1, <1>2 DEF RepliesInv, DoInv, ExecuteDo
<1> QED  BY <1>3, <1>4, PendingPromises DEF IInv, ExecuteDo, InFlight

\* What the origin answers.
LEMMA GetAnswers ==
  ASSUME call.op = "GET"
  PROVE  /\ Answer(1) = IF Exists(call.keys[1]) THEN Reply("none", origin[call.keys[1]].ver)
                        ELSE Reply("Nil", 0)
         /\ Answer(2) = Reply("none", origin[call.keys[1]].ttl)
BY DEF Answer

LEMMA MGetAnswers ==
  ASSUME call.op = "MGET"
  PROVE  /\ Answer(1) = Reply("none", [i \in DOMAIN call.keys |->
                          [exists |-> Exists(call.keys[i]), ver |-> origin[call.keys[i]].ver]])
         /\ \A n \in Nat : n > 1 => Answer(n) = Reply("none", origin[call.keys[n - 1]].ttl)
BY DEF Answer

LEMMA MGetItem ==
  ASSUME call.op = "MGET", NEW i \in DOMAIN call.keys
  PROVE  /\ Answer(1).data[i].exists = Exists(call.keys[i])
         /\ Answer(1).data[i].ver = origin[call.keys[i]].ver
<1> DEFINE item(j) == [exists |-> Exists(call.keys[j]), ver |-> origin[call.keys[j]].ver]
<1>1. Answer(1) = Reply("none", [j \in DOMAIN call.keys |-> item(j)])
  BY MGetAnswers, Zenon
<1>2. item(i).exists = Exists(call.keys[i]) /\ item(i).ver = origin[call.keys[i]].ver
  OBVIOUS
<1> HIDE DEF item
<1>3. Answer(1).data = [j \in DOMAIN call.keys |-> item(j)]
  BY <1>1 DEF Reply
<1>4. Answer(1).data[i] = item(i)
  BY <1>3, Zenon
<1> QED  BY <1>2, <1>4, Zenon

\* An item is as good as before when its lifetime, if one is read now, is too.
LEMMA ItemKept ==
  ASSUME NEW i, NEW item, ItemInv(item, i), UNCHANGED <<origin, call, lives>>,
         i + 1 <= Len(replies') /\ replies'[i + 1].err = "none" =>
           Lived(call.keys[i], replies'[i + 1].data, item.ver)
  PROVE  ItemInv(item, i)'
<1>1. Absent(call.keys[i]) => Absent(call.keys[i])'
  BY Zenon DEF Absent
<1>2. \A ttl, ver : Lived(call.keys[i], ttl, ver) => Lived(call.keys[i], ttl, ver)'
  BY Zenon DEF Lived
<1> QED  BY <1>1, <1>2, Zenon DEF ItemInv

\* Replies read later say nothing of the replies read before them.
LEMMA ExecuteReadInv == ASSUME IInv, ExecuteRead  PROVE IInv'
<1> DEFINE n == Len(replies) + 1
<1>1. /\ n \in Nat /\ n >= 1 /\ n <= Commands
      /\ call.op \in {"GET", "MGET"}
      /\ replies \in Seq(AnyReply)
      /\ UNCHANGED <<origin, call, lives, executed, result>> /\ result = Pending
  BY CallType DEF IInv, TypeOK, ExecuteRead, InFlight
<1>2. PICK reply \in {Answer(n), Reply("reply", 0)} : replies' = Append(replies, reply)
  BY DEF ExecuteRead
<1>3. reply \in AnyReply
  <2>1. Reply("reply", 0) \in AnyReply
    BY DEF Reply, AnyReply
  <2>2. CASE call.op = "GET"
    <3>1. n = 1 \/ n = 2
      BY <1>1, <2>2, CallType DEF IInv, TypeOK
    <3>2. origin[call.keys[1]].ver \in Nat /\ origin[call.keys[1]].ttl \in Int
      BY CallType DEF IInv, TypeOK
    <3>3. Answer(1) \in AnyReply /\ Answer(2) \in AnyReply
      BY <2>2, <3>2, GetAnswers DEF Reply, AnyReply
    <3> QED  BY <1>2, <2>1, <3>1, <3>3
  <2>3. CASE call.op = "MGET" /\ n = 1
    <3>1. ASSUME NEW i \in DOMAIN call.keys
          PROVE  [exists |-> Exists(call.keys[i]), ver |-> origin[call.keys[i]].ver] \in ItemReply
      BY CallType DEF IInv, TypeOK, ItemReply, Exists
    <3>2. [i \in DOMAIN call.keys |->
             [exists |-> Exists(call.keys[i]), ver |-> origin[call.keys[i]].ver]] \in Seq(ItemReply)
      <4> DEFINE item(i) == [exists |-> Exists(call.keys[i]), ver |-> origin[call.keys[i]].ver]
      <4>1. DOMAIN call.keys = 1 .. Len(call.keys) /\ Len(call.keys) \in Nat
        BY CallType DEF IInv, TypeOK
      <4>2. \A i \in DOMAIN call.keys : item(i) \in ItemReply
        BY <3>1
      <4> HIDE DEF item
      <4>3. [i \in DOMAIN call.keys |-> item(i)] \in Seq(ItemReply)
        BY <4>1, <4>2
      <4> QED  BY <4>3 DEF item
    <3> QED  BY <1>2, <2>1, <2>3, <3>2, MGetAnswers DEF Reply, AnyReply
  <2>4. CASE call.op = "MGET" /\ n # 1
    <3>1. n - 1 \in DOMAIN call.keys /\ n > 1
      BY <1>1, <2>4, CallType DEF IInv, TypeOK
    <3>2. origin[call.keys[n - 1]].ttl \in Int
      BY <3>1, CallType DEF IInv, TypeOK
    <3> QED  BY <1>1, <1>2, <2>1, <2>4, <3>1, <3>2, MGetAnswers DEF Reply, AnyReply
  <2> QED  BY <1>1, <2>2, <2>3, <2>4
<1>4. /\ replies' \in Seq(AnyReply) /\ Len(replies') = n
      /\ replies'[n] = reply
      /\ \A j \in 1 .. Len(replies) : replies'[j] = replies[j]
  BY <1>1, <1>2, <1>3
<1>5. TypeOK'
  BY <1>1, <1>4 DEF IInv, TypeOK, Commands
<1>6. call.op = "GET" => GetInv'
  <2> SUFFICES ASSUME call.op = "GET", GetInv  PROVE GetInv'
    BY DEF IInv, RepliesInv
  <2>1. origin[call.keys[1]] \in lives[call.keys[1]] /\ origin[call.keys[1]].ver \in Nat
    BY CallType DEF IInv, TypeOK
  <2>2. n = 1 \/ n = 2
    BY <1>1, CallType DEF IInv, TypeOK
  <2>3. CASE n = 1
    <3>1. replies'[1] \in {Answer(1), Reply("reply", 0)} /\ Len(replies') = 1
      BY <1>2, <1>4, <2>3
    <3>2. replies'[1].err = "none" => replies'[1].data = origin[call.keys[1]].ver
      BY <3>1, GetAnswers DEF Reply
    <3>3. replies'[1].err = "Nil" => origin[call.keys[1]].ttl = redisPTTLMissing
      BY <3>1, GetAnswers DEF Reply, Exists
    <3> QED  BY <1>1, <2>1, <3>1, <3>2, <3>3 DEF GetInv, Absent
  <2>4. CASE n = 2
    <3>1. /\ replies'[2] \in {Answer(2), Reply("reply", 0)} /\ Len(replies') = 2
          /\ replies'[1] = replies[1] /\ Len(replies) = 1
      <4>1. Len(replies) = 1
        <5>1. Len(replies) \in Nat
          BY <1>1
        <5>2. \A m \in Nat : m + 1 = 2 => m = 1
          OBVIOUS
        <5> QED  BY <2>4, <5>1, <5>2, Zenon
      <4>2. reply \in {Answer(2), Reply("reply", 0)}
        BY <2>4, Zenon
      <4> QED  BY <1>4, <2>4, <4>1, <4>2
    <3>2. replies'[2].err = "none" => replies'[2].data = origin[call.keys[1]].ttl
      BY <3>1, GetAnswers DEF Reply
    <3> QED  BY <1>1, <2>1, <3>1, <3>2 DEF GetInv, Absent, Lived
  <2> QED  BY <2>2, <2>3, <2>4
<1>7. call.op = "MGET" => MGetInv'
  <2> SUFFICES ASSUME call.op = "MGET", MGetInv  PROVE MGetInv'
    BY DEF IInv, RepliesInv
  <2>1. ASSUME NEW i \in DOMAIN call.keys
        PROVE  /\ i \in Nat /\ i >= 1
               /\ origin[call.keys[i]] \in lives[call.keys[i]] /\ origin[call.keys[i]].ver \in Nat
    <3>1. call \in Requests
      BY Zenon DEF IInv, TypeOK
    <3>2. i \in 1 .. Len(call.keys) /\ Len(call.keys) \in Nat /\ call.keys[i] \in Keys
      BY <3>1, CallType, Zenon
    <3> QED  BY <3>2 DEF IInv, TypeOK
  <2>2. reply.err # "Nil"
    BY <1>1, <1>2, MGetAnswers DEF Reply
  <2>3. \A j \in 1 .. Len(replies') : replies'[j].err # "Nil"
    BY <1>1, <1>4, <2>2 DEF MGetInv
  <2>4. CASE n = 1
    <3>1. ASSUME NEW i \in DOMAIN call.keys, reply.err = "none"
          PROVE  ItemInv(reply.data[i], i)'
      <4>1. reply = Answer(1)
        <5>1. Reply("reply", 0).err = "reply"
          BY DEF Reply
        <5>2. reply # Reply("reply", 0)
          BY <3>1, <5>1
        <5> QED  BY <2>4, <5>2, Zenon
      <4>2. /\ reply.data[i].ver = origin[call.keys[i]].ver
            /\ reply.data[i].exists = Exists(call.keys[i])
        BY <4>1, MGetItem, Zenon
      <4>3. ~reply.data[i].exists => Absent(call.keys[i])
        BY <2>1, <4>2, Zenon DEF Exists, Absent
      <4>4. ~(i + 1 <= Len(replies'))
        <5>1. Len(replies') = 1 /\ i \in Nat /\ i >= 1
          BY <1>4, <2>1, <2>4, Zenon
        <5> QED  BY <5>1
      <4>5. reply.data[i].ver \in Nat /\ reply.data[i].ver <= origin[call.keys[i]].ver
        <5>1. origin[call.keys[i]].ver \in Nat
          BY <2>1, Zenon
        <5> QED  BY <4>2, <5>1
      <4>6. Absent(call.keys[i]) => Absent(call.keys[i])'
        BY <1>1, Zenon DEF Absent
      <4> QED  BY <1>1, <4>3, <4>4, <4>5, <4>6, Zenon DEF ItemInv
    <3>2. replies'[1] = reply
      BY <1>4, <2>4, Zenon
    <3> QED  BY <1>1, <2>3, <3>1, <3>2, Zenon DEF MGetInv
  <2>5. CASE n > 1
    <3>1. Len(replies) \in Nat /\ Len(replies) >= 1 /\ 1 \in 1 .. Len(replies)
      <4>1. Len(replies) \in Nat
        BY <1>1
      <4> QED  BY <2>5, <4>1
    <3>2. replies'[1] = replies[1]
      BY <1>4, <3>1, Zenon
    <3>3. ASSUME NEW i \in DOMAIN call.keys, NEW item, ItemInv(item, i)  PROVE ItemInv(item, i)'
      <4>1. ASSUME i + 1 <= Len(replies'), replies'[i + 1].err = "none"
            PROVE  Lived(call.keys[i], replies'[i + 1].data, item.ver)
        <5>1. i \in Nat /\ i >= 1 /\ Len(replies') = Len(replies) + 1
          BY <1>4, <2>1, Zenon
        <5>2. CASE i + 1 = n
          <6>1. replies'[i + 1].data = origin[call.keys[i]].ttl
            BY <1>1, <1>2, <1>4, <2>1, <2>5, <4>1, <5>2, MGetAnswers DEF Reply
          <6>2. origin[call.keys[i]].ver >= item.ver
            BY <2>1, <3>3, Zenon DEF ItemInv
          <6> QED  BY <2>1, <6>1, <6>2, Zenon DEF Lived
        <5>3. CASE i + 1 # n
          <6>1. i + 1 \in 1 .. Len(replies) /\ i + 1 <= Len(replies)
            BY <3>1, <4>1, <5>1, <5>3
          <6>2. replies'[i + 1] = replies[i + 1]
            BY <1>4, <6>1, Zenon
          <6> QED  BY <3>3, <4>1, <6>1, <6>2, Zenon DEF ItemInv
        <5> QED  BY <5>2, <5>3, Zenon
      <4> QED  BY <1>1, <3>3, <4>1, ItemKept, Zenon
    <3> QED  BY <1>1, <2>3, <3>1, <3>2, <3>3, Zenon DEF MGetInv
  <2> QED  BY <1>1, <2>4, <2>5
<1>8. RepliesInv'
  BY <1>1, <1>6, <1>7 DEF RepliesInv
<1> QED  BY <1>1, <1>5, <1>8, PendingPromises DEF IInv

LEMMA BreakInv == ASSUME IInv, Break  PROVE IInv'
<1> DEFINE n == Len(replies)
           lost == [i \in 1 .. Commands - Len(replies) |-> Reply("broken", 0)]
<1>1. /\ n \in Nat /\ n < Commands /\ Commands \in Nat
      /\ replies \in Seq(AnyReply)
      /\ UNCHANGED <<origin, call, lives, executed, result>> /\ result = Pending
  BY CallType DEF IInv, TypeOK, Break, InFlight
<1>2. lost \in Seq(AnyReply) /\ Len(lost) = Commands - n
  BY <1>1 DEF Reply, AnyReply
<1>3. /\ replies' \in Seq(AnyReply) /\ Len(replies') = Commands
      /\ \A j \in 1 .. n : replies'[j] = replies[j]
      /\ \A j \in n + 1 .. Commands : replies'[j].err = "broken"
  <2>1. replies' = replies \o lost
    BY DEF Break
  <2>2. \A j \in 1 .. Commands - n : lost[j].err = "broken"
    BY DEF Reply
  <2> HIDE DEF lost
  <2> QED  BY <1>1, <1>2, <2>1, <2>2
<1>4. TypeOK'
  <2>1. Commands' = Commands
    BY <1>1 DEF Commands
  <2> HIDE DEF lost
  <2> QED  BY <1>1, <1>3, <2>1 DEF IInv, TypeOK
<1>5. call.op = "GET" => GetInv'
  BY <1>1, <1>3 DEF IInv, RepliesInv, GetInv, Absent, Lived
<1>6. call.op = "MGET" => MGetInv'
  <2> SUFFICES ASSUME MGetInv  PROVE MGetInv'
    BY DEF IInv, RepliesInv
  <2>1. ASSUME NEW j \in 1 .. Len(replies')  PROVE replies'[j].err # "Nil"
    BY <1>1, <1>3 DEF MGetInv
  <2>2. CASE n = 0
    BY <1>1, <1>3, <2>1, <2>2 DEF MGetInv
  <2>3. CASE n # 0
    <3>1. replies'[1] = replies[1] /\ n >= 1
      BY <1>1, <1>3, <2>3
    <3>2. ASSUME NEW i \in DOMAIN call.keys, NEW item, ItemInv(item, i)  PROVE ItemInv(item, i)'
      <4> HIDE DEF lost
      <4>1. i \in Nat /\ i >= 1
        <5>1. call \in Requests
          BY Zenon DEF IInv, TypeOK
        <5>2. i \in 1 .. Len(call.keys) /\ Len(call.keys) \in Nat
          BY <5>1, CallType, Zenon
        <5> QED  BY <5>2
      <4>2. ASSUME i + 1 <= Len(replies'), replies'[i + 1].err = "none"
            PROVE  i + 1 <= n /\ replies'[i + 1] = replies[i + 1]
        <5>1. i + 1 \in 1 .. n \/ i + 1 \in n + 1 .. Commands
          <6>1. Len(replies') = Commands
            BY <1>3, Zenon
          <6> QED  BY <1>1, <4>1, <4>2, <6>1
        <5>2. i + 1 \in 1 .. n
          BY <1>3, <4>2, <5>1
        <5>3. i + 1 <= n
          BY <1>1, <5>2
        <5> QED  BY <1>3, <5>2, <5>3, Zenon
      <4>3. i + 1 <= Len(replies') /\ replies'[i + 1].err = "none" =>
              Lived(call.keys[i], replies'[i + 1].data, item.ver)
        BY <3>2, <4>2, Zenon DEF ItemInv
      <4> QED  BY <1>1, <3>2, <4>3, ItemKept, Zenon
    <3> QED  BY <1>1, <2>1, <3>1, <3>2, Zenon DEF MGetInv
  <2> QED  BY <2>2, <2>3
<1>7. call.op = "DO" => DoInv'
  BY <1>1, <1>3 DEF IInv, RepliesInv, DoInv, DoSucceeded
<1>8. RepliesInv'
  BY <1>1, <1>5, <1>6, <1>7 DEF RepliesInv
<1> QED  BY <1>1, <1>4, <1>8, PendingPromises DEF IInv

LEMMA RetryInv == ASSUME IInv, Retry  PROVE IInv'
<1>1. UNCHANGED <<origin, call, lives, result>> /\ result = Pending /\ replies' = <<>>
  BY DEF Retry
<1>2. TypeOK'
  BY <1>1, CallType DEF IInv, TypeOK, Commands
<1>3. RepliesInv'
  BY <1>1 DEF RepliesInv, GetInv, MGetInv, DoInv
<1> QED  BY <1>1, <1>2, <1>3, PendingPromises DEF IInv

\* What a call may answer at a position of a read.
Justified(i, v) ==
  /\ ~v.exists => Absent(call.keys[i])
  /\ v.exists => v.ttl # redisPTTLMissing /\ Lived(call.keys[i], v.ttl, v.ver)

LEMMA JustifiedPromises ==
  ASSUME NEW values, result' = Returned(values), UNCHANGED <<call, lives, executed>>,
         call.op # "DO", \A i \in DOMAIN values : Justified(i, values[i])
  PROVE  Promises'
<1>1. result'.values = values
  BY DEF Returned
<1>2. MissIsReal'
  BY <1>1, Zenon DEF MissIsReal, Justified, Absent
<1>3. OwnLifetime'
  BY <1>1, Zenon DEF OwnLifetime, Justified, Lived
<1>4. AcknowledgedExecuted'
  BY Zenon DEF AcknowledgedExecuted
<1> QED  BY <1>2, <1>3, <1>4, Zenon DEF Promises

LEMMA MissingJustified ==
  ASSUME NEW i, Absent(call.keys[i])
  PROVE  Justified(i, Missing)
<1>1. ~Missing.exists
  BY DEF Missing
<1> QED  BY <1>1, Zenon DEF Justified

LEMMA ValueJustified ==
  ASSUME NEW i, NEW ver, NEW ttl, ~Gone(ttl), Lived(call.keys[i], ttl, ver)
  PROVE  Justified(i, Value(ver, ttl))
<1>1. Value(ver, ttl).exists /\ Value(ver, ttl).ttl = ttl /\ Value(ver, ttl).ver = ver
  BY DEF Value
<1>2. ttl # redisPTTLMissing
  BY Zenon DEF Gone
<1> QED  BY <1>1, <1>2, Zenon DEF Justified

LEMMA ReturnInv == ASSUME IInv, Return  PROVE IInv'
<1>1. UNCHANGED <<origin, call, replies, lives, executed>> /\ Len(replies) = Commands
  BY DEF Return
<1>2. TypeOK' /\ RepliesInv'
  BY <1>1, Zenon DEF IInv, TypeOK, Commands, RepliesInv, GetInv, MGetInv, ItemInv, DoInv, Absent, Lived
<1>3. \A i \in DOMAIN call.keys : call.keys[i] \in Keys /\ 1 \in DOMAIN call.keys
  BY CallType DEF IInv, TypeOK
<1>4. ASSUME call.op = "GET"  PROVE Promises'
  <2>1. GetInv /\ Len(replies) = 2
    BY <1>1, <1>4, CallType DEF IInv, TypeOK, RepliesInv
  <2>2. result' = Get(replies)
    BY <1>4 DEF Return
  <2>3. CASE result' = Failed
    BY <2>3, <1>4, <1>1 DEF Failed, Promises, MissIsReal, OwnLifetime, AcknowledgedExecuted
  <2>4. ASSUME NEW v, result' = Returned(<<v>>), Justified(1, v)  PROVE Promises'
    <3>1. \A i \in DOMAIN <<v>> : i = 1 /\ <<v>>[i] = v
      OBVIOUS
    <3>2. \A i \in DOMAIN <<v>> : Justified(i, <<v>>[i])
      BY <2>4, <3>1, Zenon
    <3>3. call.op # "DO"
      BY <1>4
    <3> QED  BY <1>1, <2>4, <3>2, <3>3, JustifiedPromises, Zenon
  <2>5. CASE result' = Returned(<<Missing>>) /\ replies[1].err = "Nil"
    <3>1. Absent(call.keys[1])
      BY <2>1, <2>5 DEF GetInv
    <3> QED  BY <2>4, <2>5, <3>1, MissingJustified, Zenon
  <2>6. CASE /\ replies[1].err = "none" /\ replies[2].err = "none"
             /\ result' = Returned(<<IF Gone(replies[2].data) THEN Missing
                                     ELSE Value(replies[1].data, replies[2].data)>>)
    <3>1. Lived(call.keys[1], replies[2].data, replies[1].data)
      <4>1. Len(replies) >= 2
        BY <2>1
      <4> QED  BY <2>1, <2>6, <4>1, Zenon DEF GetInv
    <3>2. CASE Gone(replies[2].data)
      <4>1. Absent(call.keys[1])
        BY <3>1, <3>2, Zenon DEF Gone, Lived, Absent
      <4>2. result' = Returned(<<Missing>>)
        BY <2>6, <3>2, Zenon
      <4> QED  BY <2>4, <4>1, <4>2, MissingJustified, Zenon
    <3>3. CASE ~Gone(replies[2].data)
      <4>1. result' = Returned(<<Value(replies[1].data, replies[2].data)>>)
        BY <2>6, <3>3, Zenon
      <4> QED  BY <2>4, <3>1, <3>3, <4>1, ValueJustified, Zenon
    <3> QED  BY <3>2, <3>3, Zenon
  <2> QED  BY <2>2, <2>3, <2>5, <2>6 DEF Get, ConfirmedMiss
<1>5. ASSUME call.op = "MGET"  PROVE Promises'
  <2>1. MGetInv /\ Len(replies) = 1 + Len(call.keys) /\ replies \in Seq(AnyReply)
    BY <1>1, <1>5, CallType DEF IInv, TypeOK, RepliesInv
  <2>2. result' = MGet(replies)
    BY <1>5 DEF Return
  <2>3. CASE result' = Failed
    BY <1>5, <1>1, <2>3 DEF Failed, Promises, MissIsReal, OwnLifetime, AcknowledgedExecuted
  <2>4. CASE ExecErr(replies) \in {"none", "Nil"}
    <3> DEFINE raw == replies[1].data
               ttl(i) == replies[i + 1].data
               value(i) == IF ~raw[i].exists \/ Gone(ttl(i)) THEN Missing
                           ELSE Value(Item(raw, i), ttl(i))
    <3>1. \A j \in 1 .. Len(replies) : replies[j].err = "none"
      BY <2>1, <2>4, ExecErrMeaning DEF MGetInv
    <3>2. ASSUME NEW i \in DOMAIN call.keys
          PROVE  /\ Lived(call.keys[i], ttl(i), raw[i].ver)
                 /\ ~raw[i].exists => Absent(call.keys[i])
      <4>1. i \in 1 .. Len(call.keys) /\ Len(call.keys) \in Nat
        <5>1. call \in Requests
          BY Zenon DEF IInv, TypeOK
        <5> QED  BY <5>1, CallType, Zenon
      <4>2. /\ 1 \in 1 .. Len(replies) /\ i + 1 \in 1 .. Len(replies)
            /\ Len(replies) >= 1 /\ i + 1 <= Len(replies)
        BY <2>1, <4>1
      <4>3. ItemInv(raw[i], i)
        BY <2>1, <3>1, <4>2, ZenonT(60) DEF MGetInv
      <4> QED  BY <3>1, <4>2, <4>3, Zenon DEF ItemInv
    <3>3. ASSUME NEW i \in DOMAIN call.keys
          PROVE  Justified(i, value(i))
      <4>1. CASE ~raw[i].exists \/ Gone(ttl(i))
        <5>1. value(i) = Missing
          BY <4>1, Zenon
        <5>2. Absent(call.keys[i])
          BY <3>2, <4>1, Zenon DEF Gone, Lived, Absent
        <5> HIDE DEF value
        <5> QED  BY <5>1, <5>2, MissingJustified, Zenon
      <4>2. CASE ~(~raw[i].exists \/ Gone(ttl(i)))
        <5>1. value(i) = Value(raw[i].ver, ttl(i)) /\ ~Gone(ttl(i))
          BY <4>2, Zenon DEF Item
        <5> HIDE DEF value, ttl, raw
        <5> QED  BY <3>2, <5>1, ValueJustified, Zenon
      <4> QED  BY <4>1, <4>2, Zenon
    <3> DEFINE values == [i \in DOMAIN call.keys |-> value(i)]
    <3>4. result' = Returned(values)
      BY <2>2, <2>4 DEF MGet
    <3> HIDE DEF value
    <3>5. \A i \in DOMAIN values : Justified(i, values[i])
      BY <3>3, Zenon
    <3>6. call.op # "DO"
      BY <1>5
    <3> HIDE DEF values
    <3> QED  BY <1>1, <3>4, <3>5, <3>6, JustifiedPromises, Zenon
  <2> QED  BY <2>2, <2>3, <2>4 DEF MGet
<1>6. ASSUME call.op = "DO"  PROVE Promises'
  <2>1. result' = Do(replies) /\ DoInv /\ Len(replies) = 1
    BY <1>1, <1>6, CallType DEF IInv, TypeOK, Return, RepliesInv
  <2> QED  BY <1>1, <2>1 DEF Do, DoInv, Returned, Failed, Promises, MissIsReal, OwnLifetime,
                             AcknowledgedExecuted
<1> QED  BY <1>2, <1>4, <1>5, <1>6, CallType, Zenon DEF IInv, TypeOK

LEMMA NextInv == IInv /\ [Next]_vars => IInv'
<1> SUFFICES ASSUME IInv, [Next]_vars  PROVE IInv'
  OBVIOUS
<1>1. CASE UNCHANGED vars
  <2>1. TypeOK'
    BY <1>1, Zenon DEF IInv, TypeOK, Commands, vars
  <2>2. RepliesInv'
    BY <1>1, Zenon DEF IInv, RepliesInv, GetInv, MGetInv, ItemInv, DoInv, Absent, Lived, vars
  <2>3. Promises'
    BY <1>1 DEF IInv, Promises, MissIsReal, OwnLifetime, AcknowledgedExecuted, vars
  <2> QED  BY <2>1, <2>2, <2>3 DEF IInv
<1>2. CASE \E k \in Keys : Write(k)
  BY <1>2, WriteInv
<1> QED  BY <1>1, <1>2, ExecuteReadInv, ExecuteDoInv, BreakInv, RetryInv, ReturnInv, TickInv
         DEF Next, Over
-----------------------------------------------------------------------------
\* RedisClient.Get and MGet report a miss only for a key that the origin did
\* not hold at some instant of the call, however commands are refused,
\* connections break and go-redis sends the call again.
THEOREM MissesAreReal == Spec => []MissIsReal
<1>1. IInv => MissIsReal
  BY DEF IInv, Promises
<1> QED  BY <1>1, InitInv, NextInv, PTL DEF Spec

\* The value at a position of the answer carries the lifetime that PTTL reported
\* for the key of that position, and it is of the version read or of a later one.
THEOREM LifetimesAreTheKeysOwn == Spec => []OwnLifetime
<1>1. IInv => OwnLifetime
  BY DEF IInv, Promises
<1> QED  BY <1>1, InitInv, NextInv, PTL DEF Spec

\* RedisClient.Do reports success only for a command that the origin executed.
THEOREM AcknowledgementsAreReal == Spec => []AcknowledgedExecuted
<1>1. IInv => AcknowledgedExecuted
  BY DEF IInv, Promises
<1> QED  BY <1>1, InitInv, NextInv, PTL DEF Spec
=============================================================================
