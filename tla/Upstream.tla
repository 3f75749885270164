------------------------------ MODULE Upstream -------------------------------
(***************************************************************************)
(* One call of internal/upstream/redis.go.  A read is a pipeline: GET and  *)
(* PTTL, or MGET and one PTTL per key.  The origin executes its commands   *)
(* one by one, and keys expire and other clients write in between.  A      *)
(* command may be answered by an error, the connection may break at any    *)
(* reply, and go-redis (external) may then send the whole call again.      *)
(***************************************************************************)
EXTENDS Integers, Sequences, FiniteSetsExt

CONSTANTS
  Keys,
  Requests,   \* the calls considered: op is GET, MGET or DO, keys a sequence
  MaxTTL,     \* bound on lifetimes
  MaxWrites,  \* bound on the versions that other clients make of a key
  MaxTries    \* how often go-redis sends one call

ASSUME RequestsAssumption ==
  Requests \subseteq [op : {"GET", "MGET", "DO"}, keys : Seq(Keys) \ {<<>>}]

VARIABLES
  origin,     \* [Keys -> [ver, ttl]]: ttl as PTTL answers it
  call,       \* the request
  replies,    \* replies read in this attempt
  tries,      \* attempts made
  result,     \* what the method returns, Pending before
  lives,      \* history: what the origin held for each key during the call
  executed    \* history: the origin has executed the command of Do

vars == <<origin, call, replies, tries, result, lives, executed>>

redisPTTLMissing == -2
NoExpiry == -1

Held == [ver : 0 .. MaxWrites + MaxTries, ttl : redisPTTLMissing .. MaxTTL]
Pending == [state |-> "pending", values |-> <<>>]
Failed == [state |-> "error", values |-> <<>>]
Returned(values) == [state |-> "ok", values |-> values]

Missing == [exists |-> FALSE, ver |-> 0, ttl |-> 0]
Value(ver, ttl) == [exists |-> TRUE, ver |-> ver, ttl |-> ttl]

Exists(k) == origin[k].ttl # redisPTTLMissing

\* The number of commands in the pipeline.
Commands == CASE call.op = "GET" -> 2
              [] call.op = "MGET" -> 1 + Len(call.keys)
              [] call.op = "DO" -> 1

Reply(err, data) == [err |-> err, data |-> data]
-----------------------------------------------------------------------------
(* Decoding the replies.                                                   *)

\* pipe.Exec: a broken connection, else the first error among the replies; a
\* null reply is redis.Nil.
ExecErr(rs) ==
  LET errors == {i \in DOMAIN rs : rs[i].err # "none"}
  IN  IF \E i \in errors : rs[i].err = "broken" THEN "broken"
      ELSE IF errors = {} THEN "none" ELSE rs[Min(errors)].err

Gone(ttl) == ttl = redisPTTLMissing

ConfirmedMissAnyError(get) == get.err # "none"
ConfirmedMiss(get) == get.err = "Nil"

\* A reply error after a confirmed miss is harmless; an interrupted pipeline is
\* not.
Get(rs) ==
  LET get == rs[1]
      pttl == rs[2]
  IN  CASE ConfirmedMiss(get) -> IF ExecErr(rs) = "broken" THEN Failed ELSE Returned(<<Missing>>)
        [] ~ConfirmedMiss(get) /\ (get.err # "none" \/ pttl.err # "none") -> Failed
        [] OTHER -> Returned(<<IF Gone(pttl.data) THEN Missing ELSE Value(get.data, pttl.data)>>)

ItemFirst(raw, i) == raw[1].ver
Item(raw, i) == raw[i].ver

MGet(rs) ==
  LET raw == rs[1].data
      ttl(i) == rs[i + 1].data
  IN  IF ExecErr(rs) \notin {"none", "Nil"} THEN Failed
      ELSE Returned([i \in DOMAIN call.keys |->
             IF ~raw[i].exists \/ Gone(ttl(i)) THEN Missing
             ELSE Value(Item(raw, i), ttl(i))])

DoSucceededAlways(reply) == TRUE
DoSucceeded(reply) == reply.err \in {"none", "Nil"}

Do(rs) == IF DoSucceeded(rs[1]) THEN Returned(<<>>) ELSE Failed
-----------------------------------------------------------------------------
Init ==
  /\ origin \in [Keys -> [ver : {0}, ttl : redisPTTLMissing .. MaxTTL]]
  /\ call \in Requests
  /\ replies = <<>> /\ tries = 1
  /\ result = Pending
  /\ lives = [k \in Keys |-> {origin[k]}]
  /\ executed = FALSE

Remember == lives' = [k \in Keys |-> lives[k] \cup {origin'[k]}]

\* What the origin answers to the n-th command.
Answer(n) ==
  LET first == call.keys[1]
  IN  CASE call.op = "GET" /\ n = 1 ->
             IF Exists(first) THEN Reply("none", origin[first].ver) ELSE Reply("Nil", 0)
        [] call.op = "GET" /\ n = 2 -> Reply("none", origin[first].ttl)
        [] call.op = "MGET" /\ n = 1 ->
             Reply("none", [i \in DOMAIN call.keys |->
                              [exists |-> Exists(call.keys[i]), ver |-> origin[call.keys[i]].ver]])
        [] call.op = "MGET" /\ n > 1 -> Reply("none", origin[call.keys[n - 1]].ttl)

InFlight == result = Pending /\ Len(replies) < Commands

\* The origin executes the next command of a read, or refuses it.
ExecuteRead ==
  /\ InFlight /\ call.op # "DO"
  /\ \/ replies' = Append(replies, Answer(Len(replies) + 1))
     \/ replies' = Append(replies, Reply("reply", 0))
  /\ UNCHANGED <<origin, call, tries, result, lives, executed>>

\* The origin executes the command of Do, a SET say, whose reply may be null.
ExecuteDo ==
  /\ InFlight /\ call.op = "DO"
  /\ \/ /\ origin' = [origin EXCEPT ![call.keys[1]] = [ver |-> @.ver + 1, ttl |-> NoExpiry]]
        /\ executed' = TRUE
        /\ \E err \in {"none", "broken"} : replies' = <<Reply(err, 0)>>
     \/ /\ executed' = TRUE /\ replies' = <<Reply("Nil", 0)>>
        /\ UNCHANGED origin
     \/ /\ replies' = <<Reply("reply", 0)>>
        /\ UNCHANGED <<origin, executed>>
  /\ Remember
  /\ UNCHANGED <<call, tries, result>>

\* The connection breaks, or the context ends: no reply is read any more.
Break ==
  /\ InFlight
  /\ replies' = replies \o [i \in 1 .. Commands - Len(replies) |-> Reply("broken", 0)]
  /\ UNCHANGED <<origin, call, tries, result, lives, executed>>

\* go-redis sends the call again after a broken connection and after some
\* errors of its first command.
Retry ==
  /\ result = Pending /\ Len(replies) = Commands /\ tries < MaxTries
  /\ ExecErr(replies) = "broken" \/ replies[1].err = "reply"
  /\ tries' = tries + 1 /\ replies' = <<>>
  /\ UNCHANGED <<origin, call, result, lives, executed>>

Return ==
  /\ result = Pending /\ Len(replies) = Commands
  /\ result' = CASE call.op = "GET" -> Get(replies)
                 [] call.op = "MGET" -> MGet(replies)
                 [] call.op = "DO" -> Do(replies)
  /\ UNCHANGED <<origin, call, replies, tries, lives, executed>>

\* Another client sets, gives a lifetime to, or deletes a key.
Write(k) ==
  /\ result = Pending /\ origin[k].ver < MaxWrites
  /\ \E ttl \in {redisPTTLMissing, NoExpiry} \cup 1 .. MaxTTL :
       origin' = [origin EXCEPT ![k] = [ver |-> @.ver + 1, ttl |-> ttl]]
  /\ Remember
  /\ UNCHANGED <<call, replies, tries, result, executed>>

\* Time passes; a key whose lifetime has run out is gone.
Tick ==
  /\ result = Pending /\ \E k \in Keys : origin[k].ttl >= 0
  /\ origin' = [k \in Keys |->
       CASE origin[k].ttl > 0 -> [origin[k] EXCEPT !.ttl = @ - 1]
         [] origin[k].ttl = 0 -> [origin[k] EXCEPT !.ttl = redisPTTLMissing]
         [] OTHER -> origin[k]]
  /\ Remember
  /\ UNCHANGED <<call, replies, tries, result, executed>>

Over == result # Pending /\ UNCHANGED vars

Next == ExecuteRead \/ ExecuteDo \/ Break \/ Retry \/ Return \/ Tick \/ Over
        \/ \E k \in Keys : Write(k)

Spec == Init /\ [][Next]_vars
-----------------------------------------------------------------------------
\* A miss is reported only for a key that the origin did not hold at some
\* instant of the call: neither a refused command nor a broken pipeline looks
\* like a miss, on which the service deletes its copies and answers null.
MissIsReal ==
  \A i \in DOMAIN result.values :
    ~result.values[i].exists => \E h \in lives[call.keys[i]] : h.ttl = redisPTTLMissing

\* A value comes with a lifetime that the origin reported for the same key, of
\* that version or of a later one that replaced it between the two commands:
\* never of a version before it, nor of another position of the batch, nor the
\* PTTL of a missing key, which localTTL would take for no expiry.
OwnLifetime ==
  \A i \in DOMAIN result.values :
    LET v == result.values[i] IN
    v.exists => /\ v.ttl # redisPTTLMissing
                /\ \E h \in lives[call.keys[i]] : h.ttl = v.ttl /\ h.ver >= v.ver

\* Do reports success only if the origin has executed the command, however
\* often the connection broke and the command was sent: finalizeWrite refreshes
\* the protected tier on it.
AcknowledgedExecuted == call.op = "DO" /\ result.state = "ok" => executed
=============================================================================
