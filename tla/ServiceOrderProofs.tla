-------------------------- MODULE ServiceOrderProofs --------------------------
(***************************************************************************)
(* Every step preserves WriteDiscipline and ReadDiscipline: the mutation   *)
(* gates serialize the writes of a key from before dispatch until after    *)
(* finalization, so that versions are finalized in the order in which the  *)
(* origin made them, and no read answers with a version that is older than *)
(* a write acknowledged before it began.                                   *)
(***************************************************************************)
EXTENDS ServiceInv, TLAPS

\* A leaf goes to Zenon unless it names another prover.
USE Zenon

\* What a step of one writer leaves alone of another.
Kept(v) ==
  /\ wpc'[v] = wpc[v] /\ wtodo'[v] = wtodo[v] /\ wver'[v] = wver[v]
  /\ held'[v] = held[v] /\ tries'[v] = tries[v] /\ late'[v] = late[v]

OthersKept(w) == \A v \in Writers \ {w} : Kept(v)

WritesOfOne(w) ==
  \/ WriterStep(w) \/ GateTimeout(w) \/ Retry(w) \/ LateApply(w)

LEMMA WriterTypes ==
  ASSUME TypeOK, NEW w \in Writers
  PROVE  /\ wpc[w] \in WriterPC
         /\ wkeys[w] \subseteq Keys /\ wtodo[w] \subseteq Keys
         /\ held[w] \subseteq Stripes /\ Needed(w) \subseteq Stripes
         /\ wver[w] \in [Keys -> Nat]
         /\ tries[w] \in Nat
         /\ w # None
<1>1. /\ wpc[w] \in WriterPC
      /\ wkeys[w] \subseteq Keys /\ wtodo[w] \subseteq Keys
      /\ held[w] \subseteq Stripes
      /\ wver[w] \in [Keys -> Nat]
      /\ tries[w] \in Nat
  BY DEF TypeOK, TypeWriter
<1>2. Needed(w) \subseteq Stripes
  BY <1>1, ServiceAssumption, SMT DEF Needed
<1>3. w # None
  BY ServiceAssumption
<1> QED  BY <1>1, <1>2, <1>3

LEMMA VersionTypes ==
  ASSUME TypeOK, NEW k \in Keys
  PROVE  origin[k].ver \in Nat /\ settled[k] \in Nat /\ acked[k] \in Nat
BY DEF TypeOK, TypeShared, TypeHistory, Value

\* Each step of a writer changes its own state only.
LEMMA StepsAreLocal ==
  ASSUME TypeOK, NEW w \in Writers, WritesOfOne(w)
  PROVE  OthersKept(w) /\ UNCHANGED wkeys
<1> USE DEF TypeOK, TypeWriter, WGoto, OriginFrame, WriterFrame
<1>1. ASSUME AcquireGate(w)  PROVE OthersKept(w) /\ UNCHANGED wkeys
  BY <1>1, SMT DEF AcquireGate, OthersKept, Kept
<1>2. ASSUME GateTimeout(w) \/ Release(w)  PROVE OthersKept(w) /\ UNCHANGED wkeys
  BY <1>2 DEF GateTimeout, Release, ReleaseGates, OthersKept, Kept
<1>3. ASSUME InvalidateKeys(w)  PROVE OthersKept(w) /\ UNCHANGED wkeys
  BY <1>3 DEF InvalidateKeys, OthersKept, Kept
<1>4. ASSUME Dispatch(w)  PROVE OthersKept(w) /\ UNCHANGED wkeys
  BY <1>4 DEF Dispatch, OthersKept, Kept
<1>5. ASSUME Retry(w) \/ WriteReply(w) \/ WriteError(w) \/ LateApply(w)
      PROVE  OthersKept(w) /\ UNCHANGED wkeys
  BY <1>5 DEF Retry, WriteReply, WriteError, LateApply, OthersKept, Kept
<1>6. ASSUME WriteThrough(w) \/ WriteThroughStore(w)  PROVE OthersKept(w) /\ UNCHANGED wkeys
  BY <1>6 DEF WriteThrough, WriteThroughStore, OthersKept, Kept
<1>7. ASSUME Forget(w) \/ WriteReturn(w)  PROVE OthersKept(w) /\ UNCHANGED wkeys
  BY <1>7 DEF Forget, WriteReturn, OthersKept, Kept
<1> QED  BY <1>1, <1>2, <1>3, <1>4, <1>5, <1>6, <1>7, Zenon DEF WritesOfOne, WriterStep
-----------------------------------------------------------------------------
(* The gates.                                                              *)

GatesKept == \A w \in Writers : GateInv(w)

\* Two writes that are past acquireMutationGates share no key.
LEMMA Exclusion ==
  ASSUME TypeOK, GatesKept, NEW v \in Writers, NEW w \in Writers, v # w,
         Gated(v), Gated(w), NEW k \in wkeys[w]
  PROVE  k \notin wkeys[v]
<1>1. StripeOf[k] \in Stripes
  BY WriterTypes, ServiceAssumption
<1>2. StripeOf[k] \in Needed(w)
  BY DEF Needed
<1>3. gate[StripeOf[k]] = w
  BY <1>1, <1>2, Zenon DEF GatesKept, GateInv
<1> SUFFICES ASSUME k \in wkeys[v]  PROVE FALSE
  OBVIOUS
<1>4. StripeOf[k] \in Needed(v)
  BY DEF Needed
<1>5. gate[StripeOf[k]] = v
  BY <1>1, <1>4, Zenon DEF GatesKept, GateInv
<1> QED  BY <1>3, <1>5

LEMMA GatesStep ==
  ASSUME TypeOK, GatesKept, NEW w \in Writers, WritesOfOne(w)
  PROVE  GatesKept'
<1>1. OthersKept(w) /\ UNCHANGED wkeys
  BY StepsAreLocal
<1>2. \A v \in Writers : Needed(v)' = Needed(v)
  BY <1>1 DEF Needed
<1>3. ASSUME AcquireGate(w)  PROVE GatesKept'
  <2>1. PICK s \in NextGate(w) : /\ GateFree(s)
                                 /\ gate' = [gate EXCEPT ![s] = w]
                                 /\ held' = [held EXCEPT ![w] = @ \cup {s}]
                                 /\ Needed(w) \ held[w] = {s} \/ UNCHANGED wpc
    BY <1>3, Zenon DEF AcquireGate
  <2>2. s \in Stripes /\ gate[s] = None /\ wpc[w] = "gate"
    BY <1>3, <2>1, WriterTypes DEF NextGate, GateFree, AcquireGate
  <2>3. /\ gate'[s] = w /\ \A t \in Stripes \ {s} : gate'[t] = gate[t]
        /\ held'[w] = held[w] \cup {s}
    BY <2>1, <2>2 DEF TypeOK, TypeShared, TypeWriter
  <2>4. GateInv(w)'
    BY <1>2, <2>1, <2>2, <2>3, SMT DEF GatesKept, GateInv, Gated
  <2>5. ASSUME NEW v \in Writers \ {w}  PROVE GateInv(v)'
    <3>1. s \notin held[v]
      BY <2>2, WriterTypes DEF GatesKept, GateInv
    <3>2. held'[v] = held[v] /\ wpc'[v] = wpc[v]
      BY <1>1 DEF OthersKept, Kept
    <3> QED  BY <1>2, <2>2, <2>3, <3>1, <3>2, SMT DEF GatesKept, GateInv, Gated
  <2> QED  BY <2>4, <2>5 DEF GatesKept
<1>4. ASSUME GateTimeout(w) \/ Release(w)  PROVE GatesKept'
  <2>1. /\ \A s \in Stripes : gate'[s] = IF s \in held[w] THEN None ELSE gate[s]
        /\ held'[w] = {} /\ wpc'[w] \in {"done", "reply"}
    BY <1>4 DEF GateTimeout, Release, ReleaseGates, WGoto, TypeOK, TypeWriter
  <2>2. GateInv(w)'
    BY <2>1, WriterTypes, SMT DEF GatesKept, GateInv, Gated
  <2>3. ASSUME NEW v \in Writers \ {w}  PROVE GateInv(v)'
    <3>1. held'[v] = held[v] /\ wpc'[v] = wpc[v] /\ v # None
      BY <1>1, WriterTypes DEF OthersKept, Kept
    <3>2. ASSUME NEW s \in Stripes  PROVE s \in held[v] <=> gate'[s] = v
      <4>1. /\ s \in held[v] <=> gate[s] = v
            /\ s \in held[w] <=> gate[s] = w
        BY Zenon DEF GatesKept, GateInv
      <4> QED  BY <2>1, <3>1, <4>1, Zenon
    <3>3. Gated(v)' => Needed(v) \subseteq held[v]
      BY <3>1, Zenon DEF GatesKept, GateInv, Gated
    <3> QED  BY <1>2, <3>1, <3>2, <3>3, Zenon DEF GateInv
  <2> QED  BY <2>2, <2>3 DEF GatesKept
<1>5. ASSUME UNCHANGED <<gate, held>>, Gated(w)' => Gated(w)  PROVE GatesKept'
  <2>1. ASSUME NEW v \in Writers  PROVE Gated(v)' => Gated(v)
    BY <1>1, <1>5 DEF OthersKept, Kept, Gated
  <2>2. gate' = gate /\ held' = held
    BY <1>5
  <2>3. ASSUME NEW v \in Writers  PROVE GateInv(v)'
    <3>1. GateInv(v)
      BY DEF GatesKept
    <3> QED  BY <1>2, <2>1, <2>2, <3>1, Zenon DEF GateInv
  <2> QED  BY <2>3 DEF GatesKept
<1>6. ASSUME InvalidateKeys(w) \/ Forget(w) \/ WriteThrough(w) \/ WriteThroughStore(w)
      PROVE  UNCHANGED <<gate, held>> /\ Gated(w)
  BY <1>6 DEF InvalidateKeys, Forget, WriteThrough, WriteThroughStore, Gated
<1>7. ASSUME Dispatch(w) \/ Retry(w) \/ WriteReply(w) \/ WriteError(w)
      PROVE  UNCHANGED <<gate, held>> /\ Gated(w)
  BY <1>7 DEF Dispatch, Retry, WriteReply, WriteError, Gated
<1>8. ASSUME LateApply(w) \/ WriteReturn(w)
      PROVE  UNCHANGED <<gate, held>> /\ (Gated(w)' => Gated(w))
  BY <1>8 DEF LateApply, WriteReturn, Gated, WGoto, TypeOK, TypeWriter
<1> QED  BY <1>3, <1>4, <1>5, <1>6, <1>7, <1>8, Zenon DEF WritesOfOne, WriterStep
-----------------------------------------------------------------------------
(* The order of versions.                                                  *)

OrderKept == \A w \in Writers : OrderInv(w)

\* The version that a step of w finalizes is not older than the last one.
Finalizes(w, k) ==
  /\ wpc[w] \in {"final", "throughStore"}
  /\ k \in wtodo[w] /\ k \in wkeys[w]
  /\ wver[w][k] # 0 /\ settled'[k] = wver[w][k] /\ settled[k] <= wver[w][k]

LEMMA SettledStep ==
  ASSUME TypeOK, OrderKept, NEW w \in Writers, WritesOfOne(w), NEW k \in Keys
  PROVE  settled'[k] = settled[k] \/ Finalizes(w, k)
<1>1. ASSUME NEW j \in wkeys[w], j \in wtodo[w], Settle(w, j), wpc[w] \in {"final", "throughStore"}
      PROVE  settled'[k] = settled[k] \/ Finalizes(w, k)
  <2>1. j \in Keys
    BY WriterTypes
  <2>2. CASE j = k /\ wver[w][k] # 0
    <3>1. settled'[k] = wver[w][k]
      BY <1>1, <2>2 DEF Settle, TypeOK, TypeHistory
    <3>2. wver[w][k] >= settled[k]
      BY <1>1, <2>2, Zenon DEF OrderKept, OrderInv, Underway
    <3>3. settled[k] <= wver[w][k]
      BY <3>2, WriterTypes, VersionTypes
    <3> QED  BY <1>1, <2>2, <3>1, <3>3 DEF Finalizes
  <2>3. CASE ~(j = k /\ wver[w][k] # 0)
    BY <1>1, <2>1, <2>3 DEF Settle, TypeOK, TypeHistory
  <2> QED  BY <2>2, <2>3
<1>2. OrderInv(w)
  BY DEF OrderKept
<1>3. ASSUME InvalidateKeys(w)  PROVE settled'[k] = settled[k] \/ Finalizes(w, k)
  <2>1. CASE wpc[w] = "final"
    <3>1. PICK j \in wtodo[w] : Settle(w, j)
      BY <1>3, <2>1, Zenon DEF InvalidateKeys
    <3>2. j \in wkeys[w]
      BY <1>2, Zenon DEF OrderInv
    <3> QED  BY <1>1, <2>1, <3>1, <3>2
  <2>2. CASE wpc[w] # "final"
    BY <1>3, <2>2, Zenon DEF InvalidateKeys
  <2> QED  BY <2>1, <2>2
<1>4. ASSUME WriteThroughStore(w)  PROVE settled'[k] = settled[k] \/ Finalizes(w, k)
  <2>1. PICK j \in wkeys[w] : Settle(w, j)
    BY <1>4, Zenon DEF WriteThroughStore
  <2>2. wpc[w] = "throughStore"
    BY <1>4, Zenon DEF WriteThroughStore
  <2>3. wtodo[w] = wkeys[w]
    BY <1>2, <2>2 DEF OrderInv, Underway
  <2> QED  BY <1>1, <2>1, <2>2, <2>3
<1>5. ASSUME Forget(w) \/ WriteThrough(w)  PROVE settled' = settled
  BY <1>5 DEF Forget, WriteThrough
<1>6. ASSUME OriginFrame  PROVE settled' = settled
  BY <1>6 DEF OriginFrame
<1>7. ASSUME AcquireGate(w) \/ GateTimeout(w) \/ Release(w) \/ Dispatch(w) \/ Retry(w)
             \/ WriteReply(w) \/ WriteError(w) \/ LateApply(w) \/ WriteReturn(w)
      PROVE  OriginFrame
  BY <1>7, Zenon DEF AcquireGate, GateTimeout, Release, Dispatch, Retry, WriteReply, WriteError,
                     LateApply, WriteReturn
<1> QED  BY <1>3, <1>4, <1>5, <1>6, <1>7, Zenon DEF WritesOfOne, WriterStep

\* settled never goes back.
LEMMA SettledGrows ==
  ASSUME TypeOK, OrderKept, NEW w \in Writers, WritesOfOne(w), NEW k \in Keys
  PROVE  settled[k] <= settled'[k]
<1>1. settled[k] <= settled[k]
  BY VersionTypes, SMT
<1> QED  BY <1>1, SettledStep, Zenon DEF Finalizes

LEMMA OrderOthers ==
  ASSUME TypeOK, TypeOK', GatesKept, OrderKept, NEW w \in Writers, WritesOfOne(w),
         NEW v \in Writers \ {w}
  PROVE  OrderInv(v)'
<1>1. /\ wpc'[v] = wpc[v] /\ wtodo'[v] = wtodo[v] /\ wver'[v] = wver[v] /\ wkeys'[v] = wkeys[v]
  BY StepsAreLocal DEF OthersKept, Kept
<1>2. OrderInv(v)
  BY DEF OrderKept
<1>3. ASSUME NEW k \in wkeys[v], Underway(v)  PROVE settled'[k] = settled[k]
  <2>1. k \in Keys
    BY WriterTypes
  <2>2. ASSUME Finalizes(w, k)  PROVE FALSE
    <3>1. Gated(v) /\ Gated(w) /\ k \in wkeys[w]
      BY <1>3, <2>2 DEF Underway, Gated, Finalizes
    <3> QED  BY <3>1, Exclusion
  <2> QED  BY <2>1, <2>2, SettledStep
<1>4. ASSUME NEW k \in wkeys[v], wver[v][k] <= settled[k]  PROVE wver[v][k] <= settled'[k]
  <2>1. k \in Keys /\ settled[k] <= settled'[k] /\ wver[v][k] \in Nat
    BY WriterTypes, SettledGrows
  <2>2. settled[k] \in Nat /\ settled'[k] \in Nat
    BY <2>1 DEF TypeOK, TypeHistory
  <2> QED  BY <1>4, <2>1, <2>2, SMT
<1>5. Underway(v)' = Underway(v) /\ \A k : Finalized(v, k)' = Finalized(v, k)
  BY <1>1, Zenon DEF Underway, Finalized
<1> QED  BY <1>1, <1>2, <1>3, <1>4, <1>5, Zenon DEF OrderInv

\* The steps that only move the write on.
Moves == {<<"gate", "done">>, <<"sent", "send">>, <<"sent", "through">>, <<"sent", "final">>,
          <<"send", "final">>, <<"through", "throughStore">>, <<"release", "reply">>,
          <<"reply", "done">>}

LEMMA OrderMove ==
  ASSUME TypeOK, NEW w \in Writers, OrderInv(w), UNCHANGED <<wkeys, settled>>,
         wver'[w] = wver[w], wtodo'[w] = wtodo[w],
         wpc'[w] = wpc[w] \/ <<wpc[w], wpc'[w]>> \in Moves
  PROVE  OrderInv(w)'
<1>1. /\ Underway(w)' => Underway(w)
      /\ wpc'[w] \in {"gate", "pre"} => wpc'[w] = wpc[w]
      /\ (Underway(w) /\ wpc[w] # "final")' => Underway(w) /\ wpc[w] # "final"
  BY DEF Moves, Underway
<1>2. ASSUME NEW k \in wkeys[w], Finalized(w, k)'  PROVE Finalized(w, k)
  <2>1. CASE wpc'[w] = wpc[w]
    BY <1>2, <2>1 DEF Finalized
  <2>2. CASE wpc'[w] = "reply" /\ wpc[w] = "release"
    BY <2>2 DEF Finalized
  <2>3. CASE wpc'[w] = "final" /\ wpc[w] \in {"send", "sent"}
    <3>1. wtodo[w] = wkeys[w]
      BY <2>3 DEF OrderInv, Underway
    <3> QED  BY <1>2, <2>3, <3>1 DEF Finalized
  <2> QED  BY <1>2, <2>1, <2>2, <2>3 DEF Moves, Finalized
<1>3. wkeys' = wkeys /\ settled' = settled
  OBVIOUS
<1> QED  BY <1>1, <1>2, <1>3, Zenon DEF OrderInv

LEMMA MoveSteps ==
  ASSUME TypeOK, NEW w \in Writers,
         GateTimeout(w) \/ Retry(w) \/ WriteReply(w) \/ WriteError(w) \/ LateApply(w)
         \/ WriteThrough(w) \/ Release(w) \/ WriteReturn(w)
  PROVE  /\ settled' = settled /\ wver' = wver /\ wtodo' = wtodo
         /\ wpc'[w] = wpc[w] \/ <<wpc[w], wpc'[w]>> \in Moves
<1>1. ASSUME NEW label, WGoto(w, label)  PROVE wpc'[w] = label
  BY <1>1 DEF WGoto, TypeOK, TypeWriter
<1>2. CASE GateTimeout(w) \/ Release(w)
  BY <1>1, <1>2 DEF GateTimeout, Release, OriginFrame, Moves
<1>3. CASE Retry(w) \/ WriteReply(w)
  BY <1>1, <1>3 DEF Retry, WriteReply, OriginFrame, Moves
<1>4. CASE WriteError(w) \/ LateApply(w)
  BY <1>1, <1>4 DEF WriteError, LateApply, OriginFrame, Moves
<1>5. CASE WriteThrough(w) \/ WriteReturn(w)
  BY <1>1, <1>5 DEF WriteThrough, WriteReturn, OriginFrame, Moves
<1> QED  BY <1>2, <1>3, <1>4, <1>5

LEMMA AppliedVersions ==
  ASSUME TypeOK, NEW cmd, NEW K, origin' \in Applied(cmd, K), NEW k \in Keys
  PROVE  /\ origin'[k].ver >= origin[k].ver
         /\ k \notin K => origin'[k] = origin[k]
<1>1. origin[k].ver \in Nat
  BY VersionTypes
<1>2. CASE origin' = origin
  BY <1>1, <1>2, SMT
<1>3. CASE \E e \in BOOLEAN :
             origin' = [j \in Keys |-> IF j \in K THEN [ver |-> origin[j].ver + 1, exists |-> e]
                                       ELSE origin[j]]
  BY <1>1, <1>3, SMT
<1> QED  BY <1>2, <1>3, Zenon DEF Applied

\* What invalidateCacheKeys finds and leaves.
LEMMA InvalidateKeysMeaning ==
  ASSUME TypeOK, NEW w \in Writers, InvalidateKeys(w)
  PROVE  \E k \in wtodo[w] :
           /\ wpc[w] \in {"pre", "final"}
           /\ \/ /\ wtodo[w] = {k} /\ wtodo'[w] = wkeys[w]
                 /\ wpc'[w] = IF wpc[w] = "pre" THEN "send" ELSE "forget"
              \/ wtodo'[w] = wtodo[w] \ {k} /\ wpc'[w] = wpc[w]
           /\ wpc[w] = "pre" => settled' = settled
           /\ wpc[w] = "final" => Settle(w, k)
           /\ wver' = wver /\ tries' = tries /\ origin' = origin /\ acked' = acked /\ late' = late
<1>1. wver' = wver /\ tries' = tries /\ origin' = origin /\ acked' = acked /\ late' = late
  BY DEF InvalidateKeys
<1>2. PICK k \in wtodo[w] :
        /\ IF wtodo[w] = {k}
           THEN /\ WGoto(w, IF wpc[w] = "pre" THEN "send" ELSE "forget")
                /\ wtodo' = [wtodo EXCEPT ![w] = wkeys[w]]
           ELSE /\ wtodo' = [wtodo EXCEPT ![w] = @ \ {k}]
                /\ UNCHANGED wpc
        /\ IF wpc[w] = "final" THEN Settle(w, k) ELSE UNCHANGED settled
  BY Zenon DEF InvalidateKeys
<1>3. wpc[w] \in {"pre", "final"}
  BY Zenon DEF InvalidateKeys
<1>4. CASE wtodo[w] = {k}
  BY <1>1, <1>2, <1>3, <1>4 DEF WGoto, TypeOK, TypeWriter
<1>5. CASE wtodo[w] # {k}
  BY <1>1, <1>2, <1>3, <1>5 DEF WGoto, TypeOK, TypeWriter
<1> QED  BY <1>4, <1>5

\* Settling leaves the other keys alone and covers the version of the write.
LEMMA SettleMeaning ==
  ASSUME TypeOK, NEW w \in Writers, NEW k \in Keys, Settle(w, k)
  PROVE  /\ \A j \in Keys \ {k} : settled'[j] = settled[j]
         /\ wver[w][k] # 0 => settled'[k] = wver[w][k]
         /\ wver[w][k] = 0 => settled'[k] = settled[k]
         /\ wver[w][k] <= settled'[k]
<1>1. wver[w][k] \in Nat /\ settled[k] \in Nat
  BY WriterTypes, VersionTypes
<1> QED  BY <1>1, SMT DEF Settle, TypeOK, TypeHistory

LEMMA OrderOwn ==
  ASSUME TypeOK, TypeOK', StripeDiscipline, OrderKept, NEW w \in Writers, WritesOfOne(w)
  PROVE  OrderInv(w)'
<1>1. OrderInv(w) /\ wkeys'[w] = wkeys[w] /\ UNCHANGED wkeys /\ wkeys[w] \subseteq Keys
  BY StepsAreLocal, WriterTypes DEF OrderKept
<1>2. ASSUME GateTimeout(w) \/ Retry(w) \/ WriteReply(w) \/ WriteError(w) \/ LateApply(w)
             \/ WriteThrough(w) \/ Release(w) \/ WriteReturn(w)
      PROVE  OrderInv(w)'
  BY <1>1, <1>2, MoveSteps, OrderMove
<1>3. ASSUME AcquireGate(w)  PROVE OrderInv(w)'
  <2>1. settled' = settled /\ wver' = wver /\ wpc[w] = "gate"
    BY <1>3 DEF AcquireGate, OriginFrame
  <2>2. \/ wpc'[w] = "pre" /\ wtodo'[w] = wkeys[w]
        \/ wpc'[w] = wpc[w] /\ wtodo'[w] = wtodo[w]
    BY <1>3, SMT DEF AcquireGate, WGoto, TypeOK, TypeWriter
  <2>3. ~Underway(w)' /\ \A k : ~Finalized(w, k)'
    BY <2>1, <2>2 DEF Underway, Finalized
  <2>4. wtodo'[w] \subseteq wkeys[w] /\ \A k \in Keys : wver[w][k] = 0
    BY <1>1, <2>1, <2>2, Zenon DEF OrderInv
  <2> QED  BY <1>1, <2>1, <2>3, <2>4, Zenon DEF OrderInv
<1>4. ASSUME InvalidateKeys(w)  PROVE OrderInv(w)'
  <2>1. PICK k \in wtodo[w] :
           /\ wpc[w] \in {"pre", "final"}
           /\ \/ /\ wtodo[w] = {k} /\ wtodo'[w] = wkeys[w]
                 /\ wpc'[w] = IF wpc[w] = "pre" THEN "send" ELSE "forget"
              \/ wtodo'[w] = wtodo[w] \ {k} /\ wpc'[w] = wpc[w]
           /\ wpc[w] = "pre" => settled' = settled
           /\ wpc[w] = "final" => Settle(w, k)
           /\ wver' = wver
    BY <1>4, InvalidateKeysMeaning
  <2>2. k \in wkeys[w] /\ k \in Keys /\ wtodo[w] \subseteq wkeys[w]
    BY <1>1, Zenon DEF OrderInv
  <2>3. wtodo'[w] \subseteq wkeys[w]
    BY <2>1, <2>2
  <2>4. \A j \in Keys \ wkeys[w] : wver[w][j] = 0
    BY <1>1, Zenon DEF OrderInv
  <2>5. CASE wpc[w] = "pre"
    <3>1. \A j \in Keys : wver[w][j] = 0
      BY <1>1, <2>5, Zenon DEF OrderInv
    <3>2. wpc'[w] \in {"pre", "send"} /\ (wpc'[w] = "send" => wtodo'[w] = wkeys[w])
      BY <2>1, <2>5
    <3>3. \A j : ~Finalized(w, j)'
      BY <3>2 DEF Finalized
    <3>4. (Underway(w) /\ wpc[w] # "final")' => wtodo'[w] = wkeys[w]
      BY <3>2 DEF Underway
    <3> QED  BY <1>1, <2>1, <2>3, <3>1, <3>3, <3>4, Zenon DEF OrderInv
  <2>6. CASE wpc[w] = "final"
    <3>1. /\ \A j \in Keys \ {k} : settled'[j] = settled[j]
          /\ wver[w][k] # 0 => settled'[k] = wver[w][k]
          /\ wver[w][k] <= settled'[k]
      BY <2>1, <2>2, <2>6, SettleMeaning
    <3>2. wpc'[w] \in {"final", "forget"} /\ (wpc'[w] = "final" => wtodo'[w] = wtodo[w] \ {k})
      BY <2>1, <2>6
    <3>3. ASSUME NEW j \in wkeys[w], Underway(w)', wver[w][j] # 0  PROVE wver[w][j] >= settled'[j]
      <4>1. CASE j = k
        BY <3>1, <3>3, <4>1, <2>2, WriterTypes
      <4>2. CASE j # k
        BY <1>1, <2>6, <3>1, <3>3, <4>2, Zenon DEF OrderInv, Underway
      <4> QED  BY <4>1, <4>2
    <3>4. ASSUME NEW j \in wkeys[w], Finalized(w, j)'  PROVE wver[w][j] <= settled'[j]
      <4>1. CASE j = k
        BY <3>1, <4>1
      <4>2. CASE j # k
        <5>1. j \notin wtodo[w]
          BY <2>1, <2>6, <3>2, <3>4, <4>2 DEF Finalized
        <5> QED  BY <1>1, <2>6, <3>1, <4>2, <5>1, Zenon DEF OrderInv, Finalized
      <4> QED  BY <4>1, <4>2
    <3>5. ~(Underway(w) /\ wpc[w] # "final")' /\ wpc'[w] \notin {"gate", "pre"}
      BY <3>2 DEF Underway
    <3> QED  BY <1>1, <2>1, <2>3, <2>4, <3>3, <3>4, <3>5, Zenon DEF OrderInv
  <2> QED  BY <2>1, <2>5, <2>6
<1>5. ASSUME Dispatch(w)  PROVE OrderInv(w)'
  <2>1. /\ wpc[w] = "send" /\ wpc'[w] = "sent" /\ wtodo'[w] = wtodo[w] /\ settled' = settled
        /\ origin' \in Applied(wcmd[w], wkeys[w])
        /\ \A k \in Keys : wver'[w][k] = IF k \in wkeys[w] THEN origin'[k].ver ELSE 0
    BY <1>5 DEF Dispatch, OriginFrame, WGoto, TypeOK, TypeWriter
  <2>2. wtodo[w] = wkeys[w]
    BY <1>1, <2>1 DEF OrderInv, Underway
  <2>3. ASSUME NEW k \in wkeys[w]  PROVE wver'[w][k] >= settled[k]
    <3>1. origin'[k].ver >= origin[k].ver /\ k \in Keys
      BY <1>1, <2>1, AppliedVersions
    <3>2. settled[k] <= origin[k].ver
      BY <3>1 DEF StripeDiscipline, KeyInv
    <3>3. origin[k].ver \in Nat /\ settled[k] \in Nat /\ origin'[k].ver \in Nat
      BY <3>1, VersionTypes DEF TypeOK, TypeShared, Value
    <3> QED  BY <2>1, <3>1, <3>2, <3>3, SMT
  <2>4. \A k : ~Finalized(w, k)'
    BY <2>1 DEF Finalized
  <2> QED  BY <1>1, <2>1, <2>2, <2>3, <2>4 DEF OrderInv
<1>6. ASSUME WriteThroughStore(w)  PROVE OrderInv(w)'
  <2>1. PICK k \in wkeys[w] : Settle(w, k)
    BY <1>6, Zenon DEF WriteThroughStore
  <2>2. /\ wpc[w] = "throughStore" /\ wpc'[w] = "forget" /\ wtodo' = wtodo /\ wver' = wver
    BY <1>6 DEF WriteThroughStore, WGoto, TypeOK, TypeWriter
  <2>3. wkeys[w] = {k} /\ k \in Keys
    <3>1. WriterInv(w)
      BY DEF StripeDiscipline
    <3>2. \E j \in Keys : wkeys[w] = {j}
      BY <2>2, <3>1 DEF WriterInv
    <3> QED  BY <3>2
  <2>4. wver[w][k] <= settled'[k]
    BY <2>1, <2>3, SettleMeaning
  <2>5. ~Underway(w)'
    BY <2>2 DEF Underway
  <2> QED  BY <1>1, <2>2, <2>3, <2>4, <2>5 DEF OrderInv
<1>7. ASSUME Forget(w)  PROVE OrderInv(w)'
  <2>1. /\ settled' = settled /\ wver' = wver /\ wpc[w] = "forget"
        /\ wpc'[w] \in {"forget", "release"} /\ wtodo'[w] \subseteq wtodo[w]
    BY <1>7, SMT DEF Forget, WGoto, TypeOK, TypeWriter
  <2>2. ~Underway(w)' /\ \A k : Finalized(w, k)
    BY <2>1 DEF Underway, Finalized
  <2> QED  BY <1>1, <2>1, <2>2 DEF OrderInv
<1> QED  BY <1>2, <1>3, <1>4, <1>5, <1>6, <1>7, Zenon DEF WritesOfOne, WriterStep

\* Only finalized versions are acknowledged.
AckedKept == \A k \in Keys : acked[k] <= settled[k]

LEMMA AckedStep ==
  ASSUME TypeOK, TypeOK', OrderKept, AckedKept, NEW w \in Writers, WritesOfOne(w)
  PROVE  AckedKept'
<1>1. ASSUME NEW k \in Keys  PROVE acked'[k] <= settled'[k]
  <2>1. acked[k] <= settled[k] /\ settled[k] <= settled'[k]
    BY SettledGrows DEF AckedKept
  <2>2. acked[k] \in Nat /\ settled[k] \in Nat /\ settled'[k] \in Nat
    BY VersionTypes DEF TypeOK, TypeHistory
  <2>3. CASE acked'[k] = acked[k]
    BY <2>1, <2>2, <2>3, SMT
  <2>4. CASE /\ wpc[w] = "reply"
             /\ acked'[k] = Larger(acked[k], wver[w][k]) /\ settled' = settled
    <3>1. wver[w][k] <= settled[k]
      <4>1. CASE k \in wkeys[w]
        BY <2>4, <4>1 DEF OrderKept, OrderInv, Finalized
      <4>2. CASE k \notin wkeys[w]
        <5>1. wver[w][k] = 0
          BY <4>2 DEF OrderKept, OrderInv
        <5> QED  BY <2>2, <5>1, SMT
      <4> QED  BY <4>1, <4>2
    <3> QED  BY <2>1, <2>4, <3>1 DEF Larger
  <2>5. ASSUME WriteReturn(w)
        PROVE  \/ acked'[k] = acked[k]
               \/ /\ wpc[w] = "reply"
                  /\ acked'[k] = Larger(acked[k], wver[w][k]) /\ settled' = settled
    BY <2>5 DEF WriteReturn, OriginFrame
  <2>6. ASSUME AcquireGate(w) \/ GateTimeout(w) \/ Release(w) \/ Retry(w) \/ WriteReply(w)
               \/ WriteError(w)
        PROVE  acked' = acked
    BY <2>6 DEF AcquireGate, GateTimeout, Release, Retry, WriteReply, WriteError
  <2>7. ASSUME InvalidateKeys(w) \/ Dispatch(w) \/ LateApply(w) \/ WriteThrough(w)
               \/ WriteThroughStore(w) \/ Forget(w)
        PROVE  acked' = acked
    BY <2>7 DEF InvalidateKeys, Dispatch, LateApply, WriteThrough, WriteThroughStore, Forget
  <2> QED  BY <2>3, <2>4, <2>5, <2>6, <2>7 DEF WritesOfOne, WriterStep
<1> QED  BY <1>1 DEF AckedKept
-----------------------------------------------------------------------------
(* Without writes past the gates, what is finalized is what the origin     *)
(* holds, save for the keys of a write that is not finalized.              *)

LatesKept == \A w \in Writers : late[w] => "late" \in Env

LEMMA LatesStep ==
  ASSUME TypeOK, LatesKept, NEW w \in Writers, WritesOfOne(w)
  PROVE  LatesKept'
<1>1. ASSUME late'[w]  PROVE "late" \in Env
  <2>1. CASE late'[w] = late[w]
    BY <1>1, <2>1 DEF LatesKept
  <2>2. ASSUME LateApply(w)  PROVE FALSE
    BY <1>1, <2>2 DEF LateApply, TypeOK, TypeWriter
  <2>3. ASSUME WriteError(w)  PROVE "late" \in Env
    BY <1>1, <2>3 DEF WriteError, TypeOK, TypeWriter
  <2>4. ASSUME AcquireGate(w) \/ GateTimeout(w) \/ Release(w) \/ Retry(w) \/ WriteReply(w)
               \/ WriteReturn(w)
        PROVE  late' = late
    BY <2>4 DEF AcquireGate, GateTimeout, Release, Retry, WriteReply, WriteReturn
  <2>5. ASSUME InvalidateKeys(w) \/ Dispatch(w) \/ WriteThrough(w) \/ WriteThroughStore(w)
               \/ Forget(w)
        PROVE  late' = late
    BY <2>5 DEF InvalidateKeys, Dispatch, WriteThrough, WriteThroughStore, Forget
  <2> QED  BY <2>1, <2>2, <2>3, <2>4, <2>5 DEF WritesOfOne, WriterStep
<1>2. ASSUME NEW v \in Writers \ {w}, late'[v]  PROVE "late" \in Env
  BY <1>2, StepsAreLocal DEF LatesKept, OthersKept, Kept
<1> QED  BY <1>1, <1>2 DEF LatesKept

CurrentInv(w) == \A k \in wkeys[w] : Underway(w) /\ wver[w][k] # 0 => wver[w][k] = origin[k].ver
Accounted(k) == settled[k] = origin[k].ver \/ \E w \in Writers : InDoubt(w, k)

CalmKept == /\ \A w \in Writers : CurrentInv(w)
            /\ \A k \in Keys : Accounted(k)

\* The steps of a write other than its dispatch leave the origin alone.
LEMMA CalmOrigin ==
  ASSUME TypeOK, Calm, LatesKept, NEW w \in Writers, WritesOfOne(w)
  PROVE  origin' = origin \/ Dispatch(w)
<1>1. ASSUME LateApply(w)  PROVE FALSE
  BY <1>1 DEF LateApply, LatesKept, Calm
<1>2. ASSUME AcquireGate(w) \/ GateTimeout(w) \/ Release(w) \/ Retry(w) \/ WriteReply(w)
             \/ WriteError(w) \/ WriteReturn(w)
      PROVE  origin' = origin
  <2>1. CASE AcquireGate(w) \/ GateTimeout(w) \/ Release(w)
    BY <2>1 DEF AcquireGate, GateTimeout, Release
  <2>2. CASE Retry(w) \/ WriteReply(w) \/ WriteError(w) \/ WriteReturn(w)
    BY <2>2 DEF Retry, WriteReply, WriteError, WriteReturn
  <2> QED  BY <1>2, <2>1, <2>2
<1>3. ASSUME InvalidateKeys(w) \/ WriteThrough(w) \/ WriteThroughStore(w) \/ Forget(w)
      PROVE  origin' = origin
  <2>1. CASE InvalidateKeys(w)
    BY <2>1 DEF InvalidateKeys
  <2>2. CASE WriteThrough(w) \/ WriteThroughStore(w) \/ Forget(w)
    BY <2>2 DEF WriteThrough, WriteThroughStore, Forget
  <2> QED  BY <1>3, <2>1, <2>2
<1> QED  BY <1>1, <1>2, <1>3 DEF WritesOfOne, WriterStep

LEMMA CalmDispatch ==
  ASSUME TypeOK, TypeOK', GatesKept, CalmKept, NEW w \in Writers, Dispatch(w)
  PROVE  CalmKept'
<1>1. /\ wpc[w] = "send" /\ wpc'[w] = "sent" /\ settled' = settled /\ tries'[w] = tries[w] + 1
      /\ origin' \in Applied(wcmd[w], wkeys[w])
      /\ \A k \in Keys : wver'[w][k] = IF k \in wkeys[w] THEN origin'[k].ver ELSE 0
  BY SMT DEF Dispatch, OriginFrame, WGoto, TypeOK, TypeWriter
<1>2. OthersKept(w) /\ UNCHANGED wkeys /\ Gated(w)
  BY <1>1, StepsAreLocal DEF WritesOfOne, WriterStep, Gated
<1>3. \A k \in Keys : k \notin wkeys[w] => origin'[k] = origin[k]
  BY <1>1, AppliedVersions
<1>4. tries'[w] > 0
  BY <1>1, WriterTypes, SMT
<1>5. ASSUME NEW v \in Writers \ {w}, NEW k \in wkeys[v], Underway(v)
      PROVE  origin'[k] = origin[k]
  <2>1. k \in Keys /\ Gated(v)
    BY <1>5, WriterTypes DEF Gated, Underway
  <2> QED  BY <1>2, <1>3, <2>1, Exclusion
<1>6. ASSUME NEW v \in Writers  PROVE CurrentInv(v)'
  <2>1. CASE v = w
    BY <1>1, <1>2, <2>1, WriterTypes DEF CurrentInv
  <2>2. CASE v # w
    <3>1. wpc'[v] = wpc[v] /\ wver'[v] = wver[v] /\ wkeys' = wkeys
      BY <1>2, <2>2 DEF OthersKept, Kept
    <3> QED  BY <1>5, <2>2, <3>1 DEF CalmKept, CurrentInv, Underway
  <2> QED  BY <2>1, <2>2
<1>7. ASSUME NEW k \in Keys  PROVE Accounted(k)'
  <2>1. CASE k \in wkeys[w]
    <3>1. InDoubt(w, k)'
      BY <1>1, <1>2, <1>4, <2>1 DEF InDoubt, Underway
    <3> QED  BY <3>1 DEF Accounted
  <2>2. CASE k \notin wkeys[w]
    <3>1. origin'[k] = origin[k] /\ settled'[k] = settled[k]
      BY <1>1, <1>3, <2>2
    <3>2. ASSUME NEW v \in Writers, InDoubt(v, k)  PROVE InDoubt(v, k)'
      BY <1>2, <2>2, <3>1, <3>2 DEF InDoubt, OthersKept, Kept, Underway
    <3> QED  BY <3>1, <3>2 DEF CalmKept, Accounted
  <2> QED  BY <2>1, <2>2
<1> QED  BY <1>6, <1>7 DEF CalmKept

\* A write that was in doubt about a key still is, or has finalized it.
LEMMA DoubtEnds ==
  ASSUME TypeOK, StripeDiscipline, OrderKept, CalmKept, NEW w \in Writers, WritesOfOne(w),
         ~Dispatch(w), origin' = origin, NEW k \in Keys, InDoubt(w, k)
  PROVE  InDoubt(w, k)' \/ settled'[k] = origin[k].ver
<1>1. OrderInv(w) /\ CurrentInv(w) /\ wkeys' = wkeys
  BY StepsAreLocal DEF OrderKept, CalmKept
<1>2. ASSUME Settle(w, k)  PROVE settled'[k] = origin[k].ver
  <2>1. CASE wver[w][k] = 0
    <3>1. settled'[k] = settled[k] /\ settled[k] <= origin[k].ver /\ origin[k].ver = 0
      BY <1>2, <2>1, SettleMeaning DEF StripeDiscipline, KeyInv, InDoubt
    <3> QED  BY <3>1, VersionTypes, SMT
  <2>2. CASE wver[w][k] # 0
    BY <1>2, <2>2, SettleMeaning DEF InDoubt
  <2> QED  BY <2>1, <2>2
<1>3. ASSUME wver' = wver, tries' = tries, Underway(w)', wpc'[w] = "final" => k \in wtodo'[w]
      PROVE  InDoubt(w, k)'
  BY <1>1, <1>3 DEF InDoubt
<1>4. ASSUME AcquireGate(w) \/ GateTimeout(w) \/ Release(w) \/ WriteReturn(w) \/ Forget(w)
      PROVE  FALSE
  <2>1. wpc[w] \in {"gate", "release", "reply", "forget"}
    BY <1>4 DEF AcquireGate, GateTimeout, Release, WriteReturn, Forget
  <2> QED  BY <2>1 DEF InDoubt, Underway
<1>5. ASSUME Retry(w) \/ WriteReply(w) \/ WriteError(w) \/ LateApply(w) \/ WriteThrough(w)
      PROVE  InDoubt(w, k)'
  <2>1. /\ wver' = wver /\ wtodo' = wtodo
        /\ wpc'[w] = wpc[w] \/ <<wpc[w], wpc'[w]>> \in Moves
    BY <1>5, MoveSteps
  <2>2. tries' = tries
    <3>1. CASE Retry(w) \/ WriteReply(w) \/ WriteError(w)
      BY <3>1 DEF Retry, WriteReply, WriteError
    <3>2. CASE LateApply(w) \/ WriteThrough(w)
      BY <3>2 DEF LateApply, WriteThrough
    <3> QED  BY <1>5, <3>1, <3>2
  <2>3. wpc'[w] = wpc[w] \/ wpc'[w] \in {"send", "through", "final", "throughStore"}
    BY <2>1, SMT DEF Moves, InDoubt, Underway
  <2>4. Underway(w)'
    BY <2>3 DEF InDoubt, Underway
  <2>5. k \in wtodo[w]
    BY <1>1 DEF OrderInv, InDoubt
  <2> QED  BY <1>3, <2>1, <2>2, <2>4, <2>5
<1>6. ASSUME InvalidateKeys(w)  PROVE InDoubt(w, k)' \/ settled'[k] = origin[k].ver
  <2>1. PICK j \in wtodo[w] :
           /\ wpc[w] \in {"pre", "final"}
           /\ \/ /\ wtodo[w] = {j} /\ wtodo'[w] = wkeys[w]
                 /\ wpc'[w] = IF wpc[w] = "pre" THEN "send" ELSE "forget"
              \/ wtodo'[w] = wtodo[w] \ {j} /\ wpc'[w] = wpc[w]
           /\ wpc[w] = "final" => Settle(w, j)
           /\ wver' = wver /\ tries' = tries
    BY <1>6, InvalidateKeysMeaning
  <2>2. wpc[w] = "final" /\ k \in wtodo[w]
    BY <2>1 DEF InDoubt, Underway
  <2>3. CASE j = k
    BY <1>2, <2>1, <2>2, <2>3
  <2>4. CASE j # k
    <3>1. wpc'[w] = "final" /\ k \in wtodo'[w]
      BY <2>1, <2>2, <2>4
    <3> QED  BY <1>3, <2>1, <3>1 DEF Underway
  <2> QED  BY <2>3, <2>4
<1>7. ASSUME WriteThroughStore(w)  PROVE settled'[k] = origin[k].ver
  <2>1. PICK j \in wkeys[w] : Settle(w, j)
    BY <1>7 DEF WriteThroughStore
  <2>2. \E i \in Keys : wkeys[w] = {i}
    BY <1>7 DEF WriteThroughStore, StripeDiscipline, WriterInv
  <2>3. j = k
    BY <2>2, SMT DEF InDoubt
  <2> QED  BY <1>2, <2>1, <2>3
<1> QED  BY <1>4, <1>5, <1>6, <1>7 DEF WritesOfOne, WriterStep

LEMMA CalmStep ==
  ASSUME TypeOK, TypeOK', StripeDiscipline, Calm, GatesKept, OrderKept, LatesKept, CalmKept,
         NEW w \in Writers, WritesOfOne(w), ~Dispatch(w)
  PROVE  CalmKept'
<1>1. origin' = origin /\ OthersKept(w) /\ wkeys' = wkeys
  BY CalmOrigin, StepsAreLocal
<1>2. wver' = wver /\ (Underway(w)' => Underway(w) \/ wpc[w] = "pre")
  <2>1. ASSUME InvalidateKeys(w)
        PROVE  wver' = wver /\ (Underway(w) \/ wpc[w] = "pre")
    BY <2>1, InvalidateKeysMeaning DEF Underway
  <2>2. ASSUME AcquireGate(w) \/ Forget(w) \/ WriteThroughStore(w)
        PROVE  wver' = wver /\ ~Underway(w)'
    <3>1. wpc \in [Writers -> WriterPC]
      BY DEF TypeOK, TypeWriter
    <3>2. CASE AcquireGate(w)
      BY <3>1, <3>2, SMT DEF AcquireGate, WGoto, Underway
    <3>3. CASE Forget(w)
      BY <3>1, <3>3, SMT DEF Forget, WGoto, Underway
    <3>4. CASE WriteThroughStore(w)
      BY <3>1, <3>4, SMT DEF WriteThroughStore, WGoto, Underway
    <3> QED  BY <2>2, <3>2, <3>3, <3>4
  <2>3. ASSUME wpc'[w] = wpc[w] \/ <<wpc[w], wpc'[w]>> \in Moves
        PROVE  Underway(w)' => Underway(w)
    BY <2>3, SMT DEF Moves, Underway
  <2> QED  BY <2>1, <2>2, <2>3, MoveSteps DEF WritesOfOne, WriterStep
<1>3. ASSUME NEW v \in Writers  PROVE CurrentInv(v)'
  <2>1. CurrentInv(v) /\ OrderInv(v)
    BY DEF CalmKept, OrderKept
  <2>2. CASE v = w
    <3>1. wpc[w] = "pre" => \A k \in Keys : wver[w][k] = 0
      BY <2>1, <2>2 DEF OrderInv
    <3> QED  BY <1>1, <1>2, <2>1, <2>2, <3>1, WriterTypes DEF CurrentInv
  <2>3. CASE v # w
    BY <1>1, <1>2, <2>1, <2>3 DEF CurrentInv, OthersKept, Kept, Underway
  <2> QED  BY <2>2, <2>3
<1>4. ASSUME NEW k \in Keys  PROVE Accounted(k)'
  <2>1. CASE settled[k] = origin[k].ver
    <3>1. ASSUME Finalizes(w, k)  PROVE settled'[k] = origin[k].ver
      BY <3>1 DEF Finalizes, CalmKept, CurrentInv, Underway
    <3>2. settled'[k] = origin[k].ver
      BY <2>1, <3>1, SettledStep
    <3> QED  BY <1>1, <3>2 DEF Accounted
  <2>2. ASSUME NEW v \in Writers \ {w}, InDoubt(v, k)  PROVE InDoubt(v, k)'
    BY <1>1, <2>2 DEF InDoubt, OthersKept, Kept, Underway
  <2>3. ASSUME InDoubt(w, k)  PROVE Accounted(k)'
    <3>1. InDoubt(w, k)' \/ settled'[k] = origin[k].ver
      BY <1>1, <2>3, DoubtEnds
    <3> QED  BY <1>1, <3>1 DEF Accounted
  <2> QED  BY <2>1, <2>2, <2>3 DEF CalmKept, Accounted
<1> QED  BY <1>3, <1>4 DEF CalmKept
-----------------------------------------------------------------------------
(* All steps.                                                              *)

LEMMA WriteDisciplineParts ==
  WriteDiscipline <=> /\ GatesKept /\ OrderKept /\ AckedKept /\ LatesKept
                      /\ Calm => CalmKept
BY DEF WriteDiscipline, GatesKept, OrderKept, AckedKept, LatesKept, CalmKept, CurrentInv, Accounted

LEMMA WritersKeepWriteDiscipline ==
  ASSUME TypeOK, TypeOK', StripeDiscipline, WriteDiscipline, NEW w \in Writers, WritesOfOne(w)
  PROVE  WriteDiscipline'
<1>1. /\ GatesKept /\ OrderKept /\ AckedKept /\ LatesKept
      /\ Calm => CalmKept
  BY WriteDisciplineParts
<1>2. OrderKept'
  BY <1>1, OrderOwn, OrderOthers DEF OrderKept
<1>3. GatesKept' /\ AckedKept' /\ LatesKept'
  BY <1>1, GatesStep, AckedStep, LatesStep
<1>4. Calm => CalmKept'
  BY <1>1, CalmDispatch, CalmStep
<1> QED
  BY <1>2, <1>3, <1>4 DEF WriteDiscipline, GatesKept, OrderKept, AckedKept, LatesKept, CalmKept,
                          CurrentInv, Accounted, Calm

\* Whoever leaves the write side alone preserves its discipline.
LEMMA WriteDisciplineFrame ==
  ASSUME WriteDiscipline, UNCHANGED <<origin, gate, writerVars, settled, acked>>
  PROVE  WriteDiscipline'
<1>1. /\ origin' = origin /\ gate' = gate /\ settled' = settled /\ acked' = acked
      /\ wpc' = wpc /\ wkeys' = wkeys /\ held' = held /\ wtodo' = wtodo /\ wver' = wver
      /\ late' = late /\ tries' = tries
  BY SMT DEF writerVars
<1>2. ASSUME NEW w \in Writers  PROVE GateInv(w)' /\ OrderInv(w)'
  <2>1. GateInv(w) /\ OrderInv(w)
    BY DEF WriteDiscipline
  <2>2. GateInv(w)'
    BY <1>1, <2>1 DEF GateInv, Gated, Needed
  <2>3. OrderInv(w)'
    BY <1>1, <2>1 DEF OrderInv, Underway, Finalized
  <2> QED  BY <2>2, <2>3
<1>3. \A w \in Writers, k \in Keys : InDoubt(w, k) => InDoubt(w, k)'
  BY <1>1 DEF InDoubt, Underway
<1> QED  BY <1>1, <1>2, <1>3 DEF WriteDiscipline, Calm, Underway

LEMMA ExternalWriteKeepsWriteDiscipline ==
  ASSUME WriteDiscipline, NEW k \in Keys, ExternalWrite(k)
  PROVE  WriteDiscipline'
<1>1. /\ gate' = gate /\ settled' = settled /\ acked' = acked
      /\ wpc' = wpc /\ wkeys' = wkeys /\ held' = held /\ wtodo' = wtodo /\ wver' = wver
      /\ late' = late
  BY SMT DEF ExternalWrite, writerVars, histVars
<1>2. ASSUME NEW w \in Writers  PROVE GateInv(w)' /\ OrderInv(w)'
  <2>1. GateInv(w) /\ OrderInv(w)
    BY DEF WriteDiscipline
  <2>2. GateInv(w)'
    BY <1>1, <2>1 DEF GateInv, Gated, Needed
  <2>3. OrderInv(w)'
    BY <1>1, <2>1 DEF OrderInv, Underway, Finalized
  <2> QED  BY <2>2, <2>3
<1>3. ~Calm
  BY DEF ExternalWrite, Calm
<1> QED  BY <1>1, <1>2, <1>3 DEF WriteDiscipline, Calm

LEMMA ReadersFrame ==
  ASSUME NEW r \in Readers, ReaderStep(r) \/ ReadTimeout(r)
  PROVE  ReaderFrame
<1>1. ASSUME HandleObservation(r) \/ LookProtected(r) \/ LookProbationary(r) \/ RecheckHot(r)
             \/ LoadPromotionFlag(r) \/ LookProtectedLocked(r) \/ TakeStripe(r)
      PROVE  LookupFrame
  BY <1>1 DEF HandleObservation, LookProtected, LookProbationary, RecheckHot, LoadPromotionFlag,
              LookProtectedLocked, TakeStripe
<1>2. ASSUME AdmitCandidate(r) \/ SetPromotionFlag(r) \/ RemoveCandidate(r)
             \/ PromoteCandidate(r) \/ ClearPromotionFlag(r) \/ HandleAdmission(r)
      PROVE  LookupFrame
  BY <1>2 DEF AdmitCandidate, SetPromotionFlag, RemoveCandidate, PromoteCandidate,
              ClearPromotionFlag, HandleAdmission
<1>3. ASSUME Join(r) \/ Receive(r) \/ ReadTimeout(r) \/ FetchBypass(r) \/ FetchMissing(r)
             \/ FinishMGet(r) \/ StaleFallback(r)
      PROVE  AnswerFrame
  BY <1>3 DEF Join, Receive, ReadTimeout, FetchBypass, FetchMissing, FinishMGet, StaleFallback
<1>4. ASSUME Observe(r) \/ Miss(r)  PROVE ReaderFrame
  BY <1>4 DEF Observe, Miss
<1>5. (LookupFrame => ReaderFrame) /\ (AnswerFrame => ReaderFrame)
  BY DEF LookupFrame, AnswerFrame
<1> QED  BY <1>1, <1>2, <1>3, <1>4, <1>5 DEF ReaderStep

LEMMA FillsFrame ==
  ASSUME NEW r \in Readers, FillStep(r)
  PROVE  FillFrame
BY DEF FillStep, FlightFetch, FillCheck, FillDrop, FillStore, FlightDone

LEMMA AdminsFrame ==
  ASSUME NEW a \in Admins, AdminStep(a)
  PROVE  AdminFrame
BY DEF AdminStep, AdvanceTracker, HandleTransitions, PurgeKey, ForgetPurged, LockAllStripes,
       PurgeTier, AdvanceEpochs, CloseService

WriteSideKept == UNCHANGED <<origin, gate, writerVars, settled, acked>>

LEMMA WriteSideSteps ==
  ASSUME [Next]_vars
  PROVE  \/ WriteSideKept
         \/ \E w \in Writers : WritesOfOne(w)
         \/ \E k \in Keys : ExternalWrite(k)
<1>1. ASSUME NEW r \in Readers, ReaderStep(r) \/ ReadTimeout(r) \/ FillStep(r)
      PROVE  WriteSideKept
  <2>1. ReaderFrame \/ FillFrame
    BY <1>1, ReadersFrame, FillsFrame
  <2> QED  BY <2>1 DEF WriteSideKept, ReaderFrame, FillFrame, histVars
<1>2. ASSUME NEW a \in Admins, AdminStep(a)  PROVE WriteSideKept
  BY <1>2, AdminsFrame DEF WriteSideKept, AdminFrame
<1>3. ASSUME NEW k \in Keys, Expire(k)  PROVE WriteSideKept
  BY <1>3, SMT DEF WriteSideKept, Expire
<1>4. ASSUME Idle \/ UNCHANGED vars  PROVE WriteSideKept
  BY <1>4, SMT DEF WriteSideKept, Idle, vars, sharedVars, histVars
<1>5. ASSUME NEW w \in Writers, WriterStep(w) \/ GateTimeout(w) \/ Retry(w) \/ LateApply(w)
      PROVE  WritesOfOne(w)
  BY <1>5 DEF WritesOfOne
<1> QED  BY <1>1, <1>2, <1>3, <1>4, <1>5 DEF Next

LEMMA NextWrite ==
  ASSUME TypeOK, TypeOK', StripeDiscipline, WriteDiscipline, [Next]_vars
  PROVE  WriteDiscipline'
BY WriteSideSteps, WriteDisciplineFrame, WritersKeepWriteDiscipline,
   ExternalWriteKeepsWriteDiscipline DEF WriteSideKept

LEMMA InitWrite == ASSUME Init  PROVE WriteDiscipline
<1>1. /\ wpc = [w \in Writers |-> "gate"] /\ held = [w \in Writers |-> {}]
      /\ wtodo = [w \in Writers |-> {}] /\ wver = [w \in Writers |-> [k \in Keys |-> 0]]
      /\ gate = [s \in Stripes |-> None] /\ late = [w \in Writers |-> FALSE]
      /\ settled = [k \in Keys |-> 0] /\ acked = [k \in Keys |-> 0]
      /\ origin = [k \in Keys |-> [ver |-> 0, exists |-> TRUE]]
  BY DEF Init
<1>2. ASSUME NEW w \in Writers  PROVE GateInv(w) /\ OrderInv(w) /\ ~late[w] /\ ~Underway(w)
  <2>1. w # None
    BY ServiceAssumption
  <2>2. wpc[w] = "gate" /\ held[w] = {} /\ wtodo[w] = {} /\ ~late[w]
    BY <1>1
  <2>3. \A k \in Keys : wver[w][k] = 0
    BY <1>1
  <2>4. ~Underway(w) /\ ~Gated(w) /\ \A k : ~Finalized(w, k)
    BY <2>2 DEF Underway, Gated, Finalized
  <2>5. \A s \in Stripes : gate[s] # w
    BY <1>1, <2>1
  <2>6. \A k \in Keys \ wkeys[w] : wver[w][k] = 0
    BY <2>3
  <2> QED  BY <2>2, <2>3, <2>4, <2>5, <2>6 DEF GateInv, OrderInv
<1>3. \A k \in Keys : acked[k] <= settled[k] /\ settled[k] = origin[k].ver
  BY <1>1, SMT
<1> QED  BY <1>2, <1>3 DEF WriteDiscipline

\* The step behind FinalizedInOriginOrder.
LEMMA NextFinalizes ==
  ASSUME TypeOK, TypeOK', WriteDiscipline, [Next]_vars, NEW k \in Keys
  PROVE  settled'[k] >= settled[k]
<1>1. OrderKept /\ settled[k] \in Nat /\ settled'[k] \in Nat
  BY VersionTypes, WriteDisciplineParts DEF TypeOK, TypeHistory
<1>2. settled[k] <= settled'[k]
  <2>1. ASSUME settled' = settled  PROVE settled[k] <= settled'[k]
    BY <1>1, <2>1, SMT
  <2>2. WriteSideKept => settled' = settled
    BY SMT DEF WriteSideKept
  <2>3. ASSUME NEW j \in Keys, ExternalWrite(j)  PROVE settled' = settled
    BY <2>3, SMT DEF ExternalWrite, histVars
  <2> QED  BY <1>1, <2>1, <2>2, <2>3, WriteSideSteps, SettledGrows
<1> QED  BY <1>1, <1>2, SMT
-----------------------------------------------------------------------------
(***************************************************************************)
(* The read side.                                                          *)
(***************************************************************************)
LEMMA ReadTypes ==
  ASSUME TypeOK, NEW r \in Readers
  PROVE  /\ pc[r] \in ReaderPC /\ todo[r] \subseteq Keys /\ cur[r] \in Keys
         /\ miss[r] \subseteq Keys /\ flight[r] \in Readers /\ fpc[r] \in FillPC
         /\ cand[r].ver \in Nat
         /\ \A k \in Keys : /\ floor[r][k] \in Nat /\ got[r][k].ver \in Nat
                            /\ res[r][k] \in Nat \cup {NoResult}
<1>1. cand[r] \in Entry /\ \A k \in Keys : got[r][k] \in Value
  BY DEF TypeOK, TypeReader, TypeFill
<1>2. cand[r].ver \in Nat /\ \A k \in Keys : got[r][k].ver \in Nat
  BY <1>1 DEF Entry, Value
<1>3. \A k \in Keys : floor[r][k] \in Nat /\ res[r][k] \in Nat \cup {NoResult}
  BY DEF TypeOK, TypeReader, TypeHistory
<1> QED  BY <1>2, <1>3 DEF TypeOK, TypeReader, TypeFill

\* What is no older than the last finalized write of a key is no older than
\* what was acknowledged, now or when a request began with the key.
LEMMA Recent ==
  ASSUME TypeOK, StripeDiscipline, WriteDiscipline, ReadDiscipline, NEW r \in Readers,
         NEW k \in Keys
  PROVE  /\ \A v \in Nat : v >= settled[k] => v >= acked[k] /\ v >= floor[r][k]
         /\ \A v \in Nat : v >= acked[k] => v >= floor[r][k]
         /\ origin[k].ver >= settled[k]
         /\ \A w \in Writers : origin[k].ver >= wver[w][k]
<1>1. settled[k] \in Nat /\ acked[k] \in Nat /\ origin[k].ver \in Nat /\ floor[r][k] \in Nat
  BY VersionTypes, ReadTypes
<1>2. acked[k] <= settled[k]
  BY DEF WriteDiscipline
<1>3. settled[k] <= origin[k].ver
  BY DEF StripeDiscipline, KeyInv
<1>4. floor[r][k] <= acked[k]
  BY DEF ReadDiscipline, FloorInv
<1>5. /\ \A v \in Nat : v >= settled[k] => v >= acked[k] /\ v >= floor[r][k]
      /\ \A v \in Nat : v >= acked[k] => v >= floor[r][k]
      /\ origin[k].ver >= settled[k]
  BY <1>1, <1>2, <1>3, <1>4, SMT
<1>6. ASSUME NEW w \in Writers
      PROVE  origin[k].ver >= wver[w][k]
  <2>1. wver[w][k] <= origin[k].ver
    BY DEF StripeDiscipline, WriterInv
  <2>2. wver[w][k] \in Nat
    BY WriterTypes
  <2> QED  BY <1>1, <2>1, <2>2, SMT
<1> QED  BY <1>5, <1>6

LEMMA CopiesRecent ==
  ASSUME TypeOK, StripeDiscipline, WriteDiscipline, ReadDiscipline, NEW r \in Readers,
         NEW k \in Keys
  PROVE  /\ prot[k].ver \in Nat /\ prob[k].ver \in Nat /\ origin[k].ver \in Nat
         /\ Present(prot[k]) => prot[k].ver >= floor[r][k]
         /\ Present(prob[k]) => prob[k].ver >= floor[r][k]
         /\ origin[k].ver >= floor[r][k] /\ origin[k].ver >= acked[k]
<1>1. prot[k] \in Entry /\ prob[k] \in Entry
  BY DEF TypeOK, TypeShared
<1>2. prot[k].ver \in Nat /\ prob[k].ver \in Nat /\ origin[k].ver \in Nat
  BY <1>1, VersionTypes DEF Entry
<1>3. /\ Present(prot[k]) => prot[k].ver >= settled[k]
      /\ Present(prob[k]) => prob[k].ver >= settled[k]
  BY DEF StripeDiscipline, KeyInv
<1> QED  BY <1>2, <1>3, Recent

\* What a step leaves of a request.
RequestKept(r) == /\ pc'[r] = pc[r] /\ todo'[r] = todo[r] /\ cur'[r] = cur[r]
                  /\ cand'[r] = cand[r] /\ res'[r] = res[r] /\ floor'[r] = floor[r]
                  /\ flight'[r] = flight[r]

AckedGrow == \A k \in Keys : acked'[k] >= acked[k]

LEMMA KeptFloor ==
  ASSUME TypeOK, TypeOK', NEW r \in Readers, FloorInv(r), RequestKept(r), AckedGrow
  PROVE  FloorInv(r)'
<1>1. ASSUME NEW k \in Keys
      PROVE  floor'[r][k] <= acked'[k]
  <2>1. floor[r][k] <= acked[k] /\ floor'[r][k] = floor[r][k] /\ acked'[k] >= acked[k]
    BY DEF FloorInv, RequestKept, AckedGrow
  <2>2. floor[r][k] \in Nat /\ acked[k] \in Nat /\ acked'[k] \in Nat
    BY ReadTypes, VersionTypes DEF TypeOK, TypeHistory
  <2> QED  BY <2>1, <2>2, SMT
<1>2. /\ \A k \in Keys : res'[r][k] # NoResult => res'[r][k] >= floor'[r][k]
      /\ pc'[r] \in LookupPC => \A k \in todo'[r] : res'[r][k] = NoResult
      /\ pc'[r] \in LookupPC \ {"next"} => cur'[r] \notin todo'[r]
  BY DEF FloorInv, RequestKept
<1>3. pc'[r] \in Holding \cup {"admitted"} /\ Present(cand'[r]) =>
        cand'[r].ver >= floor'[r][cur'[r]]
  BY DEF FloorInv, RequestKept
<1> QED  BY <1>1, <1>2, <1>3 DEF FloorInv

\* The steps of a request before it turns to the origin.
LookupStep(r) ==
  \/ HandleObservation(r) \/ LookProtected(r) \/ LookProbationary(r) \/ RecheckHot(r)
  \/ LoadPromotionFlag(r) \/ LookProtectedLocked(r) \/ TakeStripe(r) \/ AdmitCandidate(r)
  \/ SetPromotionFlag(r) \/ RemoveCandidate(r) \/ PromoteCandidate(r)
  \/ ClearPromotionFlag(r) \/ HandleAdmission(r)

\* The label it goes to, and its answer: none yet, or a version v for its key.
Answered(r, v) == res' = [res EXCEPT ![r][cur[r]] = v]
Looking == LookupPC \ {"next"}

LEMMA LookupStepFrame ==
  ASSUME NEW r \in Readers, LookupStep(r)
  PROVE  LookupFrame /\ pc[r] \in Looking
<1>1. LookupFrame
  BY DEF LookupStep, HandleObservation, LookProtected, LookProbationary, RecheckHot,
       LoadPromotionFlag, LookProtectedLocked, TakeStripe, AdmitCandidate, SetPromotionFlag,
       RemoveCandidate, PromoteCandidate, ClearPromotionFlag, HandleAdmission
<1>2. pc[r] \in Looking
  BY DEF LookupStep, HandleObservation, LookProtected, LookProbationary, RecheckHot,
       LoadPromotionFlag, LookProtectedLocked, TakeStripe, AdmitCandidate, SetPromotionFlag,
       RemoveCandidate, PromoteCandidate, ClearPromotionFlag, HandleAdmission, Looking,
       LookupPC, ReaderPC
<1> QED  BY <1>1, <1>2

LEMMA GoesOn ==
  ASSUME TypeOK, NEW r \in Readers, NEW label, Goto(r, label)
  PROVE  pc'[r] = label /\ \A q \in Readers \ {r} : pc'[q] = pc[q]
BY DEF TypeOK, TypeReader, Goto

\* A step of the lookup ends it with an answer that is recent enough, or goes
\* on; the candidate it keeps in hand is recent enough.
LookupGoesOn(r) ==
  /\ pc'[r] \in LookupPC \cup {"mfetch", "done"}
  /\ \A q \in Readers \ {r} : pc'[q] = pc[q] /\ cand'[q] = cand[q]
  /\ res' = res \/ \E v \in Nat : v >= floor[r][cur[r]] /\ Answered(r, v)
  /\ pc'[r] \in Holding \cup {"admitted"} /\ Present(cand'[r]) =>
       cand'[r].ver >= floor[r][cur[r]]

LEMMA HitGoesOn ==
  ASSUME TypeOK, NEW r \in Readers, NEW v \in Nat, v >= floor[r][cur[r]], Hit(r, v),
         cand' = cand
  PROVE  LookupGoesOn(r)
<1>1. AfterKey(r, miss[r]) \in {"next", "mfetch", "done"}
  BY DEF AfterKey
<1>2. pc'[r] \in {"next", "mfetch", "done"} /\ \A q \in Readers \ {r} : pc'[q] = pc[q]
  BY <1>1, GoesOn DEF Hit
<1>3. Answered(r, v)
  BY DEF Hit, Answered
<1> QED  BY <1>2, <1>3 DEF LookupGoesOn, LookupPC, ReaderPC, Holding

LEMMA NoHitGoesOn ==
  ASSUME TypeOK, NEW r \in Readers, NEW label \in LookupPC, NoHit(r, label),
         \A q \in Readers \ {r} : cand'[q] = cand[q],
         label \in Holding \cup {"admitted"} /\ Present(cand'[r]) =>
           cand'[r].ver >= floor[r][cur[r]]
  PROVE  LookupGoesOn(r)
<1>1. pc'[r] = label /\ \A q \in Readers \ {r} : pc'[q] = pc[q]
  BY GoesOn DEF NoHit
<1>2. res' = res
  BY DEF NoHit
<1> QED  BY <1>1, <1>2 DEF LookupGoesOn

LEMMA AfterPromotionGoesOn ==
  ASSUME TypeOK, NEW r \in Readers, NEW D, AfterPromotion(r, D, cand'[r]),
         \A q \in Readers \ {r} : cand'[q] = cand[q], cand'[r] \in Entry,
         Present(cand'[r]) => cand'[r].ver >= floor[r][cur[r]] /\ cand' = cand
  PROVE  LookupGoesOn(r)
<1>1. {"admitted", "miss"} \subseteq LookupPC
  BY DEF LookupPC, ReaderPC
<1>2. CASE NoHit(r, "admitted") \/ NoHit(r, "miss")
  BY <1>1, <1>2, NoHitGoesOn
<1>3. CASE Hit(r, cand'[r].ver) /\ Present(cand'[r])
  <2>1. cand'[r].ver \in Nat
    BY DEF Entry
  <2> QED  BY <1>3, <2>1, HitGoesOn
<1> QED  BY <1>2, <1>3 DEF AfterPromotion

LEMMA LookupSteps ==
  ASSUME TypeOK, StripeDiscipline, WriteDiscipline, ReadDiscipline, NEW r \in Readers,
         LookupStep(r)
  PROVE  LookupGoesOn(r)
<1> DEFINE k == cur[r]
<1>0. k \in Keys /\ cand \in [Readers -> Entry]
  BY ReadTypes DEF TypeOK, TypeReader
<1>1. /\ pc[r] \in Holding \cup {"admitted"} /\ Present(cand[r]) => cand[r].ver >= floor[r][k]
      /\ Present(prot[k]) => prot[k].ver >= floor[r][k] /\ prot[k].ver \in Nat
      /\ Present(prob[k]) => prob[k].ver >= floor[r][k]
  BY <1>0, CopiesRecent DEF ReadDiscipline, FloorInv
<1>2. \A label \in {"obs", "lookProt", "lookProb", "miss", "recheck", "lockCand", "flag",
                    "lockProt", "lateProt", "admit", "flagOn", "takeCand", "promote",
                    "flagOff", "admitted"} : label \in LookupPC
  BY DEF LookupPC, ReaderPC
<1>3. ASSUME cand' = cand,
             \E label \in {"obs", "lookProt", "lookProb", "miss", "recheck", "lockCand", "flag",
                           "lockProt", "lateProt"} : NoHit(r, label)
      PROVE  LookupGoesOn(r)
  <2>1. PICK label \in {"obs", "lookProt", "lookProb", "miss", "recheck", "lockCand", "flag",
                        "lockProt", "lateProt"} : NoHit(r, label)
    BY <1>3
  <2>2. label \notin Holding \cup {"admitted"} /\ label \in LookupPC
    BY <1>2 DEF Holding
  <2> QED  BY <1>3, <2>1, <2>2, NoHitGoesOn
<1>4. ASSUME cand' = cand, Hit(r, prot[k].ver), Fresh(prot[k])
      PROVE  LookupGoesOn(r)
  <2>1. Present(prot[k])
    BY <1>4 DEF Present, Fresh
  <2> QED  BY <1>1, <1>4, <2>1, HitGoesOn
<1>5. ASSUME cand' = cand, pc[r] \in Holding \cup {"admitted"},
             \E label \in {"flagOn", "takeCand", "promote", "flagOff"} : NoHit(r, label)
      PROVE  LookupGoesOn(r)
  <2>1. PICK label \in {"flagOn", "takeCand", "promote", "flagOff"} : NoHit(r, label)
    BY <1>5
  <2>2. label \in LookupPC
    BY <1>2
  <2> QED  BY <1>1, <1>5, <2>1, <2>2, NoHitGoesOn
<1>6. CASE HandleObservation(r)
  <2>1. Lookup(k, hot[r]) \in {"miss", "lookProt", "lookProb"}
    BY DEF Lookup
  <2>2. cand' = cand /\ NoHit(r, IF pend'[r] = {} THEN Lookup(k, hot[r]) ELSE "obs")
    BY <1>6 DEF HandleObservation
  <2> QED  BY <1>3, <2>1, <2>2
<1>7. CASE LookProtected(r)
  <2>1. /\ cand' = cand
        /\ \/ Fresh(prot[k]) /\ Hit(r, prot[k].ver)
           \/ NoHit(r, "lookProb") \/ NoHit(r, "miss")
    BY <1>7 DEF LookProtected
  <2> QED  BY <1>3, <1>4, <2>1
<1>8. CASE LookProbationary(r)
  <2>1. cand' = cand /\ (NoHit(r, "miss") \/ NoHit(r, "lockCand") \/ NoHit(r, "recheck"))
    BY <1>8 DEF LookProbationary
  <2> QED  BY <1>3, <2>1
<1>9. CASE RecheckHot(r) \/ LoadPromotionFlag(r)
  <2>1. cand' = cand /\ \/ NoHit(r, "flag") \/ NoHit(r, "miss")
                        \/ NoHit(r, "lockProt") \/ NoHit(r, "lateProt")
    BY <1>9 DEF RecheckHot, LoadPromotionFlag
  <2> QED  BY <1>3, <2>1
<1>10. CASE LookProtectedLocked(r)
  <2>1. /\ cand' = cand
        /\ (Fresh(prot[k]) /\ Hit(r, prot[k].ver)) \/ NoHit(r, "miss")
    BY <1>10 DEF LookProtectedLocked
  <2> QED  BY <1>3, <1>4, <2>1
<1>11. CASE TakeStripe(r)
  <2>1. \/ cand' = cand /\ Fresh(prot[k]) /\ Hit(r, prot[k].ver)
        \/ cand' = cand /\ NoHit(r, "miss")
        \/ Fresh(prob[k]) /\ NoHit(r, "admit") /\ cand' = [cand EXCEPT ![r] = prob[k]]
    BY <1>11 DEF TakeStripe
  <2>2. ASSUME Fresh(prob[k]), NoHit(r, "admit"), cand' = [cand EXCEPT ![r] = prob[k]]
        PROVE  LookupGoesOn(r)
    <3>1. cand'[r] = prob[k] /\ \A q \in Readers \ {r} : cand'[q] = cand[q]
      BY <1>0, <2>2
    <3>2. cand'[r].ver >= floor[r][k]
      BY <1>1, <2>2, <3>1 DEF Present, Fresh
    <3>3. "admit" \in LookupPC
      BY <1>2
    <3> QED  BY <2>2, <3>1, <3>2, <3>3, NoHitGoesOn
  <2> QED  BY <1>3, <1>4, <2>1, <2>2
<1>12. CASE AdmitCandidate(r)
  <2>1. /\ cand' = cand /\ pc[r] = "admit"
        /\ NoHit(r, "flagOn") \/ NoHit(r, "takeCand")
    BY <1>12 DEF AdmitCandidate
  <2> QED  BY <1>5, <2>1 DEF Holding
<1>13. CASE SetPromotionFlag(r)
  <2>1. cand' = cand /\ pc[r] = "flagOn" /\ NoHit(r, "takeCand")
    BY <1>13 DEF SetPromotionFlag
  <2> QED  BY <1>5, <2>1 DEF Holding
<1>14. CASE RemoveCandidate(r)
  <2>1. /\ pc[r] = "takeCand"
        /\ \/ cand' = cand /\ NoHit(r, "promote")
           \/ /\ cand' = [cand EXCEPT ![r] = NoEntry]
              /\ AfterPromotion(r, pend[r], NoEntry)
    BY <1>14 DEF RemoveCandidate
  <2>2. CASE cand' = cand /\ NoHit(r, "promote")
    BY <1>5, <2>1, <2>2 DEF Holding
  <2>3. CASE cand' = [cand EXCEPT ![r] = NoEntry] /\ AfterPromotion(r, pend[r], NoEntry)
    <3>1. cand'[r] = NoEntry /\ \A q \in Readers \ {r} : cand'[q] = cand[q]
      BY <1>0, <2>3
    <3>2. NoHit(r, "admitted") \/ NoHit(r, "miss")
      BY <2>3 DEF AfterPromotion, Present, NoEntry
    <3>3. ~Present(NoEntry) /\ "admitted" \in LookupPC /\ "miss" \in LookupPC
      BY <1>2 DEF Present, NoEntry
    <3>4. ~Present(cand'[r])
      BY <3>1, <3>3
    <3> QED  BY <3>1, <3>2, <3>3, <3>4, NoHitGoesOn
  <2> QED  BY <2>1, <2>2, <2>3
<1>15. CASE PromoteCandidate(r)
  <2>1. /\ pc[r] = "promote" /\ NoHit(r, "flagOff")
        /\ \/ cand' = [cand EXCEPT ![r] = cand[r]] \/ cand' = [cand EXCEPT ![r] = NoEntry]
    BY <1>15 DEF PromoteCandidate
  <2>2. /\ cand'[r] = cand[r] \/ cand'[r] = NoEntry
        /\ \A q \in Readers \ {r} : cand'[q] = cand[q]
    BY <1>0, <2>1
  <2>3. ~Present(NoEntry) /\ pc[r] \in Holding /\ "flagOff" \in LookupPC
    BY <1>2, <2>1 DEF Present, NoEntry, Holding
  <2>4. Present(cand'[r]) => cand'[r].ver >= floor[r][k]
    BY <1>1, <2>2, <2>3
  <2> QED  BY <2>1, <2>2, <2>3, <2>4, NoHitGoesOn
<1>16. CASE ClearPromotionFlag(r) \/ HandleAdmission(r)
  <2>1. /\ pc[r] \in {"flagOff", "admitted"} /\ cand' = cand
        /\ \E D : AfterPromotion(r, D, cand[r])
    BY <1>16 DEF ClearPromotionFlag, HandleAdmission
  <2>2. pc[r] \in Holding \cup {"admitted"} /\ cand'[r] = cand[r] /\ cand'[r] \in Entry
    BY <1>0, <2>1 DEF Holding
  <2>3. PICK D : AfterPromotion(r, D, cand'[r])
    BY <2>1, <2>2
  <2> QED  BY <1>1, <2>1, <2>2, <2>3, AfterPromotionGoesOn
<1> QED
  BY <1>6, <1>7, <1>8, <1>9, <1>10, <1>11, <1>12, <1>13, <1>14, <1>15, <1>16 DEF LookupStep

LEMMA LookupFloors ==
  ASSUME TypeOK, TypeOK', StripeDiscipline, WriteDiscipline, ReadDiscipline, NEW r \in Readers,
         LookupStep(r)
  PROVE  /\ FloorInv(r)' /\ pc'[r] # "wait"
         /\ \A q \in Readers \ {r} : RequestKept(q)
<1>1. LookupFrame /\ pc[r] \in Looking /\ LookupGoesOn(r)
  BY LookupStepFrame, LookupSteps
<1>2. todo' = todo /\ cur' = cur /\ floor' = floor /\ flight' = flight /\ acked' = acked
  BY <1>1 DEF LookupFrame, ReaderFrame
<1>3. res \in [Readers -> [Keys -> Nat \cup {NoResult}]] /\ cur[r] \in Keys
  BY ReadTypes DEF TypeOK, TypeReader
<1>4. FloorInv(r)
  BY DEF ReadDiscipline
<1>5. ASSUME NEW q \in Readers \ {r}
      PROVE  RequestKept(q)
  <2>1. res'[q] = res[q]
    BY <1>1, <1>3 DEF LookupGoesOn, Answered
  <2> QED  BY <1>1, <1>2, <2>1 DEF LookupGoesOn, RequestKept
<1>6. FloorInv(r)'
  <2>1. \A k \in Keys : floor'[r][k] <= acked'[k]
    BY <1>2, <1>4 DEF FloorInv
  <2>2. ASSUME NEW k \in Keys
        PROVE  res'[r][k] = res[r][k] \/ (k = cur[r] /\ res'[r][k] >= floor[r][k])
    <3>1. ASSUME NEW v \in Nat, v >= floor[r][cur[r]], Answered(r, v)
          PROVE  res'[r][k] = res[r][k] \/ (k = cur[r] /\ res'[r][k] >= floor[r][k])
      BY <1>3, <3>1 DEF Answered
    <3> QED  BY <1>1, <3>1 DEF LookupGoesOn
  <2>3. \A k \in Keys : res'[r][k] # NoResult => res'[r][k] >= floor'[r][k]
    BY <1>2, <1>4, <2>2 DEF FloorInv
  <2>4. pc[r] \in LookupPC /\ cur[r] \notin todo[r] /\ todo[r] \subseteq Keys
    BY <1>1, <1>4, ReadTypes DEF FloorInv, Looking
  <2>5. \A k \in todo[r] : res[r][k] = NoResult
    BY <1>4, <2>4 DEF FloorInv
  <2>6. \A k \in todo'[r] : res'[r][k] = NoResult
    BY <1>2, <2>2, <2>4, <2>5
  <2>7. cur'[r] \notin todo'[r]
    BY <1>2, <2>4
  <2>8. pc'[r] \in Holding \cup {"admitted"} /\ Present(cand'[r]) =>
          cand'[r].ver >= floor'[r][cur'[r]]
    BY <1>1, <1>2 DEF LookupGoesOn
  <2> QED  BY <2>1, <2>3, <2>6, <2>7, <2>8 DEF FloorInv
<1>7. pc'[r] # "wait"
  BY <1>1 DEF LookupGoesOn, LookupPC
<1> QED  BY <1>5, <1>6, <1>7

\* The other steps of a request: they leave the others alone, what they answer
\* with is recent enough, and a request waits only for the flight it joined.
JoinsFlight(r) ==
  \/ flight'[r] = r /\ fpc'[r] = "fetch"
  \/ /\ group[cur[r]] = flight'[r] /\ flight'[r] \in Readers
     /\ fpc' = fpc /\ got' = got /\ ferr' = ferr

LEMMA ObserveFloors ==
  ASSUME TypeOK, TypeOK', ReadDiscipline, NEW r \in Readers, Observe(r)
  PROVE  /\ FloorInv(r)' /\ pc'[r] # "wait"
         /\ \A q \in Readers \ {r} : RequestKept(q)
<1>1. pc[r] = "next" /\ res' = res /\ cand' = cand /\ flight' = flight /\ acked' = acked
  BY DEF Observe, ReaderFrame
<1>2. PICK k \in todo[r] :
        /\ todo' = [todo EXCEPT ![r] = @ \ {k}]
        /\ cur' = [cur EXCEPT ![r] = k]
        /\ floor' = [floor EXCEPT ![r][k] = acked[k]]
        /\ \/ Goto(r, "miss")
           \/ \E D : Goto(r, IF D = {} THEN Lookup(k, track'[k] = "hot") ELSE "obs")
  BY DEF Observe
<1>3. PICK label \in {"miss", "obs", "lookProt", "lookProb"} : Goto(r, label)
  <2>1. Lookup(k, track'[k] = "hot") \in {"miss", "lookProt", "lookProb"}
    BY DEF Lookup
  <2> QED  BY <1>2, <2>1
<1>4. pc'[r] = label /\ \A q \in Readers \ {r} : pc'[q] = pc[q]
  BY <1>3, GoesOn
<1>5. /\ todo'[r] = todo[r] \ {k} /\ cur'[r] = k
      /\ \A q \in Readers \ {r} : todo'[q] = todo[q] /\ cur'[q] = cur[q]
  BY <1>2 DEF TypeOK, TypeReader
<1>6. /\ floor'[r] = [floor[r] EXCEPT ![k] = acked[k]]
      /\ \A q \in Readers \ {r} : floor'[q] = floor[q]
  BY <1>2 DEF TypeOK, TypeHistory
<1>7. \A j \in Keys : floor'[r][j] = IF j = k THEN acked[k] ELSE floor[r][j]
  BY <1>6 DEF TypeOK, TypeHistory
<1>8. FloorInv(r) /\ k \in Keys /\ acked[k] \in Nat
  BY <1>2, ReadTypes, VersionTypes DEF ReadDiscipline
<1>9. acked[k] <= acked[k]
  BY <1>8, SMT
<1>10. \A j \in todo[r] : res[r][j] = NoResult
  BY <1>1, <1>8 DEF FloorInv, LookupPC, ReaderPC
<1>11. \A j \in Keys : floor'[r][j] <= acked'[j]
  BY <1>1, <1>7, <1>8, <1>9 DEF FloorInv
<1>12. \A j \in Keys : res'[r][j] # NoResult => res'[r][j] >= floor'[r][j]
  BY <1>1, <1>2, <1>7, <1>8, <1>10 DEF FloorInv
<1>13. /\ \A j \in todo'[r] : res'[r][j] = NoResult
       /\ cur'[r] \notin todo'[r]
       /\ pc'[r] \notin Holding \cup {"admitted", "wait"}
  BY <1>1, <1>4, <1>5, <1>10 DEF Holding
<1>14. FloorInv(r)'
  BY <1>11, <1>12, <1>13 DEF FloorInv
<1> QED  BY <1>1, <1>4, <1>5, <1>6, <1>13, <1>14 DEF RequestKept

\* What is left of a request after its lookup.
LEMMA OutsideLookup ==
  ASSUME NEW r \in Readers, pc'[r] \in {"mfetch", "done", "join", "fetch", "wait", "stale", "fill"},
         \A k \in Keys : floor'[r][k] <= acked'[k],
         \A k \in Keys : res'[r][k] # NoResult => res'[r][k] >= floor'[r][k]
  PROVE  FloorInv(r)'
BY DEF FloorInv, LookupPC, Holding

OriginStep(r) ==
  \/ Miss(r) \/ Join(r) \/ Receive(r) \/ ReadTimeout(r) \/ FetchBypass(r) \/ FetchMissing(r)
  \/ FinishMGet(r) \/ StaleFallback(r)

LEMMA OriginStepFrame ==
  ASSUME TypeOK, NEW r \in Readers, OriginStep(r)
  PROVE  /\ cur' = cur /\ cand' = cand /\ floor' = floor /\ acked' = acked
         /\ \A q \in Readers \ {r} : RequestKept(q)
<1>0. /\ pc \in [Readers -> ReaderPC] /\ todo \in [Readers -> SUBSET Keys]
      /\ res \in [Readers -> [Keys -> Nat \cup {NoResult}]] /\ flight \in [Readers -> Readers]
  BY DEF TypeOK, TypeReader
<1>1. cur' = cur /\ cand' = cand /\ floor' = floor /\ acked' = acked
  BY DEF OriginStep, Miss, Join, Receive, ReadTimeout, FetchBypass, FetchMissing, FinishMGet,
       StaleFallback, AnswerFrame, ReaderFrame
<1>2. pc' = pc \/ \E label : pc' = [pc EXCEPT ![r] = label]
  BY DEF OriginStep, Miss, Join, Receive, ReadTimeout, FetchBypass, FetchMissing, FinishMGet,
       StaleFallback, NoHit, ReadFailed, Goto
<1>3. todo' = todo \/ \E T : todo' = [todo EXCEPT ![r] = T]
  BY DEF OriginStep, Miss, Join, Receive, ReadTimeout, FetchBypass, FetchMissing, FinishMGet,
       StaleFallback, ReadFailed
<1>4. flight' = flight \/ \E f : flight' = [flight EXCEPT ![r] = f]
  BY DEF OriginStep, Miss, Join, Receive, ReadTimeout, FetchBypass, FetchMissing, FinishMGet,
       StaleFallback
<1>5. \/ res' = res \/ \E f : res' = [res EXCEPT ![r] = f]
      \/ \E k, v : res' = [res EXCEPT ![r][k] = v]
  BY DEF OriginStep, Miss, Join, Receive, ReadTimeout, FetchBypass, FetchMissing, FinishMGet,
       StaleFallback, NoHit, ReadFailed
<1>6. ASSUME NEW q \in Readers \ {r}
      PROVE  RequestKept(q)
  <2>1. pc'[q] = pc[q]
    BY <1>0, <1>2
  <2>2. todo'[q] = todo[q]
    BY <1>0, <1>3
  <2>3. flight'[q] = flight[q]
    BY <1>0, <1>4
  <2>4. res'[q] = res[q]
    BY <1>0, <1>5
  <2> QED  BY <1>1, <2>1, <2>2, <2>3, <2>4 DEF RequestKept
<1> QED  BY <1>1, <1>6

\* Every answer from the origin, from a flight or from the stale fallback.
LEMMA OriginAnswers ==
  ASSUME TypeOK, StripeDiscipline, WriteDiscipline, ReadDiscipline, NEW r \in Readers,
         OriginStep(r), NEW k \in Keys
  PROVE  res'[r][k] = res[r][k] \/ res'[r][k] >= floor[r][k]
<1>0. /\ res \in [Readers -> [Keys -> Nat \cup {NoResult}]] /\ cur[r] \in Keys
      /\ flight[r] \in Readers
  BY ReadTypes DEF TypeOK, TypeReader
<1>1. CASE Miss(r) \/ Join(r) \/ ReadTimeout(r) \/ FinishMGet(r)
  BY <1>1 DEF Miss, Join, ReadTimeout, FinishMGet, NoHit
<1>2. ASSUME NEW v, v >= floor[r][cur[r]], res' = [res EXCEPT ![r][cur[r]] = v]
      PROVE  res'[r][k] = res[r][k] \/ res'[r][k] >= floor[r][k]
  BY <1>0, <1>2
<1>3. CASE Receive(r)
  <2>1. CASE res' = res
    BY <2>1
  <2>2. CASE ~ferr[flight[r]] /\ res' = [res EXCEPT ![r][cur[r]] = got[flight[r]][cur[r]].ver]
    <3>1. pc[r] = "wait" /\ fpc[flight[r]] = "done"
      BY <1>3 DEF Receive
    <3>2. Fetched(flight[r])
      BY <2>2, <3>1 DEF Fetched
    <3>3. got[flight[r]][cur[r]].ver >= floor[r][cur[r]]
      BY <3>1, <3>2 DEF ReadDiscipline, FlightInv
    <3> QED  BY <1>2, <2>2, <3>3
  <2> QED  BY <1>3, <2>1, <2>2 DEF Receive, ReadFailed
<1>4. CASE FetchBypass(r)
  <2>1. res' = res \/ res' = [res EXCEPT ![r][cur[r]] = origin[cur[r]].ver]
    BY <1>4 DEF FetchBypass
  <2>2. origin[cur[r]].ver >= floor[r][cur[r]]
    BY <1>0, CopiesRecent
  <2> QED  BY <1>2, <2>1, <2>2
<1>5. CASE FetchMissing(r)
  <2>1. \/ res' = res
        \/ res' = [res EXCEPT ![r] = [j \in Keys |-> IF j \in miss[r]
                                             THEN origin[j].ver ELSE @[j]]]
    BY <1>5 DEF FetchMissing, ReadFailed
  <2>2. res'[r][k] = res[r][k] \/ res'[r][k] = origin[k].ver
    BY <1>0, <2>1
  <2> QED  BY <2>2, CopiesRecent
<1>6. CASE StaleFallback(r)
  <2>1. \/ res' = res
        \/ \E j \in todo[r] : /\ prot[j].age \in {"fresh", "grace"}
                              /\ res' = [res EXCEPT ![r][j] = prot[j].ver]
    BY <1>6 DEF StaleFallback
  <2>2. ASSUME NEW j \in todo[r], prot[j].age \in {"fresh", "grace"},
               res' = [res EXCEPT ![r][j] = prot[j].ver]
        PROVE  res'[r][k] = res[r][k] \/ res'[r][k] >= floor[r][k]
    <3>1. j \in Keys /\ Present(prot[j])
      BY <2>2, ReadTypes DEF Present
    <3>2. prot[j].ver >= floor[r][j]
      BY <3>1, CopiesRecent
    <3> QED  BY <1>0, <2>2, <3>1, <3>2
  <2> QED  BY <2>1, <2>2
<1> QED  BY <1>1, <1>3, <1>4, <1>5, <1>6 DEF OriginStep

LEMMA OriginFloors ==
  ASSUME TypeOK, TypeOK', StripeDiscipline, WriteDiscipline, ReadDiscipline, NEW r \in Readers,
         OriginStep(r)
  PROVE  /\ FloorInv(r)'
         /\ pc'[r] = "wait" => JoinsFlight(r)
<1>0. /\ cur' = cur /\ cand' = cand /\ floor' = floor /\ acked' = acked
      /\ FloorInv(r) /\ cur[r] \in Keys
  BY OriginStepFrame, ReadTypes DEF ReadDiscipline
<1>1. /\ \A k \in Keys : floor'[r][k] <= acked'[k]
      /\ \A k \in Keys : res'[r][k] # NoResult => res'[r][k] >= floor'[r][k]
  BY <1>0, OriginAnswers DEF FloorInv
<1>2. CASE Miss(r)
  <2>1. pc[r] = "miss" /\ res' = res /\ todo' = todo
    BY <1>2 DEF Miss, NoHit
  <2>2. PICK label \in {"next", "mfetch", "done", "join", "fetch"} : Goto(r, label)
    <3>1. AfterKey(r, {cur[r]}) \in {"next", "mfetch", "done"}
      BY DEF AfterKey
    <3> QED  BY <1>2, <3>1 DEF Miss, NoHit
  <2>3. pc'[r] = label
    BY <2>2, GoesOn
  <2>4. CASE label = "next"
    <3>1. \A k \in todo'[r] : res'[r][k] = NoResult
      BY <1>0, <2>1 DEF FloorInv, LookupPC, ReaderPC
    <3>2. pc'[r] \notin Holding \cup {"admitted"} /\ pc'[r] # "wait" /\ pc'[r] = "next"
      BY <2>3, <2>4 DEF Holding
    <3> QED  BY <1>1, <3>1, <3>2 DEF FloorInv
  <2>5. CASE label # "next"
    <3>1. pc'[r] \in {"mfetch", "done", "join", "fetch", "wait", "stale", "fill"}
      BY <2>3, <2>5
    <3>2. pc'[r] # "wait"
      BY <2>3
    <3> QED  BY <1>1, <3>1, <3>2, OutsideLookup
  <2> QED  BY <2>4, <2>5
<1>3. CASE Join(r)
  <2>1. pc'[r] = "wait"
    BY <1>3, GoesOn DEF Join, NoHit
  <2>2. JoinsFlight(r)
    <3>0. flight \in [Readers -> Readers] /\ fpc \in [Readers -> FillPC]
      BY DEF TypeOK, TypeReader, TypeFill
    <3>1. CASE group[cur[r]] = None
      <4>1. flight' = [flight EXCEPT ![r] = r] /\ fpc' = [fpc EXCEPT ![r] = "fetch"]
        BY <1>3, <3>1 DEF Join
      <4>2. flight'[r] = r /\ fpc'[r] = "fetch"
        BY <3>0, <4>1
      <4> QED  BY <4>2 DEF JoinsFlight
    <3>2. CASE group[cur[r]] # None
      <4>1. /\ flight' = [flight EXCEPT ![r] = group[cur[r]]]
            /\ fpc' = fpc /\ got' = got /\ ferr' = ferr
        BY <1>3, <3>2 DEF Join
      <4>2. group[cur[r]] \in Readers
        BY <1>0, <3>2 DEF TypeOK, TypeShared
      <4>3. flight'[r] = group[cur[r]]
        BY <3>0, <4>1
      <4> QED  BY <4>1, <4>2, <4>3 DEF JoinsFlight
    <3> QED  BY <3>1, <3>2
  <2> QED  BY <1>1, <2>1, <2>2, OutsideLookup
<1>4. CASE Receive(r) \/ ReadTimeout(r) \/ FetchBypass(r) \/ FetchMissing(r) \/ FinishMGet(r)
           \/ StaleFallback(r)
  <2>1. \/ pc' = pc /\ pc[r] = "stale"
        \/ Goto(r, "done") \/ Goto(r, "stale") \/ Goto(r, "fill")
    BY <1>4 DEF Receive, ReadTimeout, FetchBypass, FetchMissing, FinishMGet, StaleFallback,
         ReadFailed
  <2>2. pc'[r] \in {"done", "stale", "fill"}
    BY <2>1, GoesOn
  <2>3. /\ pc'[r] \in {"mfetch", "done", "join", "fetch", "wait", "stale", "fill"}
        /\ pc'[r] # "wait"
    BY <2>2
  <2> QED  BY <1>1, <2>3, OutsideLookup
<1> QED  BY <1>2, <1>3, <1>4 DEF OriginStep

\* A flight that has begun stays with its key and keeps what it fetched; it
\* fetches in a step that leaves the origin and every write alone.
FetchedAfter(q) == fpc'[q] \notin {"none", "fetch"} /\ ~ferr'[q]

FlightKept(q) ==
  fpc[q] # "none" =>
    /\ fpc'[q] # "none" /\ cur'[q] = cur[q]
    /\ FetchedAfter(q) => \/ Fetched(q) /\ got'[q][cur[q]] = got[q][cur[q]]
                          \/ got'[q][cur[q]] = origin[cur[q]] /\ WriteSideKept

LEMMA SameFlight ==
  ASSUME NEW q \in Readers, fpc'[q] = fpc[q], ferr'[q] = ferr[q], got'[q] = got[q],
         fpc[q] # "none" => cur'[q] = cur[q]
  PROVE  FlightKept(q)
BY DEF FlightKept, FetchedAfter, Fetched

LEMMA ReaderFlights ==
  ASSUME TypeOK, StripeDiscipline, NEW r \in Readers, ReaderStep(r) \/ ReadTimeout(r),
         NEW q \in Readers
  PROVE  FlightKept(q)
<1>0. /\ fpc \in [Readers -> FillPC] /\ cur \in [Readers -> Keys]
      /\ got \in [Readers -> [Keys -> Value]]
      /\ fpc[q] # "none" => pc[q] \in {"wait", "fill", "stale", "done"}
  BY DEF TypeOK, TypeFill, TypeReader, StripeDiscipline, ReaderInv
<1>1. CASE LookupStep(r) \/ Miss(r) \/ Receive(r) \/ ReadTimeout(r) \/ FetchBypass(r)
           \/ StaleFallback(r)
  <2>1. LookupFrame => fpc' = fpc /\ ferr' = ferr /\ got' = got /\ cur' = cur
    BY DEF LookupFrame, fillVars
  <2>2. Miss(r) \/ Receive(r) \/ ReadTimeout(r) \/ FetchBypass(r) \/ StaleFallback(r)
          => cur' = cur /\ UNCHANGED fillVars
    BY DEF Miss, Receive, ReadTimeout, FetchBypass, StaleFallback, AnswerFrame
  <2>3. fpc' = fpc /\ ferr' = ferr /\ got' = got /\ cur' = cur
    BY <1>1, <2>1, <2>2, LookupStepFrame DEF fillVars
  <2> QED  BY <2>3, SameFlight
<1>2. CASE Observe(r)
  <2>1. pc[r] = "next" /\ UNCHANGED fillVars /\ \E k : cur' = [cur EXCEPT ![r] = k]
    BY <1>2 DEF Observe
  <2>2. fpc' = fpc /\ ferr' = ferr /\ got' = got
    BY <2>1 DEF fillVars
  <2>3. q # r => cur'[q] = cur[q]
    BY <1>0, <2>1
  <2>4. fpc[q] # "none" => q # r
    BY <1>0, <2>1
  <2> QED  BY <2>2, <2>3, <2>4, SameFlight
<1>3. CASE Join(r)
  <2>1. pc[r] = "join" /\ cur' = cur /\ got' = got /\ ferr' = ferr
    BY <1>3 DEF Join, AnswerFrame
  <2>2. fpc' = fpc \/ fpc' = [fpc EXCEPT ![r] = "fetch"]
    BY <1>3 DEF Join
  <2>3. fpc[q] # "none" => fpc'[q] = fpc[q]
    BY <1>0, <2>1, <2>2
  <2> QED  BY <2>1, <2>3 DEF FlightKept, FetchedAfter, Fetched
<1>4. CASE FetchMissing(r)
  <2>1. pc[r] = "mfetch" /\ cur' = cur /\ ferr' = ferr
    BY <1>4 DEF FetchMissing, AnswerFrame
  <2>2. /\ fpc' = fpc \/ \E label : fpc' = [fpc EXCEPT ![r] = label]
        /\ got' = got \/ \E f : got' = [got EXCEPT ![r] = f]
    BY <1>4 DEF FetchMissing
  <2>3. q # r => fpc'[q] = fpc[q]
    BY <1>0, <2>2
  <2>4. q # r => got'[q] = got[q]
    BY <1>0, <2>2
  <2>5. fpc[q] # "none" => q # r
    BY <1>0, <2>1
  <2> QED  BY <2>1, <2>3, <2>4, <2>5 DEF FlightKept, FetchedAfter, Fetched
<1>5. CASE FinishMGet(r)
  <2>1. /\ fpc[r] = "end" /\ fpc' = [fpc EXCEPT ![r] = "done"]
        /\ cur' = cur /\ got' = got /\ ferr' = ferr
    BY <1>5 DEF FinishMGet, AnswerFrame
  <2>2. fpc'[q] = fpc[q] \/ (fpc[q] = "end" /\ fpc'[q] = "done")
    BY <1>0, <2>1
  <2> QED  BY <2>1, <2>2 DEF FlightKept, FetchedAfter, Fetched
<1> QED  BY <1>1, <1>2, <1>3, <1>4, <1>5 DEF ReaderStep, LookupStep

LEMMA FillFlights ==
  ASSUME TypeOK, NEW r \in Readers, FillStep(r), NEW q \in Readers
  PROVE  FlightKept(q)
<1>0. /\ fpc \in [Readers -> FillPC] /\ ferr \in [Readers -> BOOLEAN] /\ cur[r] \in Keys
      /\ got \in [Readers -> [Keys -> Value]]
  BY DEF TypeOK, TypeFill, TypeReader
<1>1. cur' = cur /\ WriteSideKept
  BY FillsFrame DEF FillFrame, readerVars, histVars, WriteSideKept
<1>2. CASE FlightFetch(r)
  <2>1. CASE /\ got' = [got EXCEPT ![r][cur[r]] = origin[cur[r]]]
             /\ fpc' = [fpc EXCEPT ![r] = "lock"] /\ ferr' = ferr
    <3>1. CASE q = r
      <4>1. got'[q][cur[q]] = origin[cur[q]]
        BY <1>0, <2>1, <3>1
      <4>2. fpc'[q] # "none"
        BY <1>0, <2>1, <3>1
      <4> QED  BY <1>1, <4>1, <4>2 DEF FlightKept
    <3>2. CASE q # r
      <4>1. got'[q] = got[q]
        BY <1>0, <2>1, <3>2
      <4>2. fpc'[q] = fpc[q]
        BY <1>0, <2>1, <3>2
      <4> QED  BY <1>1, <2>1, <4>1, <4>2, SameFlight
    <3> QED  BY <3>1, <3>2
  <2>2. CASE /\ ferr' = [ferr EXCEPT ![r] = TRUE] /\ fpc' = [fpc EXCEPT ![r] = "end"]
             /\ got' = got
    <3>1. CASE q = r
      <4>1. fpc'[q] # "none" /\ ferr'[q]
        BY <1>0, <2>2, <3>1
      <4> QED  BY <1>1, <4>1 DEF FlightKept, FetchedAfter, Fetched
    <3>2. CASE q # r
      <4>1. ferr'[q] = ferr[q]
        BY <1>0, <2>2, <3>2
      <4>2. fpc'[q] = fpc[q]
        BY <1>0, <2>2, <3>2
      <4> QED  BY <1>1, <2>2, <4>1, <4>2, SameFlight
    <3> QED  BY <3>1, <3>2
  <2> QED  BY <1>2, <2>1, <2>2 DEF FlightFetch
<1>3. CASE FillCheck(r) \/ FillDrop(r) \/ FillStore(r) \/ FlightDone(r)
  <2>1. got' = got /\ ferr' = ferr /\ fpc[r] \notin {"none", "fetch"}
    BY <1>3 DEF FillCheck, FillDrop, FillStore, FlightDone
  <2>2. \E label \in FillPC \ {"none", "fetch"} : fpc' = [fpc EXCEPT ![r] = label]
    <3>1. CASE FillCheck(r)
      <4>1. \/ fpc' = [fpc EXCEPT ![r] = "drop"]
            \/ fpc' = [fpc EXCEPT ![r] = "end"]
            \/ fpc' = [fpc EXCEPT ![r] = fpc[r]] /\ fpc[r] = "lock"
        BY <3>1 DEF FillCheck
      <4> QED  BY <4>1 DEF FillPC
    <3>2. CASE FillDrop(r) \/ FillStore(r) \/ FlightDone(r)
      BY <3>2 DEF FillDrop, FillStore, FlightDone, FillNext, FillPC
    <3> QED  BY <1>3, <3>1, <3>2
  <2>3. fpc'[q] = fpc[q] \/ (q = r /\ fpc'[q] \notin {"none", "fetch"})
    BY <1>0, <2>2
  <2> QED  BY <1>1, <2>1, <2>3 DEF FlightKept, FetchedAfter, Fetched
<1> QED  BY <1>2, <1>3 DEF FillStep

LEMMA NextFlights ==
  ASSUME TypeOK, StripeDiscipline, [Next]_vars, NEW q \in Readers
  PROVE  FlightKept(q)
<1>1. ASSUME UNCHANGED <<readerVars, fillVars>>
      PROVE  FlightKept(q)
  BY <1>1, SameFlight DEF readerVars, fillVars
<1>2. ASSUME NEW w \in Writers, WritesOfOne(w)
      PROVE  UNCHANGED <<readerVars, fillVars>>
  BY <1>2 DEF WritesOfOne, WriterStep, AcquireGate, InvalidateKeys, Dispatch, WriteReply,
       WriteError, WriteThrough, WriteThroughStore, Forget, Release, WriteReturn, GateTimeout,
       Retry, LateApply, OriginFrame, WriterFrame
<1>3. ASSUME NEW a \in Admins, AdminStep(a)
      PROVE  UNCHANGED <<readerVars, fillVars>>
  BY <1>3, AdminsFrame DEF AdminFrame
<1>4. CASE (\E j \in Keys : Expire(j) \/ ExternalWrite(j)) \/ UNCHANGED vars
  BY <1>1, <1>4 DEF Expire, ExternalWrite, vars
<1>5. ASSUME NEW r \in Readers, ReaderStep(r) \/ ReadTimeout(r) \/ FillStep(r)
      PROVE  FlightKept(q)
  BY <1>5, ReaderFlights, FillFlights
<1> QED  BY <1>1, <1>2, <1>3, <1>4, <1>5 DEF Next, Idle, WritesOfOne

\* An acknowledgement carries the versions of a write that has made the group
\* forget the flights of its keys.
LEMMA AckedBy ==
  ASSUME TypeOK, WriteDiscipline, [Next]_vars, NEW k \in Keys
  PROVE  \/ acked'[k] = acked[k]
         \/ /\ acked'[k] >= acked[k] /\ acked'[k] \in Nat
            /\ \E w \in Writers : /\ k \in wkeys[w] /\ wpc[w] = "reply" /\ wok[w]
                                  /\ acked'[k] = wver[w][k]
<1>0. acked[k] \in Nat
  BY VersionTypes
<1>1. CASE WriteSideKept \/ \E j \in Keys : ExternalWrite(j)
  BY <1>1 DEF WriteSideKept, ExternalWrite, histVars
<1>2. ASSUME NEW w \in Writers, WriteReturn(w), acked'[k] # acked[k]
      PROVE  /\ acked'[k] >= acked[k] /\ acked'[k] \in Nat
             /\ k \in wkeys[w] /\ wpc[w] = "reply" /\ wok[w] /\ acked'[k] = wver[w][k]
  <2>1. wpc[w] = "reply" /\ wok[w] /\ acked' = [j \in Keys |-> Larger(acked[j], wver[w][j])]
    BY <1>2 DEF WriteReturn
  <2>2. acked'[k] = Larger(acked[k], wver[w][k]) /\ wver[w][k] \in Nat
    BY <2>1, WriterTypes
  <2>3. acked'[k] = wver[w][k] /\ acked'[k] >= acked[k] /\ wver[w][k] # 0
    BY <1>0, <1>2, <2>2, SMT DEF Larger
  <2>4. k \in wkeys[w]
    BY <2>3 DEF WriteDiscipline, OrderInv
  <2> QED  BY <2>1, <2>2, <2>3, <2>4
<1>3. ASSUME NEW w \in Writers, WritesOfOne(w), ~WriteReturn(w)
      PROVE  acked' = acked
  BY <1>3 DEF WritesOfOne, WriterStep, AcquireGate, InvalidateKeys, Dispatch, WriteReply,
       WriteError, WriteThrough, WriteThroughStore, Forget, Release, GateTimeout, Retry, LateApply
<1> QED  BY <1>1, <1>2, <1>3, WriteSideSteps

LEMMA NextAckedGrow ==
  ASSUME TypeOK, WriteDiscipline, [Next]_vars
  PROVE  AckedGrow
<1>1. ASSUME NEW k \in Keys
      PROVE  acked'[k] >= acked[k]
  <2>1. acked[k] >= acked[k]
    BY VersionTypes, SMT
  <2> QED  BY <2>1, AckedBy
<1> QED  BY <1>1 DEF AckedGrow

\* A flight of the group was in it before, or has just begun.
LEMMA NextGroup ==
  ASSUME TypeOK, [Next]_vars, NEW k \in Keys, NEW q \in Readers, group'[k] = q
  PROVE  group[k] = q \/ (cur'[q] = k /\ fpc'[q] = "fetch")
<1>0. group \in [Keys -> Readers \cup {None}] /\ q # None /\ fpc \in [Readers -> FillPC]
  <2>1. q # None
    BY ServiceAssumption DEF Procs
  <2> QED  BY <2>1 DEF TypeOK, TypeShared, TypeFill
<1>1. CASE group' = group
  BY <1>1
<1>2. ASSUME NEW j, group' = [group EXCEPT ![j] = None]
      PROVE  group[k] = q
  BY <1>0, <1>2
<1>3. ASSUME NEW r \in Readers, Join(r)
      PROVE  group[k] = q \/ (cur'[q] = k /\ fpc'[q] = "fetch")
  <2>1. CASE group' = group
    BY <2>1
  <2>2. CASE group' = [group EXCEPT ![cur[r]] = r] /\ fpc' = [fpc EXCEPT ![r] = "fetch"]
    <3>1. group[k] = q \/ (k = cur[r] /\ q = r)
      BY <1>0, <2>2
    <3>2. fpc'[r] = "fetch" /\ cur' = cur
      BY <1>0, <1>3, <2>2 DEF Join, AnswerFrame
    <3> QED  BY <3>1, <3>2
  <2> QED  BY <1>3, <2>1, <2>2 DEF Join
<1>4. ASSUME NEW r \in Readers, ReaderStep(r) \/ ReadTimeout(r), ~Join(r)
      PROVE  group' = group
  <2>1. CASE LookupStep(r)
    BY <2>1, LookupStepFrame DEF LookupFrame
  <2>2. CASE \/ Observe(r) \/ Miss(r) \/ Receive(r) \/ ReadTimeout(r) \/ FetchBypass(r)
             \/ FetchMissing(r) \/ FinishMGet(r) \/ StaleFallback(r)
    BY <2>2 DEF Observe, Miss, Receive, ReadTimeout, FetchBypass, FetchMissing, FinishMGet,
         StaleFallback
  <2> QED  BY <1>4, <2>1, <2>2 DEF ReaderStep, LookupStep
<1>5. ASSUME NEW r \in Readers, FillStep(r)
      PROVE  group' = group \/ \E j : group' = [group EXCEPT ![j] = None]
  BY <1>5 DEF FillStep, FlightFetch, FillCheck, FillDrop, FillStore, FlightDone
<1>6. ASSUME NEW w \in Writers, WritesOfOne(w)
      PROVE  group' = group \/ \E j : group' = [group EXCEPT ![j] = None]
  BY <1>6 DEF WritesOfOne, WriterStep, AcquireGate, InvalidateKeys, Dispatch, WriteReply,
       WriteError, WriteThrough, WriteThroughStore, Forget, Forgotten, Release, WriteReturn,
       GateTimeout, Retry, LateApply, OriginFrame
<1>7. ASSUME NEW a \in Admins, AdminStep(a)
      PROVE  group' = group \/ \E j : group' = [group EXCEPT ![j] = None]
  BY <1>7 DEF AdminStep, AdvanceTracker, HandleTransitions, PurgeKey, ForgetPurged, Forgotten,
       LockAllStripes, PurgeTier, AdvanceEpochs, CloseService
<1>8. CASE (\E j \in Keys : Expire(j) \/ ExternalWrite(j)) \/ UNCHANGED vars
  BY <1>8 DEF Expire, ExternalWrite, vars, sharedVars
<1> QED
  BY <1>1, <1>2, <1>3, <1>4, <1>5, <1>6, <1>7, <1>8 DEF Next, Idle, WritesOfOne

\* group.Forget: while a flight of a key is in the group, no write of the key
\* becomes one that has forgotten it.
LEMMA NextForgot ==
  ASSUME TypeOK, WriteDiscipline, [Next]_vars, NEW w \in Writers, NEW k \in wkeys[w],
         (Forgot(w, k) /\ wok[w])', group'[k] # None
  PROVE  Forgot(w, k) /\ wok[w] /\ wver'[w] = wver[w]
<1>0. /\ wpc \in [Writers -> WriterPC] /\ wtodo \in [Writers -> SUBSET Keys]
      /\ wok \in [Writers -> BOOLEAN] /\ wver \in [Writers -> [Keys -> Nat]]
      /\ group \in [Keys -> Readers \cup {None}] /\ k \in Keys
  BY DEF TypeOK, TypeWriter, TypeShared
<1>1. ASSUME wpc'[w] = wpc[w], wtodo'[w] = wtodo[w], wok'[w] = wok[w], wver'[w] = wver[w]
      PROVE  Forgot(w, k) /\ wok[w] /\ wver'[w] = wver[w]
  BY <1>1 DEF Forgot
<1>2. CASE WriteSideKept
  BY <1>1, <1>2 DEF WriteSideKept, writerVars
<1>3. CASE \E j \in Keys : ExternalWrite(j)
  BY <1>1, <1>3 DEF ExternalWrite, writerVars
<1>4. ASSUME NEW v \in Writers, WritesOfOne(v), v # w
      PROVE  Forgot(w, k) /\ wok[w] /\ wver'[w] = wver[w]
  <2>1. wpc'[w] = wpc[w] /\ wtodo'[w] = wtodo[w] /\ wver'[w] = wver[w]
    BY <1>4, StepsAreLocal DEF OthersKept, Kept
  <2>2. wok' = wok \/ \E b : wok' = [wok EXCEPT ![v] = b]
    BY <1>4 DEF WritesOfOne, WriterStep, AcquireGate, InvalidateKeys, Dispatch, WriteReply,
         WriteError, WriteThrough, WriteThroughStore, Forget, Release, WriteReturn,
         GateTimeout, Retry, LateApply
  <2>3. wok'[w] = wok[w]
    BY <1>0, <1>4, <2>2
  <2> QED  BY <1>1, <2>1, <2>3
<1>5. ASSUME NEW label, WGoto(w, label)
      PROVE  wpc'[w] = label
  BY <1>0, <1>5 DEF WGoto
<1>6. CASE \/ AcquireGate(w) \/ Dispatch(w) \/ WriteReply(w) \/ WriteError(w) \/ WriteThrough(w)
           \/ GateTimeout(w) \/ Retry(w) \/ WriteReturn(w)
  <2>1. \/ \E label \in {"pre", "sent", "through", "final", "throughStore", "done", "send"} :
             WGoto(w, label)
        \/ wpc[w] = "gate" /\ wpc' = wpc
    BY <1>6 DEF AcquireGate, Dispatch, WriteReply, WriteError, WriteThrough, GateTimeout, Retry,
         WriteReturn
  <2>2. wpc'[w] \notin {"forget", "release", "reply"}
    BY <1>5, <2>1
  <2> QED  BY <2>2 DEF Forgot
<1>7. CASE InvalidateKeys(w)
  <2>1. wpc'[w] \in {"pre", "final", "send"} \/ (wpc'[w] = "forget" /\ wtodo'[w] = wkeys[w])
    BY <1>7, InvalidateKeysMeaning
  <2>2. ~Forgot(w, k)'
    BY <2>1 DEF Forgot
  <2> QED  BY <2>2
<1>8. CASE WriteThroughStore(w)
  <2>1. wpc[w] = "throughStore" /\ WGoto(w, "forget") /\ wtodo' = wtodo
    BY <1>8 DEF WriteThroughStore
  <2>2. wtodo[w] = wkeys[w]
    BY <2>1 DEF WriteDiscipline, OrderInv, Underway
  <2>3. wpc'[w] = "forget" /\ k \in wtodo'[w]
    BY <1>5, <2>1, <2>2
  <2> QED  BY <2>3 DEF Forgot
<1>9. CASE Forget(w)
  <2>1. PICK j \in wtodo[w] : /\ group' = [group EXCEPT ![j] = None]
                              /\ wtodo' = [wtodo EXCEPT ![w] = @ \ {j}]
                              /\ (wtodo[w] = {j} /\ WGoto(w, "release")) \/ wpc' = wpc
    BY <1>9 DEF Forget, Forgotten
  <2>2. k # j
    BY <1>0, <2>1
  <2>3. wpc[w] = "forget" /\ wok' = wok /\ wver' = wver
    BY <1>9 DEF Forget
  <2>4. wtodo'[w] = wtodo[w] \ {j}
    BY <1>0, <2>1
  <2>5. k \notin wtodo[w]
    <3>1. CASE wtodo[w] = {j}
      BY <2>2, <3>1
    <3>2. CASE wpc' = wpc
      BY <2>2, <2>3, <2>4, <3>2 DEF Forgot
    <3> QED  BY <2>1, <3>1, <3>2
  <2> QED  BY <2>3, <2>5 DEF Forgot
<1>10. CASE Release(w)
  <2>1. wpc[w] = "release" /\ wok' = wok /\ wver' = wver
    BY <1>10 DEF Release
  <2> QED  BY <2>1 DEF Forgot
<1>11. CASE LateApply(w)
  <2>1. wpc' = wpc /\ wtodo' = wtodo /\ wok' = wok /\ wver' = wver
    BY <1>11 DEF LateApply
  <2> QED  BY <1>1, <2>1
<1>12. WritesOfOne(w) => \/ AcquireGate(w) \/ Dispatch(w) \/ WriteReply(w) \/ WriteError(w)
                         \/ WriteThrough(w) \/ GateTimeout(w) \/ Retry(w) \/ WriteReturn(w)
                         \/ InvalidateKeys(w) \/ WriteThroughStore(w) \/ Forget(w)
                         \/ Release(w) \/ LateApply(w)
  BY DEF WritesOfOne, WriterStep
<1> QED
  BY <1>2, <1>3, <1>4, <1>6, <1>7, <1>8, <1>9, <1>10, <1>11, <1>12, WriteSideSteps

\* Stated of the state after a step, for a request that is named before it.
FloorAfter(r) == FloorInv(r)'

\* A request that waits did so before, or has just joined a flight.
WaitKept(r) ==
  pc'[r] = "wait" => RequestKept(r) \/ (JoinsFlight(r) /\ cur' = cur /\ floor' = floor)

LEMMA ReaderRequests ==
  ASSUME TypeOK, TypeOK', StripeDiscipline, WriteDiscipline, ReadDiscipline, NEW r \in Readers,
         ReaderStep(r) \/ ReadTimeout(r)
  PROVE  /\ FloorAfter(r) /\ WaitKept(r)
         /\ \A q \in Readers \ {r} : RequestKept(q)
<1>1. CASE Observe(r)
  BY <1>1, ObserveFloors DEF FloorAfter, WaitKept
<1>2. CASE LookupStep(r)
  BY <1>2, LookupFloors DEF FloorAfter, WaitKept
<1>3. CASE OriginStep(r)
  BY <1>3, OriginFloors, OriginStepFrame DEF FloorAfter, WaitKept
<1> QED  BY <1>1, <1>2, <1>3 DEF ReaderStep, LookupStep, OriginStep

LEMMA NextRequests ==
  ASSUME TypeOK, TypeOK', StripeDiscipline, WriteDiscipline, ReadDiscipline, [Next]_vars,
         NEW q \in Readers
  PROVE  FloorAfter(q) /\ WaitKept(q)
<1>1. ASSUME RequestKept(q)
      PROVE  FloorAfter(q) /\ WaitKept(q)
  <2>1. FloorInv(q) /\ AckedGrow
    BY NextAckedGrow DEF ReadDiscipline
  <2> QED  BY <1>1, <2>1, KeptFloor DEF FloorAfter, WaitKept
<1>2. ASSUME UNCHANGED readerVars, floor' = floor
      PROVE  RequestKept(q)
  BY <1>2 DEF readerVars, RequestKept
<1>3. ASSUME NEW r \in Readers, ReaderStep(r) \/ ReadTimeout(r)
      PROVE  FloorAfter(q) /\ WaitKept(q)
  BY <1>1, <1>3, ReaderRequests
<1>4. ASSUME NEW r \in Readers, FillStep(r)
      PROVE  RequestKept(q)
  BY <1>2, <1>4, FillsFrame DEF FillFrame, histVars
<1>5. ASSUME NEW w \in Writers, WritesOfOne(w)
      PROVE  RequestKept(q)
  <2>1. WriterFrame
    BY <1>5 DEF WritesOfOne, WriterStep, AcquireGate, InvalidateKeys, Dispatch, WriteReply,
         WriteError, WriteThrough, WriteThroughStore, Forget, Release, WriteReturn,
         GateTimeout, Retry, LateApply, OriginFrame
  <2> QED  BY <1>2, <2>1 DEF WriterFrame
<1>6. ASSUME NEW a \in Admins, AdminStep(a)
      PROVE  RequestKept(q)
  BY <1>2, <1>6, AdminsFrame DEF AdminFrame
<1>7. CASE (\E j \in Keys : Expire(j) \/ ExternalWrite(j)) \/ UNCHANGED vars
  BY <1>1, <1>2, <1>7 DEF Expire, ExternalWrite, vars, histVars
<1> QED  BY <1>1, <1>3, <1>4, <1>5, <1>6, <1>7 DEF Next, Idle, WritesOfOne

\* What a flight has fetched stays recent enough for those who wait for it.
LEMMA WaitersServed ==
  ASSUME TypeOK, TypeOK', StripeDiscipline, WriteDiscipline, ReadDiscipline, [Next]_vars,
         NEW r \in Readers, pc'[r] = "wait"
  PROVE  \E f \in Readers :
           /\ flight'[r] = f /\ cur'[f] = cur'[r] /\ fpc'[f] # "none"
           /\ FetchedAfter(f) => got'[f][cur'[r]].ver >= floor'[r][cur'[r]]
<1>0. cur[r] \in Keys /\ flight[r] \in Readers
  BY ReadTypes
<1>1. CASE RequestKept(r)
  <2>0. PICK f \in Readers : f = flight[r]
    BY <1>0
  <2>1. /\ pc[r] = "wait" /\ flight'[r] = f /\ cur'[r] = cur[r] /\ floor'[r] = floor[r]
    BY <1>1, <2>0 DEF RequestKept
  <2>2. /\ cur[f] = cur[r] /\ fpc[f] # "none"
        /\ Fetched(f) => got[f][cur[r]].ver >= floor[r][cur[r]]
    BY <2>0, <2>1 DEF ReadDiscipline, FlightInv
  <2>3. FlightKept(f)
    BY NextFlights
  <2>4. /\ fpc'[f] # "none" /\ cur'[f] = cur[f]
        /\ FetchedAfter(f) =>
             \/ Fetched(f) /\ got'[f][cur[f]] = got[f][cur[f]]
             \/ got'[f][cur[f]] = origin[cur[f]]
    BY <2>2, <2>3 DEF FlightKept
  <2>5. origin[cur[r]].ver >= floor[r][cur[r]]
    BY <1>0, CopiesRecent
  <2>6. FetchedAfter(f) => got'[f][cur[r]].ver >= floor[r][cur[r]]
    BY <2>2, <2>4, <2>5
  <2>7. cur'[f] = cur'[r]
    BY <2>1, <2>2, <2>4
  <2> QED  BY <2>1, <2>4, <2>6, <2>7
<1>2. CASE JoinsFlight(r) /\ cur' = cur /\ floor' = floor
  <2>1. CASE flight'[r] = r /\ fpc'[r] = "fetch"
    BY <2>1 DEF FetchedAfter
  <2>2. CASE /\ group[cur[r]] = flight'[r] /\ flight'[r] \in Readers
             /\ fpc' = fpc /\ got' = got /\ ferr' = ferr
    <3>0. PICK f \in Readers : f = flight'[r]
      BY <2>2
    <3>1. /\ cur[f] = cur[r] /\ fpc[f] # "none"
          /\ Fetched(f) => got[f][cur[r]].ver >= acked[cur[r]]
      BY <1>0, <2>2, <3>0 DEF ReadDiscipline, FlightInv
    <3>2. got[f][cur[r]].ver \in Nat
      BY <1>0, ReadTypes
    <3>3. Fetched(f) => got[f][cur[r]].ver >= floor[r][cur[r]]
      BY <1>0, <3>1, <3>2, Recent
    <3>4. FetchedAfter(f) => Fetched(f)
      BY <2>2 DEF FetchedAfter, Fetched
    <3> QED  BY <1>2, <2>2, <3>0, <3>1, <3>3, <3>4
  <2> QED  BY <1>2, <2>1, <2>2 DEF JoinsFlight
<1> QED  BY <1>1, <1>2, NextRequests DEF WaitKept

\* What a flight of the group has fetched is as new as every acknowledged write,
\* and as every successful one that has been past its Forget.
LEMMA GroupCurrent ==
  ASSUME TypeOK, TypeOK', StripeDiscipline, WriteDiscipline, ReadDiscipline, [Next]_vars,
         NEW r \in Readers, NEW k \in Keys, group'[k] = r
  PROVE  /\ cur'[r] = k /\ fpc'[r] # "none"
         /\ FetchedAfter(r) =>
              /\ got'[r][k].ver >= acked'[k]
              /\ \A w \in Writers : k \in wkeys'[w] /\ (Forgot(w, k) /\ wok[w])' =>
                   got'[r][k].ver >= wver'[w][k]
<1>1. CASE cur'[r] = k /\ fpc'[r] = "fetch"
  BY <1>1 DEF FetchedAfter
<1>2. CASE group[k] = r
  <2>1. /\ cur[r] = k /\ fpc[r] # "none"
        /\ Fetched(r) =>
             /\ got[r][k].ver >= acked[k]
             /\ \A w \in Writers : k \in wkeys[w] /\ Forgot(w, k) /\ wok[w] =>
                  got[r][k].ver >= wver[w][k]
    BY <1>2 DEF ReadDiscipline, FlightInv
  <2>2. /\ fpc'[r] # "none" /\ cur'[r] = k
        /\ FetchedAfter(r) => \/ Fetched(r) /\ got'[r][k] = got[r][k]
                              \/ got'[r][k] = origin[k] /\ WriteSideKept
    BY <2>1, NextFlights DEF FlightKept
  <2>3. wkeys' = wkeys
    BY WriteSideSteps, StepsAreLocal DEF WriteSideKept, ExternalWrite, writerVars
  <2>4. r # None
    BY ServiceAssumption DEF Procs
  <2>5. ASSUME Fetched(r), got'[r][k] = got[r][k]
        PROVE  /\ got'[r][k].ver >= acked'[k]
               /\ \A w \in Writers : k \in wkeys'[w] /\ (Forgot(w, k) /\ wok[w])' =>
                    got'[r][k].ver >= wver'[w][k]
    <3>1. got'[r][k].ver >= acked'[k]
      <4>1. CASE acked'[k] = acked[k]
        BY <2>1, <2>5, <4>1
      <4>2. CASE \E w \in Writers : /\ k \in wkeys[w] /\ wpc[w] = "reply" /\ wok[w]
                                    /\ acked'[k] = wver[w][k]
        BY <2>1, <2>5, <4>2 DEF Forgot
      <4> QED  BY <4>1, <4>2, AckedBy
    <3>2. ASSUME NEW w \in Writers, k \in wkeys'[w], (Forgot(w, k) /\ wok[w])'
          PROVE  got'[r][k].ver >= wver'[w][k]
      <4>1. k \in wkeys[w]
        BY <2>3, <3>2
      <4>2. Forgot(w, k) /\ wok[w] /\ wver'[w] = wver[w]
        BY <2>4, <3>2, <4>1, NextForgot
      <4> QED  BY <2>1, <2>5, <4>1, <4>2
    <3> QED  BY <3>1, <3>2
  <2>6. ASSUME got'[r][k] = origin[k], WriteSideKept
        PROVE  /\ got'[r][k].ver >= acked'[k]
               /\ \A w \in Writers : got'[r][k].ver >= wver'[w][k]
    <3>1. acked' = acked /\ wver' = wver
      BY <2>6 DEF WriteSideKept, writerVars
    <3> QED  BY <2>6, <3>1, CopiesRecent, Recent
  <2> QED  BY <2>2, <2>5, <2>6
<1> QED  BY <1>1, <1>2, NextGroup

\* A step preserves what requests and flights have in hand.
LEMMA NextRead ==
  ASSUME TypeOK, TypeOK', StripeDiscipline, WriteDiscipline, ReadDiscipline, [Next]_vars
  PROVE  ReadDiscipline'
<1>1. ASSUME NEW r \in Readers
      PROVE  FloorInv(r)'
  BY NextRequests DEF FloorAfter
<1>2. ASSUME NEW r \in Readers
      PROVE  FlightInv(r)'
  <2>1. pc'[r] = "wait" =>
          /\ cur'[flight'[r]] = cur'[r] /\ fpc'[flight'[r]] # "none"
          /\ FetchedAfter(flight'[r]) => got'[flight'[r]][cur'[r]].ver >= floor'[r][cur'[r]]
    BY WaitersServed
  <2>2. \A k \in Keys : group'[k] = r =>
          /\ cur'[r] = k /\ fpc'[r] # "none"
          /\ FetchedAfter(r) =>
               /\ got'[r][k].ver >= acked'[k]
               /\ \A w \in Writers : k \in wkeys'[w] /\ Forgot(w, k)' /\ wok'[w] =>
                    got'[r][k].ver >= wver'[w][k]
    BY GroupCurrent
  <2> QED  BY <2>1, <2>2 DEF FlightInv, FetchedAfter, Fetched
<1> QED  BY <1>1, <1>2 DEF ReadDiscipline

LEMMA InitRead == ASSUME Init  PROVE ReadDiscipline
<1>1. /\ \A k \in Keys : acked[k] = 0 /\ group[k] = None
      /\ \A r \in Readers : pc[r] = "next" /\ cand[r] = NoEntry
      /\ \A r \in Readers, k \in Keys : floor[r][k] = 0 /\ res[r][k] = NoResult
      /\ \A r \in Readers : todo[r] \subseteq Keys
  BY DEF Init
<1>2. \A r \in Readers : r # None
  BY ServiceAssumption DEF Procs
<1>3. 0 <= 0
  BY SMT
<1>4. ASSUME NEW r \in Readers
      PROVE  FloorInv(r) /\ FlightInv(r)
  <2>1. FloorInv(r)
    BY <1>1, <1>3 DEF FloorInv, Holding
  <2> QED  BY <1>1, <1>2, <2>1 DEF FlightInv
<1> QED  BY <1>4 DEF ReadDiscipline
===============================================================================
