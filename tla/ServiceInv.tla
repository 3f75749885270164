----------------------------- MODULE ServiceInv ------------------------------
(***************************************************************************)
(* The inductive invariants behind the properties of Service.  First the   *)
(* one behind NoSupersededEntry and TiersDisjoint: who holds which stripe, *)
(* what a fill, a candidate or a write in hand can still put into a tier,  *)
(* and why it is not older than the last finalized write of its key.  Then *)
(* the write side, the copies in the tiers, the tracker and the read side. *)
(***************************************************************************)
EXTENDS Service

\* The labels between the lock and the unlock of the promotion section, of a
\* reconciliation, and of a purge of everything.
Holding == {"admit", "flagOn", "takeCand", "promote", "flagOff"}
Reconciling == {"drop", "storeProt", "storeProb"}
Purging == {"purgeProt", "purgeProb", "bump"}

\* The promotion section owns its stripe and its candidate is current; it
\* excludes the demotion loop, and both exclude a fill led by the request.
ReaderInv(r) ==
  /\ pc[r] \in Holding => lock[Stripe(r)] = r
  /\ pc[r] \in Holding \ {"flagOff"} => cand[r].ver >= settled[cur[r]]
  /\ pc[r] = "promote" => ~Present(prob[cur[r]])
  /\ drop[r] # None => pc[r] \in {"obs", "admitted"}
  /\ fpc[r] # "none" => pc[r] \in {"wait", "fill", "stale", "done"}

DropInv(p) == drop[p] # None => lock[StripeOf[drop[p]]] = p

\* A fill that may still be stored: it has its value, and its epoch is current.
Storable(r, k) == /\ fpc[r] \in {"lock"} \cup Reconciling
                  /\ k \in ftodo[r]
                  /\ ep[r][k] = epoch[StripeOf[k]]

\* The write has advanced the key's epoch after the origin applied it and has
\* yet to finalize the key.
Barrier(w, k) == \/ wpc[w] = "final" /\ StripeOf[k] \in adv[w]
                 \/ wpc[w] = "throughStore" /\ k \in wkeys[w]

\* A fill that may still be stored is as new as every finalized write, and as
\* every write past its barrier.
FillInv(r) ==
  /\ fpc[r] \in Reconciling =>
       /\ lock[StripeOf[fkey[r]]] = r
       /\ fkey[r] \in ftodo[r] /\ ep[r][fkey[r]] = epoch[StripeOf[fkey[r]]]
  /\ fpc[r] = "storeProt" => ~Present(prob[fkey[r]])
  /\ fpc[r] = "storeProb" => ~Present(prot[fkey[r]])
  /\ \A k \in Keys : ep[r][k] <= epoch[StripeOf[k]]
  /\ \A k \in Keys : Storable(r, k) =>
       /\ got[r][k].ver >= settled[k]
       /\ \A w \in Writers : Barrier(w, k) => got[r][k].ver >= wver[w][k]

WriterInv(w) ==
  /\ drop[w] = None
  /\ wcmd[w] # "DEL" => \E k \in Keys : wkeys[w] = {k}
  /\ wpc[w] \in {"through", "throughStore"} => wcmd[w] = "SET"
  /\ wpc[w] \notin {"pre", "final"} => adv[w] = {}
  /\ \A k \in Keys : wver[w][k] <= origin[k].ver
  /\ wcmd[w] = "SET" /\ wpc[w] \in {"sent", "through", "throughStore"} =>
       \A k \in wkeys[w] : wver[w][k] >= 1
  /\ wpc[w] = "throughStore" =>
       \A k \in wkeys[w] : lock[StripeOf[k]] = w /\ ~Present(prob[k])

AdminInv(a) ==
  /\ drop[a] # None \/ apc[a] = "apply" => aop[a] = "advance"
  /\ alock[a] > 0 => aop[a] = "purgeAll"
  /\ \A s \in Stripes : s < alock[a] => lock[s] = a
  /\ apc[a] \in Purging => alock[a] = NumStripes

KeyInv(k) ==
  /\ settled[k] <= origin[k].ver
  /\ Present(prot[k]) => prot[k].ver >= settled[k]
  /\ Present(prob[k]) => prob[k].ver >= settled[k]
  /\ ~(Present(prot[k]) /\ Present(prob[k]))

\* Stripe ownership and currency of everything in flight, in every state: the
\* epochs and the stripes keep what an overlapped write made obsolete out of
\* both tiers, and a key out of one tier while the other takes it.
StripeDiscipline ==
  /\ \A r \in Readers : ReaderInv(r) /\ FillInv(r)
  /\ \A p \in Procs : DropInv(p)
  /\ \A w \in Writers : WriterInv(w)
  /\ \A a \in Admins : AdminInv(a)
  /\ \A k \in Keys : KeyInv(k)
-----------------------------------------------------------------------------
(***************************************************************************)
(* The write side: gates, and the versions of a write between its dispatch *)
(* and its acknowledgement.                                                *)
(***************************************************************************)
Gated(w) == wpc[w] \notin {"gate", "reply", "done"}
Underway(w) == wpc[w] \in {"send", "sent", "through", "throughStore", "final"}

\* A gate has one owner, and a write that is past acquireMutationGates owns the
\* gates of all its keys.
GateInv(w) ==
  /\ \A s \in Stripes : s \in held[w] <=> gate[s] = w
  /\ Gated(w) => Needed(w) \subseteq held[w]

\* The write has finalized the key.
Finalized(w, k) == \/ wpc[w] \in {"forget", "release", "reply"}
                   \/ wpc[w] = "final" /\ k \notin wtodo[w]

\* What a write made is newer than what is finalized until it is finalized itself.
OrderInv(w) ==
  /\ wtodo[w] \subseteq wkeys[w]
  /\ Underway(w) /\ wpc[w] # "final" => wtodo[w] = wkeys[w]
  /\ \A k \in Keys \ wkeys[w] : wver[w][k] = 0
  /\ wpc[w] \in {"gate", "pre"} => \A k \in Keys : wver[w][k] = 0
  /\ \A k \in wkeys[w] :
       /\ Underway(w) /\ wver[w][k] # 0 => wver[w][k] >= settled[k]
       /\ Finalized(w, k) => wver[w][k] <= settled[k]

\* Nothing reaches the origin past the gates: no direct writes, and none that
\* the origin applies after the call returned.
Calm == Env \cap {"external", "late"} = {}

\* The write may have changed the key at the origin and is yet to finalize it.
InDoubt(w, k) == /\ k \in wkeys[w] /\ tries[w] > 0 /\ Underway(w)
                 /\ wpc[w] = "final" => k \in wtodo[w]
                 /\ wver[w][k] = origin[k].ver

WriteDiscipline ==
  /\ \A w \in Writers : GateInv(w) /\ OrderInv(w)
  /\ \A k \in Keys : acked[k] <= settled[k]
  /\ \A w \in Writers : late[w] => "late" \in Env
  /\ Calm => /\ \A w \in Writers : \A k \in wkeys[w] :
                  Underway(w) /\ wver[w][k] # 0 => wver[w][k] = origin[k].ver
             /\ \A k \in Keys : \/ settled[k] = origin[k].ver
                                \/ \E w \in Writers : InDoubt(w, k)

(***************************************************************************)
(* The copies: every version in a tier, or that may still be put into one, *)
(* came from the origin, and, unless a write-through may carry a version   *)
(* across a purge, after the last purge of its key.                        *)
(***************************************************************************)
RefillsOnly == "SET" \in WriteOps => Calm

InBounds(v, k) == v <= origin[k].ver /\ (RefillsOnly => v >= purged[k])

CopyDiscipline ==
  /\ \A w \in Writers : wcmd[w] \in WriteOps
  /\ \A k \in Keys :
       /\ purged[k] <= origin[k].ver
       /\ Present(prot[k]) => InBounds(prot[k].ver, k)
       /\ Present(prob[k]) => InBounds(prob[k].ver, k)
  /\ \A r \in Readers :
       /\ pc[r] \in Holding \ {"flagOff"} => InBounds(cand[r].ver, cur[r])
       /\ \A k \in Keys : Storable(r, k) => InBounds(got[r][k].ver, k)
  /\ \A a \in Admins, k \in Keys :
       /\ apc[a] \in {"purgeProb", "bump"} => ~Present(prot[k])
       /\ apc[a] = "bump" => ~Present(prob[k])

(***************************************************************************)
(* The tracker: why a key that is about to be stored as HOT may be.        *)
(***************************************************************************)
Demoting == {"obs", "flagOn", "takeCand", "promote", "flagOff", "admitted"}

\* The key is HOT, or its demotion is reported and will be applied.
HotOrReported(k) == IsHot(k) \/ \E p \in Procs : k \in pend[p]

HotDiscipline ==
  /\ \A k \in Keys : Present(prot[k]) => HotOrReported(k)
  /\ \A r \in Readers :
       /\ pc[r] = "promote" => hot[r]
       /\ pc[r] \in {"flagOn", "takeCand", "promote"} /\ hot[r] => HotOrReported(cur[r])
       /\ fpc[r] = "storeProt" => HotOrReported(fkey[r])
       /\ pend[r] # {} => pc[r] \in Demoting
  /\ \A w \in Writers :
       /\ pend[w] = {}
       /\ wpc[w] = "throughStore" /\ whot[w] => \A k \in wkeys[w] : HotOrReported(k)
  /\ \A a \in Admins : pend[a] # {} => apc[a] = "apply"
  /\ \A p \in Procs : drop[p] # None /\ "promote" \notin Env => ~IsHot(drop[p])

(***************************************************************************)
(* The read side: what a request has in hand, and what the flight it waits *)
(* for has fetched, is as new as every write acknowledged before it began. *)
(***************************************************************************)
LookupPC == ReaderPC \ {"join", "wait", "fetch", "mfetch", "fill", "stale", "done"}

Fetched(r) == fpc[r] \notin {"none", "fetch"} /\ ~ferr[r]

\* The write has made the group forget the key's flight.
Forgot(w, k) == \/ wpc[w] \in {"release", "reply"}
                \/ wpc[w] = "forget" /\ k \notin wtodo[w]

FloorInv(r) ==
  /\ \A k \in Keys : floor[r][k] <= acked[k]
  /\ \A k \in Keys : res[r][k] # NoResult => res[r][k] >= floor[r][k]
  /\ pc[r] \in LookupPC => \A k \in todo[r] : res[r][k] = NoResult
  /\ pc[r] \in LookupPC \ {"next"} => cur[r] \notin todo[r]
  /\ pc[r] \in Holding \cup {"admitted"} /\ Present(cand[r]) =>
       cand[r].ver >= floor[r][cur[r]]

FlightInv(r) ==
  /\ pc[r] = "wait" =>
       /\ cur[flight[r]] = cur[r] /\ fpc[flight[r]] # "none"
       /\ Fetched(flight[r]) => got[flight[r]][cur[r]].ver >= floor[r][cur[r]]
  /\ \A k \in Keys : group[k] = r =>
       /\ cur[r] = k /\ fpc[r] # "none"
       /\ Fetched(r) =>
            /\ got[r][k].ver >= acked[k]
            /\ \A w \in Writers : k \in wkeys[w] /\ Forgot(w, k) /\ wok[w] =>
                 got[r][k].ver >= wver[w][k]

ReadDiscipline == \A r \in Readers : FloorInv(r) /\ FlightInv(r)

(***************************************************************************)
(* Moves between the tiers: where the copy of a key is that a request found *)
(* when it began, as long as nothing but a write or its age removes copies. *)
(***************************************************************************)
\* The tracker demotes and evicts nothing, tiers accept what they are given, and
\* nobody purges or closes them.
Steady == /\ Env \cap {"demote", "promote", "evict", "reject"} = {}
          /\ AdminOps \subseteq {"advance"}

\* No write of the key has begun.
Untouched(k) == \A w \in Writers : k \in wkeys[w] => wpc[w] = "gate"

Taking(k) == \E q \in Readers : pc[q] \in {"flagOn", "takeCand"} /\ cur[q] = k
InTransit(k) == \E q \in Readers : pc[q] = "promote" /\ cur[q] = k
Arriving(k) == Fresh(prot[k]) \/ InTransit(k)
Servable(k) == Fresh(prob[k]) \/ Arriving(k)

\* Nothing is removed for another reason.
SteadyInv ==
  /\ \A p \in Procs : pend[p] = {} /\ drop[p] = None
  /\ \A part \in Parts : ~closed[part]
  /\ \A a \in Admins : aop[a] = "advance" /\ apc[a] \in {"start", "done"}
  /\ \A w \in Writers : /\ late[w] => wpc[w] # "gate"
                        /\ wpc[w] = "throughStore" /\ whot[w] => wkeys[w] \subseteq CacheKeys

\* Only a key that is being promoted is HOT and on probation.
PlaceInv(k) ==
  /\ Present(prot[k]) => k \in CacheKeys
  /\ Present(prob[k]) => k \in CacheKeys /\ IsTracked(k) /\ Probationary
  /\ Present(prob[k]) /\ IsHot(k) => Taking(k)
  /\ Untouched(k) => origin[k].exists

\* A promotion has its candidate, its key is HOT, and its flag is up before the
\* candidate leaves probation.
PromotionInv(r) ==
  /\ pc[r] \in Holding => /\ cur[r] \in CacheKeys /\ IsTracked(cur[r])
                          /\ Present(cand[r]) /\ Probationary
  /\ pc[r] \in Holding \ {"admit"} => hot[r] /\ IsHot(cur[r])
  /\ pc[r] \in {"takeCand", "promote", "flagOff"} => promoting[Stripe(r)]
  /\ pc[r] \notin {"obs", "admitted"}

\* A fill deletes no copy of a key that exists, and stores where the key belongs.
PlacementInv(r) ==
  /\ pc[r] = "join" \/ fpc[r] = "fetch" => cur[r] \in CacheKeys
  /\ ftodo[r] \subseteq CacheKeys
  /\ fpc[r] = "storeProb" => ~IsHot(fkey[r])
  /\ \A k \in ftodo[r] :
       fpc[r] \in {"lock"} \cup Reconciling /\ Untouched(k) => got[r][k].exists

\* The copy a request found is where the request has yet to look.
FoundInv(r) ==
  had[r] /\ Untouched(cur[r]) =>
    /\ pc[r] # "miss"
    /\ pc[r] = "lookProb" => Probationary
    /\ pc[r] \in {"lookProt", "lookProb", "lockCand"} => Servable(cur[r])
    /\ pc[r] \in {"recheck", "flag", "lockProt"} => Arriving(cur[r])
    /\ pc[r] = "lateProt" => Fresh(prot[cur[r]])

MoveDiscipline ==
  /\ SteadyInv
  /\ \A k \in Keys : PlaceInv(k)
  /\ \A r \in Readers : PromotionInv(r) /\ PlacementInv(r) /\ FoundInv(r)
=============================================================================
