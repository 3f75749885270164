------------------------------ MODULE MCService ------------------------------
(* Small instances of Service for TLC. *)
EXTENDS ServiceInv, TLC

CONSTANTS k1, k2, r1, r2, w1, w2, a1

OneKey == {k1}
TwoKeys == {k1, k2}
OneStripe == [k \in Keys |-> 0]
OwnStripes == [k \in Keys |-> IF k = k1 THEN 0 ELSE 1]
AllCached == [k \in Keys |-> "cache"]
SecondDenied == [k \in Keys |-> IF k = k1 THEN "cache" ELSE "deny"]

\* At most three of the requests are ever started, and two of them once the client
\* library has sent a write again.
Started == {r \in Readers : pc[r] # "next"} \cup {a \in Admins : apc[a] # "start"}
           \cup {w \in Writers : wpc[w] # "gate" \/ held[w] # {}}
FewerRepeated ==
  Cardinality(Started) <= IF \E w \in Writers : tries[w] > 1 THEN 2 ELSE 3

\* Or two of them once an origin call has failed or another client has
\* written.
CallFailed ==
  \/ \E r \in Readers : ferr[r] \/ out[r] = "error"
  \/ \E w \in Writers :
       \/ late[w] \/ tries[w] > 1
       \/ wpc[w] \in {"final", "forget", "release", "reply", "done"} /\ ~wok[w]
OthersWrote == \E k \in Keys : origin[k].ver > Cardinality({w \in Writers : tries[w] > 0})
FewerInTrouble == Cardinality(Started) <= IF CallFailed \/ OthersWrote THEN 2 ELSE 3

\* Either all requests are about the first key, or the write is a batch of both
\* keys, which share a stripe.
Batch == \E w \in Writers : wkeys[w] = Keys
SharedInit ==
  /\ Init /\ \A a \in Admins : akey[a] = k1
  /\ ~Batch => /\ \A r \in Readers : todo[r] = {k1}
               /\ \A w \in Writers : wkeys[w] = {k1}
SharedSpec == SharedInit /\ [][Next]_vars

\* Of a batch and its readers no more than two, without trouble.
SharedBound ==
  IF Batch THEN Cardinality(Started) <= 2 /\ ~CallFailed /\ ~OthersWrote
  ELSE FewerInTrouble /\ origin[k2].ver = 0

\* The requests that come together: a read and a batch of both keys, with another
\* write or with a purge of everything; or two reads, which may share a flight.
Groups == {{r1, w1, w2}, {r1, w1, a1}, {r1, r2}}

\* The first step tells which of them come; the others count as answered.
Gather ==
  /\ Started = {}
  /\ \E G \in Groups :
       /\ pc' = [r \in Readers |-> IF r \in G THEN pc[r] ELSE "done"]
       /\ wpc' = [w \in Writers |-> IF w \in G THEN wpc[w] ELSE "done"]
       /\ apc' = [a \in Admins |-> IF a \in G THEN apc[a] ELSE "done"]
  /\ UNCHANGED <<sharedVars, op, todo, cur, hot, cand, miss, ep, res, out, flight, transVars,
                 fillVars, wcmd, wkeys, held, wtodo, adv, wver, wok, whot, late, tries, aop,
                 akey, alock, histVars>>

GroupInit ==
  /\ Init /\ op[r2] = "GET" /\ todo[r2] = {k1}
  /\ op[r1] = "MGET" => todo[r1] = Keys
  /\ wkeys[w1] = Keys /\ wkeys[w2] = Keys /\ akey[a1] = k1
GroupSpec == GroupInit /\ [][Gather \/ Next]_vars /\ WF_vars(Gather) /\ Fairness

\* No request starts before that.
Done == {r \in Readers : pc[r] = "done"} \cup {w \in Writers : wpc[w] = "done"}
        \cup {a \in Admins : apc[a] = "done"}
Gathered ==
  Started = {} \/ \E G \in Groups : (Readers \cup Writers \cup Admins) \ G \subseteq Done

RequestSymmetry == Permutations(Readers) \cup Permutations(Writers)
=============================================================================
