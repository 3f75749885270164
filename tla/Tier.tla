-------------------------------- MODULE Tier ---------------------------------
(***************************************************************************)
(* What the rest of the system may rely on of a cache tier: it is a lossy  *)
(* map.  A key holds what the last accepted store gave it or nothing; only *)
(* a store may cost other keys their entries; once shut it holds nothing.  *)
(***************************************************************************)
CONSTANTS Keys, Entries, Absent

VARIABLES tier, shut

TypeOK == tier \in [Keys -> Entries \cup {Absent}] /\ shut \in BOOLEAN

Init == tier = [k \in Keys |-> Absent] /\ shut = FALSE

Stored(key, ent) ==
  /\ ~shut
  /\ tier' \in {t \in [Keys -> Entries \cup {Absent}] :
                  /\ t[key] = ent
                  /\ \A k \in Keys \ {key} : t[k] \in {tier[k], Absent}}
  /\ UNCHANGED shut

Removed(key) == tier' = [tier EXCEPT ![key] = Absent] /\ UNCHANGED shut

Cleared == tier' = [k \in Keys |-> Absent] /\ shut' \in {shut, TRUE}

Next == \/ \E key \in Keys : Removed(key) \/ \E ent \in Entries : Stored(key, ent)
        \/ Cleared

Spec == Init /\ [][Next]_<<tier, shut>>
=============================================================================
