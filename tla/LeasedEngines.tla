--------------------------- MODULE LeasedEngines ----------------------------
(***************************************************************************)
(* What the pool promises its clients: at most Capacity engines, one per   *)
(* profile.  An engine that became outdated while it was built is never    *)
(* used.  One that is retired takes no new user and begins to close the    *)
(* moment it has none; only a pool that was shut closes engines in use.    *)
(***************************************************************************)
EXTENDS Naturals, FiniteSets

CONSTANTS Profiles, Clients, Capacity

VARIABLES open,     \* the pool has not been shut
          place,    \* where the engine of a profile is, "absent" without one
          users     \* who uses it

vars == <<open, place, users>>

Present == {k \in Profiles : place[k] # "absent"}

Init == /\ open = TRUE
        /\ place = [k \in Profiles |-> "absent"]
        /\ users = [k \in Profiles |-> {}]

Moves(k, from, to) == /\ place[k] \in from
                      /\ place' = [place EXCEPT ![k] = to]
                      /\ UNCHANGED <<open, users>>

Build(k) == open /\ Cardinality(Present) < Capacity /\ Moves(k, {"absent"}, "building")

Complete(k) == open /\ Moves(k, {"building"}, "usable")

Abandon(k) == open /\ Moves(k, {"building", "stale"}, "absent")

Outdate(ks) == /\ place' = [k \in Profiles |->
                     IF k \in ks /\ place[k] = "building" THEN "stale" ELSE place[k]]
               /\ UNCHANGED <<open, users>>

Lease(c, k) == /\ open /\ place[k] = "usable"
               /\ users' = [users EXCEPT ![k] = @ \cup {c}]
               /\ UNCHANGED <<open, place>>

Return(c, k) == /\ c \in users[k]
                /\ users' = [users EXCEPT ![k] = @ \ {c}]
                /\ place' = IF place[k] = "draining" /\ users[k] = {c}
                            THEN [place EXCEPT ![k] = "closing"] ELSE place
                /\ UNCHANGED open

Retire(k) == Moves(k, {"usable", "draining"}, IF users[k] = {} THEN "closing" ELSE "draining")

Remove(k) == Moves(k, {"closing"}, "absent")

Shut == open /\ open' = FALSE /\ UNCHANGED <<place, users>>

ForceClose(k) == ~open /\ Moves(k, {"usable", "draining"}, "closing")

DropAll == ~open /\ place' = [k \in Profiles |-> "absent"] /\ UNCHANGED <<open, users>>

Next == \/ \E k \in Profiles : \/ Build(k) \/ Complete(k) \/ Abandon(k)
                               \/ Retire(k) \/ Remove(k) \/ ForceClose(k)
                               \/ \E c \in Clients : Lease(c, k) \/ Return(c, k)
        \/ \E ks \in SUBSET Profiles : Outdate(ks)
        \/ Shut \/ DropAll

Spec == Init /\ [][Next]_vars
=============================================================================
