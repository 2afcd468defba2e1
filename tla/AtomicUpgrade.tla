--------------------------- MODULE AtomicUpgrade ---------------------------
(***************************************************************************)
(* What ThreadPersistence.open promises the Hosts that share one database: *)
(* the upgrade of the schema happens in one step and is never undone, and  *)
(* only an upgraded database is ever served or written.                    *)
(***************************************************************************)
CONSTANT Hosts

VARIABLES data,     \* "source" | "final" (upgraded) | "used" (and written since)
          serving   \* the Hosts whose open has returned

vars == <<data, serving>>

Init == data = "source" /\ serving = {}

(* The one transaction that turns the source schema into the final one. *)
Upgrade == data = "source" /\ data' = "final" /\ UNCHANGED serving

Serve(h) == /\ data # "source" /\ h \notin serving
            /\ serving' = serving \cup {h}
            /\ UNCHANGED data

Write(h) == h \in serving /\ data' = "used" /\ UNCHANGED serving

Leave(h) == h \in serving /\ serving' = serving \ {h} /\ UNCHANGED data

Next == Upgrade \/ \E h \in Hosts : Serve(h) \/ Write(h) \/ Leave(h)

Spec == Init /\ [][Next]_vars
=============================================================================
