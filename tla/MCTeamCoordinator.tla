------------------------- MODULE MCTeamCoordinator -------------------------
(* A small team for TLC. *)
EXTENDS TeamCoordinator, TLC

CONSTANTS a, b, c

(* Two tasks that write and one that reads, which needs one of them and may *)
(* work beside the other.  The definition lists the tasks in any order.     *)
Three == {a, b, c}
OneNeeds == (a :> {} @@ b :> {} @@ c :> {a})
Backward == (c :> 1 @@ b :> 2 @@ a :> 3)
=============================================================================
