------------------------- MODULE MCSharedConnection -------------------------
(* Operations of the idioms, for TLC. *)
EXTENDS SharedConnection, TLC

CONSTANTS a, b, c, d

(* A cancelled operation may leave a transaction behind, or a write. *)
Mixed == (a :> "outer" @@ b :> "inner" @@ c :> "plain" @@ d :> "outer")

(* A projection is committed while a transcript is appended. *)
Context == (a :> "inner" @@ b :> "whole")
=============================================================================
