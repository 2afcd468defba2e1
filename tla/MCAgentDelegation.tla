------------------------- MODULE MCAgentDelegation --------------------------
(* AgentDelegation for TLC: the root makes the calls a1, a2, ..., and the
   child that a1 starts makes b1.  The root's other calls are interchangeable. *)
EXTENDS AgentDelegation, TLC

CONSTANTS a1, b1

MCParent == [c \in Calls |-> IF c = b1 THEN a1 ELSE Root]

Symmetry == Permutations(Calls \ {a1, b1})
=============================================================================
