------------------------- MODULE MCAgentEnginePool --------------------------
(* AgentEnginePool for TLC: clients are interchangeable, and so are the
   profiles that are not pinned. *)
EXTENDS AgentEnginePool, TLC

Symmetry == Permutations(Clients) \cup Permutations(Profiles \ Pinned)
=============================================================================
