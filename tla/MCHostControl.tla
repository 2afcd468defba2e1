--------------------------- MODULE MCHostControl ----------------------------
(* Instances of HostControl for TLC. *)
EXTENDS HostControl, TLC

(* Connections, attachments and Run slots are interchangeable. *)
Symmetry ==
    Permutations(Attached) \cup Permutations(AttachmentIds) \cup Permutations(Runs)
=============================================================================
