--------------------------- MODULE MCSenderBlock ---------------------------
(* Instances of SenderBlock for TLC. *)
EXTENDS SenderBlock
=============================================================================
