------------------------- MODULE MCMessagePumpForUI -------------------------
(* Instances of MessagePumpForUI for TLC. *)
EXTENDS MessagePumpForUI, TLC

Symmetry == Permutations(Threads)
=============================================================================
