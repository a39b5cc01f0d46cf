------------------------- MODULE MCMessagePumpForIO -------------------------
(* Instances of MessagePumpForIO for TLC. *)
EXTENDS MessagePumpForIO

=============================================================================
