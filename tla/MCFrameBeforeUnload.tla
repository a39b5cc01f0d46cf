-------------------------- MODULE MCFrameBeforeUnload --------------------------
(* A page A1(B2(A3)): two processes, and a frame of the first below the second. *)
EXTENDS FrameBeforeUnload, TLC
CONSTANTS A1, B2, A3, a, b
MCOrder == <<A1, B2, A3>>
MCParent == (A1 :> None) @@ (B2 :> A1) @@ (A3 :> B2)
MCSite == (A1 :> a) @@ (B2 :> b) @@ (A3 :> a)
================================================================================
