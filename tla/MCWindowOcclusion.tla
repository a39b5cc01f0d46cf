-------------------------- MODULE MCWindowOcclusion --------------------------
(* WindowOcclusion for TLC. *)
EXTENDS WindowOcclusion

CONSTANTS w1, w2
MCWindows == {w1, w2}
MCOneWindow == {w1}
=============================================================================
