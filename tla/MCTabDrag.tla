------------------------------- MODULE MCTabDrag -------------------------------
(* Two windows with three and one tabs, a window that can be created, a tab that can be
   opened. *)
EXTENDS TabDrag, TLC
CONSTANTS W1, W2, N1, a, b, c, d, e
MCStrips == (W1 :> <<a, b, c>>) @@ (W2 :> <<d>>) @@ (N1 :> <<>>)
================================================================================
