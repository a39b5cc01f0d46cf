---------------------------- MODULE MCFrameDeletion ----------------------------
(* A main frame (M1, then M2 of another process), two frames below it: C1, then C2
   of the other process, with a child D1 that may become D2, and E1. *)
EXTENDS FrameDeletion, TLC
CONSTANTS M1, M2, C1, C2, D1, D2, E1, a, b, m, c, d, e
MCOrder == <<M1, M2, C1, C2, E1, D1, D2>>
MCParent == (M1 :> None) @@ (M2 :> None) @@ (C1 :> M1) @@ (C2 :> M1) @@ (E1 :> C2)
            @@ (D1 :> C1) @@ (D2 :> C1)
MCNode == (M1 :> m) @@ (M2 :> m) @@ (C1 :> c) @@ (C2 :> c) @@ (E1 :> e) @@ (D1 :> d) @@ (D2 :> d)
MCSite == (M1 :> a) @@ (M2 :> b) @@ (C1 :> b) @@ (C2 :> a) @@ (E1 :> b) @@ (D1 :> b) @@ (D2 :> a)
MCFirst == {M1, C1, D1, E1}
================================================================================
