-------------------------- MODULE MCRenderProcessHost --------------------------
EXTENDS RenderProcessHost, TLC

CONSTANTS f1, f2, f3, v1, o1, o2

MCFrames    == {f1, f2, f3}
MCGuests    == {f3}
MCViews     == {v1}
MCObservers == {o1, o2}
MCGroup     == f1 :> o1 @@ f2 :> o2 @@ f3 :> o2
=============================================================================
