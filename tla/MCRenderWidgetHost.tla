-------------------------- MODULE MCRenderWidgetHost --------------------------
(* RenderWidgetHost for TLC. *)
EXTENDS RenderWidgetHost

MCSizes == {0, 1, 2}
MCScales == {1, 2}
MCRects == {1, 2}
=============================================================================
