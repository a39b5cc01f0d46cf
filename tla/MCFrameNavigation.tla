--------------------------- MODULE MCFrameNavigation ---------------------------
(* Two hosts: the second is every other host the frame may move to.  A reload      *)
(* stands for any document, as the frame may hold galaxies or not; the second      *)
(* navigation may be to an archive.                                                *)
EXTENDS FrameNavigation, TLC
CONSTANTS h1, h2
MCKinds == <<{"reload"}, {"mhtml", "reload"}, {"reload"}>>
================================================================================
