------------------------- MODULE MCLinkSupervision -------------------------
(* Two modes, one of which the MAC starts in; everything may fail. *)
EXTENDS LinkSupervision
=============================================================================
