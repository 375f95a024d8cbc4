----------------------------- MODULE MCXhciRing -----------------------------
(* A ring of six TRBs with the link, and transfers of up to four: they start
   at every place of the ring, with both cycle states, and lie across the link
   in every way.  Nothing but the ring and the transfers is bounded. *)
EXTENDS XhciRing
=============================================================================
