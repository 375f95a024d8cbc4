----------------------------- MODULE MCNandPage -----------------------------
(* Three pages, reads of up to two: one has a transfer before it and one behind
   it to be mistaken for the other; two calls and two failures, so that what
   was left by the first call meets the second. *)
EXTENDS NandPage
=============================================================================
