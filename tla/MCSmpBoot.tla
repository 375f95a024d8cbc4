----------------------------- MODULE MCSmpBoot -----------------------------
(* The four cores of the chip; fips of up to two entries, in every order, with
   or without BL31 and OP-TEE.  Nothing else is bounded. *)
EXTENDS SmpBoot
=============================================================================
