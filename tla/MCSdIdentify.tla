---------------------------- MODULE MCSdIdentify ----------------------------
(* Three faults anywhere, enough for a lost CMD0 before a lost CMD8 or ACMD6;
   three attempts, so that one is repeated and the last is not; four questions
   whether the card is ready, so that a card may be slower than that; three
   tries of a status, so that a fault is repeated and the last try is not seen
   to succeed. *)
EXTENDS SdIdentify
=============================================================================
