------------------------------ MODULE MCSdRead ------------------------------
(* Two blocks of two words, so that a CRC error is raised before, while and
   after words are taken; three read delays, so that the cycle begins at 2 for
   an SD card and at 0 for an eMMC device, and enough attempts for the six
   combinations to come round; two polls for a word, since all that counts is
   whether the controller is in time. *)
EXTENDS SdRead
=============================================================================
