------------------------------ MODULE ParaNand ------------------------------
(***************************************************************************)
(* The parallel NAND driver (src/nand/para_nand.c, para_nand_hal.c): a     *)
(* page read is a command in the controller's queue; its data arrive,      *)
(* corrected, in the buffer region BMC_Region0 and are copied by the CPU.  *)
(* A page that cannot be corrected is read once more without the ECC: one  *)
(* of ones only is taken for erased.                                       *)
(***************************************************************************)
EXTENDS NandChip

VARIABLES queue,        \* commands fired and not yet executed
          sts,          \* latched status: "complete", "failed", "ecc"
          bmc,          \* pages in BMC_Region0
          ecc,          \* the ECC enable bits of OFFSET_ECC_CTRL
          status,       \* u8_cmd_status of PNAND_ReadPage
          timedOut      \* a command was given up since the start

paraOwn == <<queue, sts, bmc, ecc, status, timedOut>>

Reset == LastPage + 1   \* the RESET command; a number is the read of a page

ParaTypeOK ==
    /\ kind = "para" => pc \in {"soft_reset", "check_start", "idle", "fire", "check",
              "abort", "data", "fire_raw", "check_raw", "abort_raw", "data_raw"}
    /\ queue \in Seq(Pages \union {Reset}) /\ bmc \in Seq(Content)
    /\ sts \subseteq {"complete", "failed", "ecc"}
    /\ status \subseteq {"complete", "failed", "ecc"}
    /\ ecc \in BOOLEAN /\ timedOut \in BOOLEAN
    /\ (pc \in {"check_raw", "abort_raw", "data_raw", "fire_raw"} <=> kind = "para" /\ ~ecc
            /\ pc # "soft_reset")

ParaInit ==
    /\ queue = <<>> /\ sts = {} /\ bmc = <<>>
    /\ ecc = FALSE /\ status = {} /\ timedOut = FALSE

-----------------------------------------------------------------------------
(* The controller executes the oldest command, with the ECC setting of this
   moment; the chip may report a failure, or never answer. *)

Arrives(p) ==
    IF page[p] = "erased" THEN AllOnes
    ELSE [what |-> IF page[p] = "good" /\ ecc THEN "data" ELSE "raw", page |-> p]

Execute ==
    /\ kind = "para" /\ queue # <<>> /\ queue' = Tail(queue)
    /\ LET p == Head(queue) IN
       \/ /\ p = Reset /\ sts' = sts \union {"complete"} /\ Fine /\ UNCHANGED bmc
       \/ /\ p # Reset /\ bmc' = Append(bmc, Arrives(p)) /\ Fine
          /\ sts' = sts \union {"complete"}
                    \union IF ecc /\ page[p] # "good" THEN {"ecc"} ELSE {}
       \/ /\ p # Reset /\ sts' = sts \union {"complete", "failed"} /\ Fault /\ UNCHANGED bmc
       \/ Fault /\ UNCHANGED <<sts, bmc>>
    /\ UNCHANGED <<nand, pc, ecc, status, timedOut>>

-----------------------------------------------------------------------------
(* The registers of the controller: the model keeps the ECC enable bits.  The
   size of the block is set from the length of the redundancy, which is 0. *)
EccSetting == TRUE
hw_init_and_setting == EccSetting

(* Page_read_setting, Setting_feature_and_fire *)
Fired(p) == Append(queue, p)

(* PNAND_InitDriver: the settings are made twice, with a reset of the chip,
   whose result is ignored, in between.  The header is always there. *)
ParaReset ==
    /\ pc = "soft_reset" /\ pc' = "check_start"
    /\ ecc' = hw_init_and_setting /\ queue' = <<Reset>>
    /\ Fine /\ UNCHANGED <<nand, sts, bmc, status, timedOut>>

(* Check_command_status: polls for 5 s; the status bits are looked at only
   when the command is complete.  A failed command is aborted: queue and
   buffer are emptied and the chip is reset. *)
Complete(next, abort) ==
    /\ "complete" \in sts /\ Fine /\ UNCHANGED timedOut
    /\ IF "failed" \in sts
       THEN /\ sts' = sts \ {"complete", "failed"} /\ pc' = abort
            /\ queue' = <<Reset>> /\ bmc' = <<>>
       ELSE sts' = {} /\ pc' = next /\ UNCHANGED <<queue, bmc>>

GiveUp(next) ==
    /\ "complete" \notin sts /\ Expires(queue # <<>>) /\ timedOut' = TRUE
    /\ pc' = next /\ UNCHANGED <<queue, sts, bmc>>

CheckStart ==
    /\ pc = "check_start" /\ "failed" \notin sts
    /\ \/ "complete" \in sts /\ sts' = {} /\ Fine /\ UNCHANGED timedOut
       \/ "complete" \notin sts /\ Expires(queue # <<>>) /\ timedOut' = TRUE /\ UNCHANGED sts
    /\ Started(TRUE) /\ UNCHANGED <<queue, bmc, ecc, status>>

-----------------------------------------------------------------------------
(* PNANDReadNANDPage_1K60, PNAND_ReadPage *)

ParaCall == CallRead("fire") /\ UNCHANGED paraOwn

(* The buffer is cleared and the read of the page fired. *)
Fire ==
    /\ pc = "fire" /\ pc' = "check"
    /\ mem' = [mem EXCEPT ![j] = Zero] /\ queue' = Fired(ThePage)
    /\ Fine /\ UNCHANGED <<kind, page, asked, j, result, gInitNand_flag, reads,
                           sts, bmc, ecc, status, timedOut>>

Check ==
    /\ pc = "check"
    /\ \/ Complete("data", "abort") /\ status' = sts \ (IF "failed" \in sts THEN {"ecc"} ELSE {})
       \/ GiveUp("data") /\ status' = {}
    /\ UNCHANGED <<nand, ecc>>

(* Abort_operation waits for its reset with Check_command_status, which clears
   an ECC error of the failed read; when it gives up, the caller sees it. *)
Abort ==
    /\ pc \in {"abort", "abort_raw"}
    /\ LET next == IF pc = "abort" THEN "data" ELSE "data_raw" IN
       \/ Complete(next, pc) /\ UNCHANGED status
       \/ /\ GiveUp(next)
          /\ status' = IF pc = "abort" THEN status \union (sts \intersect {"ecc"}) ELSE status
    /\ UNCHANGED <<nand, ecc>>

(* Data_read: a page is copied from the buffer; when none comes for 100 ms
   the memory stays as it is, and nobody is told. *)
Copy ==
    \/ /\ bmc # <<>> /\ bmc' = Tail(bmc)
       /\ mem' = [mem EXCEPT ![j] = Head(bmc)]
    \/ bmc = <<>> /\ UNCHANGED <<bmc, mem>>

PageReturn(st) ==
    /\ j' = IF st \intersect {"failed", "ecc"} = {} THEN j + 1 ELSE j
    /\ result' = IF j' = j THEN "failed" ELSE IF AllRead(j') THEN "good" ELSE "none"
    /\ pc' = IF result' = "none" THEN "fire" ELSE "idle"

DataRead ==
    /\ pc = "data" /\ Copy /\ Fine
    /\ IF "ecc" \in status
       THEN pc' = "fire_raw" /\ ecc' = FALSE /\ UNCHANGED <<j, result>>
       ELSE PageReturn(status) /\ UNCHANGED ecc
    /\ UNCHANGED <<kind, page, asked, gInitNand_flag, reads, queue, sts, status, timedOut>>

(* the case that the data are ones only: once more without the ECC *)
FireRaw ==
    /\ pc = "fire_raw" /\ pc' = "check_raw" /\ queue' = Fired(ThePage)
    /\ Fine /\ UNCHANGED <<nand, sts, bmc, ecc, status, timedOut>>

CheckRaw ==
    /\ pc = "check_raw" /\ (Complete("data_raw", "abort_raw") \/ GiveUp("data_raw"))
    /\ UNCHANGED <<nand, ecc, status>>

(* Restore the ECC setting. *)
EccRestored(data) == TRUE

DataReadRaw ==
    /\ pc = "data_raw" /\ Copy /\ Fine
    /\ PageReturn(IF mem'[j] = AllOnes THEN status \ {"ecc"} ELSE status)
    /\ ecc' = EccRestored(mem'[j])
    /\ UNCHANGED <<kind, page, asked, gInitNand_flag, reads, queue, sts, status, timedOut>>

ParaProgramStep == ParaReset \/ CheckStart \/ Fire \/ Check \/ Abort \/ DataRead
                   \/ FireRaw \/ CheckRaw \/ DataReadRaw
ParaNext == kind = "para" /\ (ParaCall \/ ParaProgramStep \/ Execute)
=============================================================================
