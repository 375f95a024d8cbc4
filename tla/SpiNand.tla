------------------------------- MODULE SpiNand -------------------------------
(***************************************************************************)
(* The SPI NAND driver as xBoot is built (src/nand/spi_nand.c with         *)
(* CFG_SUPPORT_DMA_MODE, src/nand/bch.c): a page is two DMA transfers,     *)
(* data and parity, and a decode.  Each wait gives up after 100 ms, but    *)
(* nothing stops the transfer that was waited for.                         *)
(***************************************************************************)
EXTENDS NandChip

VARIABLES dma,          \* the transfer the controller carries out: what, from
                        \* which page, to which place; or {}
          done,         \* the DMA done bit of spi_intr_sts
          ret,          \* of spi_nand_pageread_1k60 so far
          b0            \* the chip's mode: "buffer" or "continuous" read, in
                        \* which the column of a read is ignored

spiOwn == <<dma, done, ret, b0>>

SpiTypeOK ==
    /\ kind = "spi" => pc \in {"reset", "id", "feature",
                               "set_feature", "no_nand", "idle", "data",
                               "data_go", "data_wait", "parity", "parity_go",
                               "parity_wait", "bch"}
    /\ dma = {} \/ \E t \in [slot : 0..MaxLength, got : Content] : dma = {t}
    /\ done \in BOOLEAN /\ ret \in {0, -1} /\ b0 \in {"buffer", "continuous"}

SpiInit == dma = {} /\ done = FALSE /\ ret = 0 /\ b0 \in {"buffer", "continuous"}

-----------------------------------------------------------------------------
(* initSPIDriver *)

(* Only the second wait of the reset is looked at. *)
SpiReset ==
    /\ pc = "reset"
    /\ \/ pc' = "id" /\ Fine /\ UNCHANGED nand
       \/ Fault /\ Started(FALSE)
    /\ UNCHANGED spiOwn

(* An ID of all ones means there is no chip; a wait that timed out is not
   noticed, and what the data register holds is the ID. *)
SpiReadId ==
    /\ pc = "id"
    /\ \/ pc' = "feature" /\ Fine /\ UNCHANGED nand
       \/ Fault /\ (Started(FALSE) \/ (pc' = "feature" /\ UNCHANGED nand))
    /\ UNCHANGED spiOwn

(* Register B0 is read, the bits of the chip's vendor are set or cleared in
   whatever the data register holds, and it is written back; both waits are
   ignored, and the chip may keep its mode. *)
SpiGetFeature ==
    /\ pc = "feature" /\ pc' = "set_feature"
    /\ Fine \/ Fault
    /\ UNCHANGED <<nand, spiOwn>>

SpiSetFeature ==
    /\ pc = "set_feature"
    /\ \/ b0' = "buffer" /\ Fine
       \/ UNCHANGED b0 /\ Fault
    /\ Started(TRUE)
    /\ UNCHANGED <<dma, done, ret>>

-----------------------------------------------------------------------------
(* spi_nand_pageread_1k60 *)

SpiCall == CallRead("data") /\ UNCHANGED spiOwn

(* the registers of the transfer are written and the status bits cleared ... *)
SpiProgram ==
    /\ pc \in {"data", "parity"} /\ done' = FALSE
    /\ pc' = IF pc = "data" THEN "data_go" ELSE "parity_go"
    /\ Fine /\ UNCHANGED <<nand, dma, ret, b0>>

(* the column is that of the data or of the parity *)
Transfer ==
    IF pc = "data_go" THEN [slot |-> j, got |-> Data(ThePage)]
    ELSE [slot |-> j + 1,
          got |-> IF b0 = "continuous" THEN Data(ThePage) ELSE Stored("parity", ThePage)]

(* ... then it is triggered.  A transfer given up earlier may still run: it
   goes on and the new one is lost, or it is dropped. *)
SpiTrigger ==
    /\ pc \in {"data_go", "parity_go"}
    /\ dma' = {Transfer} \/ (dma # {} /\ UNCHANGED dma)
    /\ pc' = IF pc = "data_go" THEN "data_wait" ELSE "parity_wait"
    /\ Fine /\ UNCHANGED <<nand, done, ret, b0>>

(* The controller ends its transfer, whoever waits for it, or falls silent. *)
DmaEnds ==
    /\ kind = "spi" /\ dma' = {}
    /\ \E t \in dma :
          \/ mem' = [mem EXCEPT ![t.slot] = t.got] /\ done' = TRUE /\ Fine
          \/ Fault /\ UNCHANGED <<mem, done>>
    /\ UNCHANGED <<kind, page, asked, j, result, gInitNand_flag, reads, pc, ret, b0>>

(* spi_nand_trigger_and_wait_dma: the parity is read even when the data was
   given up. *)
SpiWait ==
    /\ pc \in {"data_wait", "parity_wait"}
    /\ LET r == IF done THEN 0 ELSE -1
           both == IF pc = "data_wait" \/ ret = 0 THEN r ELSE -1
       IN /\ IF done THEN Fine ELSE Expires(dma # {})
          /\ IF pc = "data_wait" THEN pc' = "parity" /\ ret' = both /\ UNCHANGED nand
             ELSE /\ ret' = 0
                  /\ IF both = 0 THEN pc' = "bch" /\ UNCHANGED nand
                                 ELSE PageDone(FALSE, "data")
    /\ UNCHANGED <<dma, done, b0>>

(* bch_s338_process: data and parity in memory must belong together; what the
   decoder makes of ones only is not looked at. *)
Decodes(s) ==
    LET d == mem[s]  q == mem[s + 1] IN
    IF d.what = "data" /\ q = [d EXCEPT !.what = "parity"] /\ page[d.page] = "good"
    THEN {TRUE}
    ELSE IF d = AllOnes /\ q = AllOnes THEN BOOLEAN ELSE {FALSE}

(* (mutant: the decoder's result is ignored) *)
BCHProcess_ignored ==
    /\ pc = "bch" /\ PageDone(TRUE, "data")
    /\ Fine /\ UNCHANGED spiOwn
BCHProcess ==
    /\ pc = "bch" /\ \E ok \in Decodes(j) : PageDone(ok, "data")
    /\ Fine /\ UNCHANGED spiOwn

SpiProgramStep == SpiReset \/ SpiReadId \/ SpiGetFeature \/ SpiSetFeature \/ SpiProgram \/ SpiTrigger
                  \/ SpiWait \/ BCHProcess
SpiNext == kind = "spi" /\ (SpiCall \/ SpiProgramStep \/ DmaEnds)
=============================================================================
