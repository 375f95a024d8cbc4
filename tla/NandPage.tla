----------------------------- MODULE NandPage -----------------------------
(***************************************************************************)
(* One board with either NAND chip and its driver: what bblk_read() of     *)
(* NandBoot relies on when it reads a page.                                *)
(***************************************************************************)
EXTENDS SpiNand, ParaNand

pageVars == <<shared, spiOwn, paraOwn>>
PageInit ==
    /\ ChipInit /\ SpiInit /\ ParaInit
    /\ pc = IF kind = "spi" THEN "reset" ELSE "soft_reset"
PageNext == (SpiNext /\ UNCHANGED paraOwn) \/ (ParaNext /\ UNCHANGED spiOwn)

(* The program goes on; every transfer and command ends.  The waits for the
   decoder, the soft resets and the command queue have no limit of their own. *)
PageFairness ==
    /\ WF_pageVars(kind = "spi" /\ SpiProgramStep /\ UNCHANGED paraOwn)
    /\ WF_pageVars(DmaEnds /\ UNCHANGED paraOwn)
    /\ WF_pageVars(kind = "para" /\ ParaProgramStep /\ UNCHANGED spiOwn)
    /\ WF_pageVars(Execute /\ UNCHANGED spiOwn)
PageSpec == PageInit /\ [][PageNext]_pageVars /\ PageFairness

(* A good result of the SPI driver means that every page is in its place,
   even with a transfer given up earlier still running: the parity read with
   it does not fit the data of another page (spi_nand.c:690-717). *)
SpiReadIsWhole == kind = "spi" /\ result = "good" => PagesWhole

(* So does one of the parallel driver as long as no command was given up; an
   erased page counts as good (para_nand.c:283-328). *)
ParaReadIsWhole == kind = "para" /\ result = "good" /\ ~timedOut => PagesWhole

(* Whichever chip: a good read has brought the pages that were asked for
   (spi_nand.c:690, para_nand.c:283, xboot.c:1576-1660). *)
GoodReadIsWhole == SpiReadIsWhole /\ ParaReadIsWhole

(* Every call of bblk_read and InitDevice returns, whatever times out. *)
ReadReturns == (pc \notin {"idle", "no_nand"}) ~> (pc \in {"idle", "no_nand"})
=============================================================================
