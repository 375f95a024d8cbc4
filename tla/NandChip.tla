------------------------------ MODULE NandChip ------------------------------
(***************************************************************************)
(* What the two NAND drivers share: InitDevice() and the calls of          *)
(* bblk_read() that read pages one after the other into memory.  A page is *)
(* stored with the parity of its data; the SPI driver puts the parity      *)
(* behind the data, where the data of the next page will go.               *)
(***************************************************************************)
EXTENDS Integers, Sequences

CONSTANTS LastPage,     \* the chip has the pages 0..LastPage
          MaxLength,    \* longest read, in pages
          MaxReads,     \* bound on the calls of bblk_read
          MaxFailures     \* bound on what may go wrong

Pages == 0..LastPage
ASSUME NandAssumption ==
    /\ LastPage \in Nat /\ MaxLength \in 1..LastPage + 1
    /\ MaxReads \in Nat /\ MaxFailures \in Nat

VARIABLES kind,         \* "spi" or "para": the chip g_bootinfo.gsdev is for
          page,         \* the pages: "good", "bad" (beyond the ECC), "erased"
          pc,           \* where the program is
          asked,        \* bblk_read: first page and number of pages
          j,            \* bblk_read: pages read so far
          mem,          \* the memory at dst, in pages
          result,       \* of the last bblk_read
          gInitNand_flag,
          reads, failures

nand == <<kind, page, asked, j, mem, result, gInitNand_flag, reads>>
shared == <<nand, pc, failures>>

Content == [what : {"data", "raw", "parity"}, page : Pages] \union
           [what : {"zero", "ff"}, page : {LastPage + 1}]
Zero == [what |-> "zero", page |-> LastPage + 1]
AllOnes == [what |-> "ff", page |-> LastPage + 1]
Stored(w, p) == IF page[p] = "erased" THEN AllOnes ELSE [what |-> w, page |-> p]
Data(p) == Stored("data", p)

ChipTypeOK ==
    /\ kind \in {"spi", "para"} /\ page \in [Pages -> {"good", "bad", "erased"}]
    /\ asked \in [first : Pages, len : 0..MaxLength]
    /\ asked.first + asked.len <= LastPage + 1 /\ j \in 0..asked.len
    /\ mem \in [0..MaxLength -> Content]
    /\ result \in {"none", "good", "failed"} /\ (result = "good" => j = asked.len)
    /\ gInitNand_flag \in {0, 1} /\ (pc = "idle" <=> gInitNand_flag = 1 /\ result # "none")
    /\ reads \in 0..MaxReads /\ failures \in 0..MaxFailures

ChipInit ==
    /\ kind \in {"spi", "para"} /\ page \in [Pages -> {"good", "bad", "erased"}]
    /\ asked = [first |-> 0, len |-> 0] /\ j = 0
    /\ mem = [s \in 0..MaxLength |-> Zero]
    /\ result = "none" /\ gInitNand_flag = 0
    /\ reads = 0 /\ failures = 0

Fault == failures < MaxFailures /\ failures' = failures + 1
Fine == UNCHANGED failures

(* The time of a wait is over; a fault, when what is waited for would still
   come.  (mutant: the waits are not limited) *)
Expires_never(late) == FALSE
Expires(late) == IF late THEN Fault ELSE Fine

(* InitNand: the flag is set when the driver's start succeeded. *)
Started(ok) ==
    /\ gInitNand_flag' = IF ok THEN 1 ELSE 0
    /\ result' = IF ok THEN "good" ELSE "failed"
    /\ pc' = IF ok THEN "idle" ELSE "no_nand"
    /\ UNCHANGED <<kind, page, asked, j, mem, reads>>

(* bblk_read, up to the read of the first page *)
CallRead(step) ==
    /\ pc = "idle" /\ reads < MaxReads /\ reads' = reads + 1
    /\ \E p \in Pages, n \in 1..MaxLength :
          p + n - 1 \in Pages /\ asked' = [first |-> p, len |-> n]
    /\ j' = 0 /\ result' = "none" /\ pc' = step
    /\ Fine /\ UNCHANGED <<kind, page, mem, gInitNand_flag>>

AllRead(n) == n = asked.len

(* the result of a page read in bblk_read: the next page, or back to the caller *)
PageDone(ok, step) ==
    /\ j' = IF ok THEN j + 1 ELSE j
    /\ result' = IF ~ok THEN "failed" ELSE IF AllRead(j') THEN "good" ELSE "none"
    /\ pc' = IF result' = "none" THEN step ELSE "idle"
    /\ UNCHANGED <<kind, page, asked, mem, gInitNand_flag, reads>>

ThePage == asked.first + j

(* A read that succeeded left every page it was asked for in memory, in order,
   however late an earlier transfer ends, and no page beyond correction is
   among them: bblk_read trusts the driver's result alone. *)
PagesWhole == \A s \in 0..asked.len - 1 :
    /\ mem[s] = Data(asked.first + s)
    /\ page[asked.first + s] # "bad"
=============================================================================
