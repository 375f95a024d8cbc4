------------------------------ MODULE NandBoot ------------------------------
(***************************************************************************)
(* Boot from NAND flash, SPI or parallel: nand_uboot(),                    *)
(* nand_load_uhdr_image(), bblk_find_image() and bblk_read() of            *)
(* src/xboot.c in the build with HAVE_UBOOT2_IN_NAND.                      *)
(*                                                                         *)
(* uboot1, the factory image, is somewhere in the SearchCnt blocks from    *)
(* app_blk_start on; uboot2, the update, is looked for behind it.  fip has *)
(* a place of its own.  One action is the read of one page with everything *)
(* the program does until the next one.                                    *)
(***************************************************************************)
EXTENDS Uhdr

CONSTANTS LastBlk,      \* the blocks of the chip are 0..LastBlk
          PagesPerBlk,  \* sys_nand.u16PageNoPerBlk
          SectSz,       \* payload of a page (sect_sz), in units
          AppBlk,       \* g_bootinfo.app_blk_start
          FipBlk,       \* (NAND_FIP_OFFSET + blk_use_sz - 1) / blk_use_sz / 2
          SearchCnt,    \* search_blk_cnt, 10 in every call
          SignSize,     \* SIGN_DATA_SIZE, in units: 0 or 1
          Chips,        \* the chips to boot from
          MaxFaults     \* bound on the reads of good pages that fail

Blk == 0..LastBlk
BlkUse == PagesPerBlk * SectSz          \* blk_use_sz
Up(units) == (units + BlkUse - 1) \div BlkUse

(* what starts at each block, and the pages that BCH cannot correct *)
Chip == [img : [Blk -> Image], bad : SUBSET (0..(LastBlk + 1) * PagesPerBlk - 1)]

(* what the chip holds, and one unit more: no image is longer *)
ChipLimit == (LastBlk + 1) * BlkUse + 1

(* Every search window, and the images that may be found in it, lie on the
   chip. *)
ASSUME ChipAssumption ==
    /\ LastBlk \in Nat /\ AppBlk \in Blk /\ FipBlk \in Blk
    /\ PagesPerBlk \in Nat \ {0} /\ SectSz \in Nat \ {0}
    /\ SearchCnt \in Nat \ {0}
    /\ SignSize \in {0, 1}
    /\ MaxFaults \in Nat
    /\ FipBlk + SearchCnt - 1 <= LastBlk
    /\ \A c \in Chips :
          /\ c \in Chip
          /\ \A b \in Blk : HeaderOk(c.img[b], "uboot") /\ b < AppBlk + SearchCnt =>
                AppBlk + Up(HdrSize + c.img[b].size) + SearchCnt - 1 <= LastBlk
          /\ \A b \in Blk : c.img[b].magic =>
                HdrSize + c.img[b].size + SignSize <= (LastBlk + 1 - b) * BlkUse
    /\ AppBlk + SearchCnt <= LastBlk

(* nand_load_uhdr_image returns a length that counts the header, so an image of
   no data whose sum is right would pass for a loaded one (xboot.c:1778). *)
ASSUME NoEmptyAssumption ==
    \A c \in Chips, b \in Blk : c.img[b].magic /\ c.img[b].size = 0 => ~c.img[b].body

(* Behind the header of a whole image is its data, and no data looks like a
   header at the start of a block. *)
ASSUME DataAssumption ==
    \A c \in Chips, b, d \in Blk :
        Whole(c.img[b], "uboot", ChipLimit) /\ b < d /\ d < b + Up(HdrSize + c.img[b].size)
            => ~c.img[d].magic

VARIABLES chip,         \* the flash; never written
          faults,       \* reads of good pages that failed
          failed,       \* some page read has failed
          stage,        \* which call of nand_load_uhdr_image runs, or the end
          step,         \* "find" the header (bblk_find_image) or "load"
          blk_start,    \* of nand_uboot: where the running search starts
          i,            \* of bblk_find_image; the header is at blk_start + i
          got,          \* of bblk_read
          read_length,  \* of bblk_read
          buf,          \* the buffers at UBOOT_LOAD_ADDR and FIP_LOAD_ADDR
          hdr1          \* size of uboot1 in the copy of its header, or 0

vars == <<chip, faults, failed, stage, step, blk_start, i, got, read_length,
          buf, hdr1>>

None == -1
Buffer == [src : Blk \union {None}, upto : Nat]
Empty == [src |-> None, upto |-> 0]

TypeOK ==
    /\ chip \in Chip
    /\ faults \in 0..MaxFaults
    /\ failed \in BOOLEAN
    /\ stage \in {"uboot1_hdr", "uboot2", "fallback", "fip", "return", "boot_uboot"}
    /\ step \in {"find", "load"}
    /\ blk_start \in Blk
    /\ i \in 0..SearchCnt - 1
    /\ blk_start + i \in Blk
    /\ read_length \in Nat
    /\ got \in Nat /\ got % SectSz = 0
    /\ buf \in [{"uboot", "fip"} -> Buffer]
    /\ hdr1 \in Nat

Init ==
    /\ chip \in Chips
    /\ faults = 0
    /\ failed = FALSE
    /\ stage = "uboot1_hdr"
    /\ step = "find"
    /\ blk_start = AppBlk
    /\ i = 0
    /\ got = 0
    /\ read_length = HdrSize
    /\ buf = [n \in {"uboot", "fip"} |-> Empty]
    /\ hdr1 = 0

-----------------------------------------------------------------------------
(* nand_uboot: the calls of nand_load_uhdr_image and what follows each *)

name == IF stage = "fip" THEN "fip" ELSE "uboot"
only_load_hdr == stage = "uboot1_hdr"
found == chip.img[blk_start + i]        \* the image the running search is at

(* a call of nand_load_uhdr_image starts with the search for a header *)
Load(next, blk_off) ==
    /\ stage' = next /\ blk_start' = blk_off
    /\ step' = "find" /\ i' = 0 /\ got' = 0 /\ read_length' = HdrSize

End(how) ==
    stage' = how /\ UNCHANGED <<step, blk_start, i, got, read_length>>

(* where uboot2 may start (mutant: the last, partly used block not counted) *)
BehindUboot1_down(size) == (HdrSize + size) \div BlkUse
BehindUboot1(size) == Up(HdrSize + size)

(* Is there a uboot1 to fall back to? *)
HaveUboot1(size) == size > 0

(* What nand_uboot does with the result; ok is `len > 0'. *)
Return(ok) ==
    /\ hdr1' = IF stage = "uboot1_hdr" /\ ok THEN found.size ELSE hdr1
    /\ \/ stage = "uboot1_hdr" /\ ok
          /\ Load("uboot2", blk_start + BehindUboot1(found.size))
       \/ stage = "uboot1_hdr" /\ ~ok /\ Load("uboot2", blk_start + 1)
       \/ stage = "uboot2" /\ ~ok /\ HaveUboot1(hdr1) /\ Load("fallback", AppBlk)
       \/ stage = "uboot2" /\ ~ok /\ ~HaveUboot1(hdr1) /\ End("return")
       \/ stage \in {"uboot2", "fallback"} /\ ok /\ Load("fip", FipBlk)
       \/ stage = "fallback" /\ ~ok /\ End("return")
       \/ stage = "fip" /\ ok /\ End("boot_uboot")
       \/ stage = "fip" /\ ~ok /\ End("return")

-----------------------------------------------------------------------------
(* bblk_find_image and nand_load_uhdr_image, on the result of bblk_read *)

(* The block has no header of this name, or none that can be read: the search
   goes on.  (mutant: it ends at the first block) *)
MoreBlocks_none(k) == FALSE
MoreBlocks(k) == k + 1 < SearchCnt
NextBlock ==
    \/ /\ MoreBlocks(i)
       /\ i' = i + 1 /\ got' = 0
       /\ UNCHANGED <<stage, step, blk_start, read_length, hdr1>>
    \/ ~MoreBlocks(i) /\ Return(FALSE)

(* mutant: the signature is left out *)
LoadLength_noSign(size) == HdrSize + size
LoadLength(size) == HdrSize + size + SignSize

HeaderFound ==
    \/ only_load_hdr /\ Return(found.size > 0)
    \/ /\ ~only_load_hdr
       /\ step' = "load" /\ got' = 0 /\ read_length' = LoadLength(found.size)
       /\ UNCHANGED <<stage, blk_start, i, hdr1>>

-----------------------------------------------------------------------------
(* bblk_read: one page.  Blocks follow one another without a gap: the code that
   skips blocks with a bad block mark is not compiled. *)

PageNo == (blk_start + i) * PagesPerBlk + got \div SectSz
Running == stage \notin {"return", "boot_uboot"}

GotWith(before) == before + SectSz

ReadPage ==
    LET all == GotWith(got)
    IN  /\ Running
        /\ PageNo \notin chip.bad
        /\ buf' = [buf EXCEPT ![name] = [src |-> blk_start + i, upto |-> all]]
        /\ \/ /\ all < read_length      \* and now the next page or block
              /\ got' = all
              /\ UNCHANGED <<stage, step, blk_start, i, read_length, hdr1>>
           \/ all >= read_length /\ step = "find" /\ HeaderOk(found, name)
              /\ HeaderFound
           \/ all >= read_length /\ step = "find" /\ ~HeaderOk(found, name)
              /\ NextBlock
           \/ all >= read_length /\ step = "load"
              /\ Return(image_check_dcrc(found, all))
        /\ UNCHANGED <<chip, faults, failed>>

(* A page read fails: it is not correctable, or the driver gave up.  The first
   words may have been stored over what the buffer held. *)
ReadPageFails ==
    /\ Running
    /\ \/ PageNo \in chip.bad /\ UNCHANGED faults
       \/ PageNo \notin chip.bad /\ faults < MaxFaults /\ faults' = faults + 1
    /\ failed' = TRUE
    /\ IF got = 0 THEN buf' \in {buf, [buf EXCEPT ![name] = Empty]}
                  ELSE UNCHANGED buf
    /\ \/ step = "find" /\ NextBlock
       \/ step = "load" /\ Return(FALSE)
    /\ UNCHANGED chip

(* nand_uboot has returned to boot_flow, or called boot_uboot *)
Terminated == ~Running /\ UNCHANGED vars

Next == ReadPage \/ ReadPageFails \/ Terminated

(* A page read ends: the loops that wait for the chip have time limits.  Those
   that wait for the NAND controller and the ECC engine themselves (bch.c) have
   none: that these two finish is assumed. *)
Spec == Init /\ [][Next]_vars /\ WF_vars(Next)

-----------------------------------------------------------------------------
(* Properties *)

WholeUboot(b) == b \in Blk /\ Whole(chip.img[b], "uboot", ChipLimit)
WholeFip(b) == b \in Blk /\ Whole(chip.img[b], "fip", ChipLimit)
HeaderAt(b, nm) == HeaderOk(chip.img[b], nm)
Window(start) == start..start + SearchCnt - 1
First(S) == {b \in S : \A c \in S : b <= c}

(* the header that a search from this block finds when every page reads well:
   a set of one block, or of none *)
Found(start, nm) == First({b \in Window(start) : HeaderAt(b, nm)})

Uboot1 == {b \in Found(AppBlk, "uboot") : chip.img[b].size > 0}
Start2 == IF Uboot1 = {} THEN AppBlk + 1
          ELSE AppBlk + Up(HdrSize + chip.img[CHOOSE b \in Uboot1 : TRUE].size)
Uboot2 == Found(Start2, "uboot")

(* the update of the factory image at u, as the comment of xboot.c:1862-1863
   defines it, among the blocks that are searched *)
Blocks(u) == Up(HdrSize + chip.img[u].size)
Update(u) == First({v \in u + Blocks(u)..AppBlk + Blocks(u) + SearchCnt - 1 :
                       HeaderAt(v, "uboot")})

(* Signature checking reads the signature behind the image.  Whatever was
   loaded over it before, a buffer that is handed to boot_uboot holds header,
   data and signature of one and the same image. *)
SignatureLoaded ==
    stage = "boot_uboot" =>
        \A n \in {"uboot", "fip"} :
            /\ buf[n].src # None
            /\ buf[n].upto >= HdrSize + chip.img[buf[n].src].size + SignSize

(* Which u-boot runs when every page reads well.  uboot2 is the first image
   from where uboot1 ends, "(uboot1 start blk) + (num of blocks of uboot1)", in
   the blocks that the search reaches.  It runs when it is whole, or else
   uboot1, if uboot1 is at app_blk_start, or is whole and begins less than its
   own length behind it.  (The code adds the blocks of uboot1 to app_blk_start:
   when uboot1 begins further behind, its update may be ignored, which is what
   Uboot2StartsBehindUboot1 is about.) *)
UpdatePreferred ==
    stage = "boot_uboot" /\ ~failed =>
        \A u \in Uboot1 :
            u = AppBlk \/ (WholeUboot(u) /\ u < AppBlk + Blocks(u)) =>
                buf["uboot"].src \in IF \E v \in Update(u) : WholeUboot(v)
                                     THEN Update(u) ELSE {u}

(* The reason to keep two copies: with a whole factory image, a whole update
   at most SearchCnt blocks behind app_blk_start and a whole fip, on a chip
   without bad pages, one failing read before fip is looked for does not stop
   the boot.  (An update further behind is out of reach of the second search
   when the header of uboot1 cannot be read.) *)
OneCopyIsSpare ==
    stage = "return" /\ chip.bad = {} /\ faults <= 1 =>
        \/ \A b \in Uboot1 : ~WholeUboot(b)
        \/ \A b \in Uboot2 \ Uboot1 : ~WholeUboot(b) \/ b > AppBlk + SearchCnt
        \/ \A b \in Found(FipBlk, "fip") : ~WholeFip(b)
        \/ blk_start = FipBlk


(* nand_uboot promises what every loader promises (ImageLoad). *)
Promise == INSTANCE ImageLoad WITH
    Place <- Blk,
    UbootMax <- ChipLimit,
    FipMax <- ChipLimit,
    content <- chip.img,
    mayUse <- [uboot |-> AppBlk..LastBlk, fip |-> Window(FipBlk)],
    mustTry <- [uboot |-> Uboot1 \union Uboot2, fip |-> Found(FipBlk, "fip")],
    faulted <- failed,
    phase <- CASE stage = "boot_uboot" -> "ready"
               [] stage = "return"     -> "refused"
               [] OTHER                -> "loading",
    booted <- IF stage = "boot_uboot"
              THEN [uboot |-> {buf["uboot"].src}, fip |-> {buf["fip"].src}]
              ELSE [uboot |-> {}, fip |-> {}]
KeepsPromise == Promise!Spec

(* "uboot2 start blk = (uboot1 start blk) + (num of blocks of uboot1)": the
   search for the update does not start before uboot1 ends. *)
Uboot2StartsBehindUboot1 ==
    stage = "uboot2" =>
        \A u \in Uboot1 : ~failed => blk_start >= u + Blocks(u)
=============================================================================
