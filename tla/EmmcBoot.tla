------------------------------ MODULE EmmcBoot ------------------------------
(***************************************************************************)
(* Boot from eMMC: emmc_boot() and emmc_load_uhdr_image() of src/xboot.c   *)
(* in the build with HAVE_UBOOT2_IN_EMMC.                                  *)
(*                                                                         *)
(* Two copies of u-boot may be on the disk: uboot1, the factory image, and *)
(* uboot2, the update, in two of the first four GPT partitions.  Both are  *)
(* loaded to the same address, UBOOT_LOAD_ADDR, one over the other.        *)
(*                                                                         *)
(* One action is one device operation (card identification, CMD6 switch,   *)
(* one emmc_read) with everything the program does until the next one.     *)
(* What emmc_read brings into memory is remembered by where it came from:  *)
(* a load buffer is the LBA its header was read at and how many units      *)
(* (Uhdr) were read from there.                                            *)
(***************************************************************************)
EXTENDS Uhdr

CONSTANTS Lba,          \* block addresses of the disk that matter
          Mbr,          \* LBA 0, what an unused GPT entry names
          BackupGpt,    \* what the GPT header calls alternate_lba
          FipLba,       \* EMMC_FIP_LBA
          BlockSize,    \* EMMC_BLOCK_SZ, in units
          SignSize,     \* SIGN_DATA_SIZE, in units: 0 or 1
          UbootMax,     \* UBOOT_MAX_LEN, in units
          FipMax,       \* FIP_MAX_LEN, in units
          Disks,        \* the disks to boot from
          MaxFaults     \* bound on the device operations that fail

Operation == {"card", "gpt", "uboot", "fip"}
Entry == 0..3           \* the GPT entries emmc_boot looks at
None == "none"          \* u32 -1 in blk_start1, blk_start2; no source

Disk == [gpt : BOOLEAN, part : [Entry -> Lba], img : [Lba -> Image]]

ASSUME LbaAssumption == {Mbr, BackupGpt, FipLba} \subseteq Lba /\ None \notin Lba
ASSUME SizeAssumption ==
    /\ BlockSize \in Nat /\ BlockSize > HdrSize
    /\ SignSize \in {0, 1}
    /\ UbootMax \in Nat /\ FipMax \in Nat
ASSUME MaxFaultsAssumption == MaxFaults \in Nat
ASSUME DisksAssumption ==
    \A d \in Disks : d \in Disk /\ d.img[Mbr] = NotAnImage
                                /\ d.img[BackupGpt] = NotAnImage

VARIABLES disk,         \* the disk; never written
          faults,       \* how many device operations of each kind failed
          pc,           \* the next device operation
          head,         \* g_boothead: the sector buffer GPT is read into
          buf,          \* the load buffers at UBOOT_LOAD_ADDR, FIP_LOAD_ADDR
          i,            \* loop variable of emmc_boot
          blk_start1, blk_start2,
          call          \* arguments of the running emmc_load_uhdr_image

vars == <<disk, faults, pc, head, buf, i, blk_start1, blk_start2, call>>

Buffer == [src : Lba \union {None}, upto : Nat]
Empty == [src |-> None, upto |-> 0]

Call == [name : {"uboot", "fip"}, blk : Lba, only_load_hdr : BOOLEAN]

(* A sector seen as a GPT header (its signature) and as four GPT entries
   (their starting_lba).  Seen as entries, the GPT header names alternate_lba
   first and is zero where the others would be. *)
Sector == [sig : BOOLEAN, ent : [Entry -> Lba]]
Lba1 == [sig |-> disk.gpt,
         ent |-> [n \in Entry |-> IF n = 0 THEN BackupGpt ELSE Mbr]]
Lba2 == [sig |-> FALSE, ent |-> disk.part]

TypeOK ==
    /\ disk \in Disk
    /\ faults \in [Operation -> Nat]
    /\ pc \in {"initDriver_SD", "SetMMCPartitionNum", "read_gpt_hdr",
               "read_gpt_ent", "scan", "read_hdr", "read_body", "fip",
               "boot_uboot", "return"}
    /\ head \in Sector
    /\ buf \in [{"uboot", "fip"} -> Buffer]
    /\ i \in 0..4
    /\ blk_start1 \in Lba \union {None}
    /\ blk_start2 \in Lba \union {None}
    /\ call \in Call

Init ==
    /\ disk \in Disks
    /\ faults = [op \in Operation |-> 0]
    /\ pc = "initDriver_SD"
    /\ head = [sig |-> FALSE, ent |-> [n \in Entry |-> Mbr]] \* xboot's header
    /\ buf = [n \in {"uboot", "fip"} |-> Empty]
    /\ i = 0
    /\ blk_start1 = None
    /\ blk_start2 = None
    /\ call = [name |-> "uboot", blk |-> Mbr, only_load_hdr |-> TRUE]

(* A device operation works, or fails for good: the retries of drv_sd_mmc.c
   are over. *)
TotalFaults == faults["card"] + faults["gpt"] + faults["uboot"] + faults["fip"]
Works == UNCHANGED faults
Fails(op) == /\ TotalFaults < MaxFaults
             /\ faults' = [faults EXCEPT ![op] = @ + 1]

-----------------------------------------------------------------------------
(* Up to the partition table *)

initDriver_SD ==
    /\ pc = "initDriver_SD"
    /\ \/ Works /\ pc' = "SetMMCPartitionNum"
       \/ Fails("card") /\ pc' = "return"
    /\ UNCHANGED <<disk, head, buf, i, blk_start1, blk_start2, call>>

SetMMCPartitionNum ==
    /\ pc = "SetMMCPartitionNum"
    /\ \/ Works /\ pc' = "read_gpt_hdr"
       \/ Fails("card") /\ pc' = "return"
    /\ UNCHANGED <<disk, head, buf, i, blk_start1, blk_start2, call>>

(* A read that fails has stored its first words: a prefix of the sector. *)
Torn(new) ==
    \E k \in 0..4 :
       head' = [sig |-> IF k > 0 THEN new.sig ELSE head.sig,
                ent |-> [n \in Entry |-> IF n < k THEN new.ent[n]
                                                  ELSE head.ent[n]]]

(* emmc_read(g_boothead, 1, 1), then the signature test.  The code tests
   `res < 0', and ReadSDSector fails with ROM_FAIL = 2. *)
ReadGptHeader ==
    /\ pc = "read_gpt_hdr"
    /\ \/ Works /\ head' = Lba1
       \/ Fails("gpt") /\ Torn(Lba1)
    /\ pc' = IF head'.sig THEN "read_gpt_ent" ELSE "return"
    /\ UNCHANGED <<disk, buf, i, blk_start1, blk_start2, call>>

(* emmc_read(g_boothead, 2, 1), with the same test of its result *)
ReadGptEntries ==
    /\ pc = "read_gpt_ent"
    /\ \/ Works /\ head' = Lba2
       \/ Fails("gpt") /\ Torn(Lba2)
    /\ pc' = "scan"
    /\ UNCHANGED <<disk, buf, i, blk_start1, blk_start2, call>>

-----------------------------------------------------------------------------
(* The loop over the partitions and the fallback, up to the next call of
   emmc_load_uhdr_image *)

CallLoad(name, blk, only_load_hdr) ==
    /\ call' = [name |-> name, blk |-> blk, only_load_hdr |-> only_load_hdr]
    /\ pc' = "read_hdr"

LookForUboot1 ==
    /\ pc = "scan" /\ i < 4 /\ blk_start1 = None
    /\ blk_start1' = head.ent[i]
    /\ CallLoad("uboot", head.ent[i], TRUE)
    /\ UNCHANGED <<disk, faults, head, buf, i, blk_start2>>

LookForUboot2 ==
    /\ pc = "scan" /\ i < 4 /\ blk_start1 # None
    /\ blk_start2' = head.ent[i]
    /\ CallLoad("uboot", head.ent[i], FALSE)
    /\ UNCHANGED <<disk, faults, head, buf, i, blk_start1>>

FallbackToUboot1 ==
    /\ pc = "scan" /\ i = 4 /\ blk_start2 = None /\ blk_start1 # None
    /\ CallLoad("uboot", blk_start1, FALSE)
    /\ UNCHANGED <<disk, faults, head, buf, i, blk_start1, blk_start2>>

BadUboot ==
    /\ pc = "scan" /\ i = 4 /\ ~(blk_start2 = None /\ blk_start1 # None)
    /\ pc' = "return"
    /\ UNCHANGED <<disk, faults, head, buf, i, blk_start1, blk_start2, call>>

LoadFip ==
    /\ pc = "fip"
    /\ CallLoad("fip", FipLba, FALSE)
    /\ UNCHANGED <<disk, faults, head, buf, i, blk_start1, blk_start2>>

(* Which call of emmc_load_uhdr_image is running: the header of uboot1, all
   of uboot2 (blk_start2 is -1 during the fallback to uboot1), or fip *)
ForUboot1Header == call.only_load_hdr
ForUboot2 == call.name = "uboot" /\ ~call.only_load_hdr /\ blk_start2 # None
ForFip == call.name = "fip"

(* mutant: the loop variable moves on after the fallback too *)
NextEntry_always(ok) == i + 1
NextEntry(ok) == IF ForUboot1Header \/ (ForUboot2 /\ ~ok) THEN i + 1 ELSE i

(* mutant: blk_start1 = -1 forgotten after a bad header *)
KeepStart1_bad(ok) == blk_start1
KeepStart1(ok) == IF ForUboot1Header /\ ~ok THEN None ELSE blk_start1

(* mutant: blk_start2 = -1 forgotten after a bad uboot2 *)
KeepStart2_bad(ok) == blk_start2
KeepStart2(ok) == IF ForUboot2 /\ ~ok THEN None ELSE blk_start2

(* What emmc_boot does with the result of emmc_load_uhdr_image: ok is
   `len > 0'. *)
Return(ok) ==
    /\ pc' = IF ForUboot1Header \/ (ForUboot2 /\ ~ok) THEN "scan"
             ELSE IF ~ok THEN "return"
             ELSE IF ForFip THEN "boot_uboot" ELSE "fip"
    /\ i' = NextEntry(ok)
    /\ blk_start1' = KeepStart1(ok)
    /\ blk_start2' = KeepStart2(ok)

-----------------------------------------------------------------------------
(* emmc_load_uhdr_image, called with loaded = 0 *)

Limit == IF call.name = "fip" THEN FipMax ELSE UbootMax

(* header, image and signature, less the sector read with the header
   (mutant: the signature forgotten) *)
Remaining_noSign(im) == HdrSize + im.size - BlockSize
Remaining(im) == HdrSize + im.size + SignSize - BlockSize
Blocks(units) == (units + BlockSize - 1) \div BlockSize

(* the sector with the header, the tests on it, and for a full load the test
   of the size and of whether there is more to read *)
ReadHeader ==
    LET im == disk.img[call.blk]
        small == im.size > 0 /\ im.size + HdrSize < Limit
    IN  /\ pc = "read_hdr"
        /\ Works
        /\ buf' = [buf EXCEPT ![call.name] = [src |-> call.blk, upto |-> BlockSize]]
        /\ \/ ~HeaderOk(im, call.name) /\ Return(FALSE)
           \/ /\ HeaderOk(im, call.name) /\ call.only_load_hdr
              /\ Return(im.size > 0)
           \/ /\ HeaderOk(im, call.name) /\ ~call.only_load_hdr /\ ~small
              /\ Return(FALSE)
           \/ /\ HeaderOk(im, call.name) /\ ~call.only_load_hdr /\ small
              /\ Remaining(im) <= 0
              /\ Return(image_check_dcrc(im, BlockSize))
           \/ /\ HeaderOk(im, call.name) /\ ~call.only_load_hdr /\ small
              /\ Remaining(im) > 0
              /\ pc' = "read_body"
              /\ UNCHANGED <<i, blk_start1, blk_start2>>
        /\ UNCHANGED <<disk, head, call>>

(* the remaining sectors and the test of the data sum *)
ReadBody ==
    LET im == disk.img[buf[call.name].src]
        upto == buf[call.name].upto + Blocks(Remaining(im)) * BlockSize
    IN  /\ pc = "read_body"
        /\ Works
        /\ buf' = [buf EXCEPT ![call.name].upto = upto]
        /\ Return(image_check_dcrc(im, upto))
        /\ UNCHANGED <<disk, head, call>>

(* either emmc_read fails, with or without having stored something *)
ReadFails ==
    /\ pc \in {"read_hdr", "read_body"}
    /\ Fails(call.name)
    /\ buf' \in {buf, [buf EXCEPT ![call.name] = Empty]}
    /\ Return(FALSE)
    /\ UNCHANGED <<disk, head, call>>

(* emmc_boot has returned to boot_flow, or called boot_uboot *)
Terminated == pc \in {"return", "boot_uboot"} /\ UNCHANGED vars

Next ==
    \/ initDriver_SD \/ SetMMCPartitionNum \/ ReadGptHeader \/ ReadGptEntries
    \/ LookForUboot1 \/ LookForUboot2 \/ FallbackToUboot1 \/ BadUboot
    \/ LoadFip \/ ReadHeader \/ ReadBody \/ ReadFails \/ Terminated

(* A device operation always ends: ReadSDSector, initDriver_SD and the CMD6
   switch bound their polling loops and their retries. *)
Spec == Init /\ [][Next]_vars /\ WF_vars(Next)

-----------------------------------------------------------------------------
(* Properties *)

PartitionOf(ok(_)) == {n \in Entry : ok(disk.img[disk.part[n]])}
WholeUboot(im) == Whole(im, "uboot", UbootMax)
WholeFip == Whole(disk.img[FipLba], "fip", FipMax)

(* Signature checking reads the signature behind the image.  Whatever was
   loaded over it before, a buffer that is handed to boot_uboot holds header,
   data and signature of one and the same image. *)
SignatureLoaded ==
    pc = "boot_uboot" =>
        \A n \in {"uboot", "fip"} :
            /\ buf[n].src # None
            /\ buf[n].upto >= HdrSize + disk.img[buf[n].src].size + SignSize

(* Which u-boot runs when the device works: the first whole one behind the
   first partition with a u-boot header (the update), or else the one in that
   partition (the factory image). *)
UpdatePreferred ==
    LET headers == PartitionOf(LAMBDA im : HeaderOk(im, "uboot") /\ im.size > 0)
        uboot1 == CHOOSE n \in headers : \A m \in headers : n <= m
        updates == {n \in PartitionOf(WholeUboot) : n > uboot1}
        uboot2 == CHOOSE n \in updates : \A m \in updates : n <= m
    IN  pc = "boot_uboot" /\ TotalFaults = 0 =>
            buf["uboot"].src = disk.part[IF updates = {} THEN uboot1 ELSE uboot2]

(* The reason to keep two copies: with two whole u-boots on the disk and a
   whole fip, one failed read of a u-boot does not stop the boot. *)
OneCopyIsSpare ==
    /\ pc = "return"
    /\ faults["uboot"] <= 1
    /\ \A op \in Operation \ {"uboot"} : faults[op] = 0
    => \/ ~disk.gpt
       \/ ~WholeFip
       \/ \A m, n \in PartitionOf(WholeUboot) : m = n /\ faults["uboot"] = 1

UsedPlaces == [uboot |-> IF disk.gpt THEN {disk.part[n] : n \in Entry} ELSE {},
               fip |-> {FipLba}]

(* emmc_boot promises what every loader promises (ImageLoad). *)
Promise == INSTANCE ImageLoad WITH
    Place <- Lba,
    content <- disk.img,
    mayUse <- UsedPlaces,
    mustTry <- UsedPlaces,
    faulted <- TotalFaults > 0,
    phase <- CASE pc = "boot_uboot" -> "ready"
               [] pc = "return"     -> "refused"
               [] OTHER             -> "loading",
    booted <- IF pc = "boot_uboot"
              THEN [uboot |-> {buf["uboot"].src}, fip |-> {buf["fip"].src}]
              ELSE [uboot |-> {}, fip |-> {}]
KeepsPromise == Promise!Spec
=============================================================================
