------------------------------- MODULE FatBoot -------------------------------
(***************************************************************************)
(* Boot from an SD card or a USB disk with a FAT file system: do_fat_boot, *)
(* fat_load_fip and fat_load_uhdr_image of src/xboot.c with fat_boot and   *)
(* the directory search of src/fat/fat_boot.c.                             *)
(*                                                                         *)
(* A small ISPBOOOT.BIN says: boot the files U-BOOT.IMG and FIP.IMG of     *)
(* this card (SDCARD_BOOT).  A large one holds both images itself, at      *)
(* offsets of its own (SDCARD_ISP, USB_ISP, USB_BOOT).                     *)
(*                                                                         *)
(* One action is one device operation, or the look at one directory entry. *)
(* The program tests the result of a read only for the very first sector;  *)
(* after any other read that failed it goes on with what memory holds.     *)
(***************************************************************************)
EXTENDS Uhdr, Sequences

CONSTANTS Setups,       \* what is plugged in, see Setup
          MaxPorts,     \* ports of a USB hub
          Entries,      \* directory entries in a sector
          IspMax,       \* 0x40000: an ISPBOOOT.BIN above it is for ISP
          BlockSize,    \* bytePerSect, in units
          SignSize,     \* SIGN_DATA_SIZE, in units
          UbootMax,     \* UBOOT_MAX_LEN, in units
          FipMax,       \* FIP_MAX_LEN, in units
          MaxFaults     \* bound on the device operations that fail

ASSUME SizeAssumption ==
    /\ BlockSize \in Nat /\ BlockSize > HdrSize /\ SignSize \in {0, 1}
    /\ UbootMax \in Nat /\ FipMax \in Nat /\ IspMax \in Nat
    /\ Entries \in Nat /\ MaxPorts \in Nat /\ MaxFaults \in Nat

FileName == {"ISPBOOOT", "U-BOOT", "FIP"}
DirEntry == [name : FileName \union {"other"}, size : Nat]
Blank == [n \in 1..Entries |-> [name |-> "other", size |-> 0]]

(* Where an image may start on a disk: at the start of a file, or inside
   ISPBOOOT.BIN at the offset of u-boot or at the one its file table has for
   fip.  A file that is not in the directory has cluster 0 and is read from
   the FAT ("none"); offset 0 of ISPBOOOT.BIN holds xboot. *)
Spot == {"U-BOOT", "FIP", "isp_uboot", "isp_fip", "isp_xboot", "none"}

(* A disk.  The root directory is a sequence of clusters, which are sequences
   of sectors; that of FAT16 is one run of sectors.  table is what lies at
   ISP_IMG_OFF_HEADER of ISPBOOOT.BIN, as far as fat_load_fip can tell. *)
Disk == [mbr : BOOLEAN, fatType : {"FAT_32", "FAT_16", "none"},
         root : Seq(Seq([1..Entries -> DirEntry])),
         table : {"absent", "without fip", "with fip"}, img : [Spot -> Image]]

(* What is plugged in: one card, one USB disk, or the disks on the ports of a
   USB hub *)
Setup == [type : {"SDCARD_ISP", "USB_ISP"}, hub : BOOLEAN, disks : Seq(Disk)]

ASSUME SetupAssumption ==
    \A s \in Setups :
        /\ s \in Setup
        /\ Len(s.disks) \in 1..MaxPorts
        /\ s.hub => s.type = "USB_ISP"
        /\ ~s.hub => Len(s.disks) = 1
        /\ \A p \in 1..Len(s.disks) :
               /\ s.disks[p].img["none"] = NotAnImage
               /\ s.disks[p].img["isp_xboot"] = NotAnImage

(* A volume has a root directory, in which a file occurs once. *)
FilesOccurOnce(root) ==
    \A c, d \in DOMAIN root : \A k \in DOMAIN root[c], l \in DOMAIN root[d] :
        \A n, m \in 1..Entries :
            root[c][k][n].name = root[d][l][m].name /\ root[c][k][n].name \in FileName
                => <<c, k, n>> = <<d, l, m>>
IsDirectory(d) ==
    /\ Len(d.root) > 0 /\ \A c \in DOMAIN d.root : Len(d.root[c]) > 0
    /\ d.fatType = "FAT_16" => Len(d.root) = 1
    /\ FilesOccurOnce(d.root)
ASSUME DirectoryAssumption ==
    \A s \in Setups : \A p \in 1..Len(s.disks) : IsDirectory(s.disks[p])

VARIABLES setup,
          faults,       \* how many device operations failed
          pc,           \* the next device operation
          type,         \* of do_fat_boot
          port,         \* the disk in use
          sector,       \* the sector buffer: the FAT type and the directory
                        \* entries that the program finds in it
          clus, sect, ent,      \* the directory entry to look at next
          fileInfo, count,      \* of the search
          fip_spot,     \* where fat_load_fip looks for the image
          buf           \* the load buffers at UBOOT_LOAD_ADDR, FIP_LOAD_ADDR

search == <<clus, sect, ent>>
found == <<fileInfo, count>>
vars == <<setup, faults, pc, type, port, sector, search, found, fip_spot, buf>>

disk == setup.disks[port]

(* The clusters the directory search can come to: those of the root directory,
   and after a failed read those of other files, which hold none of its files. *)
Elsewhere == 0
Clusters == {Elsewhere} \union DOMAIN disk.root
Dir(c) == IF c = Elsewhere THEN [k \in 1..Len(disk.root[1]) |-> Blank] ELSE disk.root[c]

Sector == [fatType : {"FAT_32", "FAT_16", "none"}, ent : [1..Entries -> DirEntry]]
Buffer == [src : Spot, port : Nat, upto : Nat]
Empty == [src |-> "none", port |-> 0, upto |-> 0]
NoFile == [found |-> FALSE, size |-> 0]

TypeOK ==
    /\ faults \in 0..MaxFaults
    /\ pc \in {"init", "mbr", "dbr", "read_dir", "look", "next_cluster", "mode",
               "fip_table", "fip_hdr", "fip_body", "fip_dcrc",
               "uboot_hdr", "uboot_body", "uboot_dcrc", "boot_uboot", "return"}
    /\ type \in {"SDCARD_ISP", "USB_ISP", "SDCARD_BOOT", "USB_BOOT"}
    /\ port \in 1..Len(setup.disks)
    /\ sector \in Sector
    /\ pc \in {"read_dir", "look"} =>
           clus \in Clusters /\ sect \in DOMAIN Dir(clus)
    /\ ent \in 1..Entries + 1
    /\ fileInfo \in [FileName -> [found : BOOLEAN, size : Nat]]
    /\ count \in Nat
    /\ fip_spot \in Spot
    /\ buf \in [{"uboot", "fip"} -> Buffer]

(* do_fat_boot calls fat_boot *)
Init ==
    /\ setup \in Setups
    /\ faults = 0
    /\ pc = "init"
    /\ type = setup.type
    /\ port = 1
    /\ sector = [fatType |-> "none", ent |-> Blank]
    /\ clus = 1 /\ sect = 1 /\ ent = 1
    /\ fileInfo = [n \in FileName |-> NoFile] /\ count = 0
    /\ fip_spot = "none"
    /\ buf = [n \in {"uboot", "fip"} |-> Empty]

Works == UNCHANGED faults
Fails == faults < MaxFaults /\ faults' = faults + 1

-----------------------------------------------------------------------------
(* fat_boot *)

(* With a hub, the device on its next port is tried (mutant: it never is).
   After the last port init_usb says there is none. *)
TryNextPort_never == FALSE
TryNextPort == setup.hub
NoFiles ==
    IF TryNextPort
    THEN \/ port < Len(setup.disks) /\ port' = port + 1 /\ pc' = "init"
         \/ port = Len(setup.disks) /\ pc' = "return" /\ UNCHANGED port
    ELSE pc' = "return" /\ UNCHANGED port

(* init_sd or init_usb *)
InitDevice ==
    /\ pc = "init"
    /\ \/ Works /\ pc' = "mbr"
       \/ Fails /\ pc' = "return"
    /\ UNCHANGED <<setup, type, port, sector, search, found, fip_spot, buf>>

(* The FAT type is taken from the sector buffer; the search starts at the
   root directory.  What it found on another disk is not forgotten. *)
CheckFatType ==
    /\ \/ sector'.fatType # "none" /\ pc' = "read_dir" /\ UNCHANGED port
       \/ sector'.fatType = "none" /\ NoFiles
    /\ count' = 0
    /\ UNCHANGED fileInfo

Volume == [fatType |-> disk.fatType, ent |-> Blank]

(* The USB drivers report no failed read: the program looks at what it finds in
   the buffer, which may be the sector all the same. *)
ReadMbr ==
    /\ pc = "mbr"
    /\ \/ /\ Works /\ disk.mbr
          /\ sector' = [fatType |-> "none", ent |-> Blank]
          /\ pc' = "dbr" /\ UNCHANGED <<port, found>>
       \/ Works /\ ~disk.mbr /\ sector' = Volume /\ CheckFatType
       \/ /\ Fails /\ setup.type = "SDCARD_ISP"
          /\ pc' = "return" /\ UNCHANGED <<port, sector, found>>
       \/ /\ Fails /\ setup.type = "USB_ISP" /\ disk.mbr
          /\ pc' = "dbr" /\ UNCHANGED <<port, sector, found>>
       \/ /\ Fails /\ setup.type = "USB_ISP"
          /\ sector' = sector \/ (~disk.mbr /\ sector' = Volume)
          /\ CheckFatType
    /\ clus' = 1 /\ sect' = 1 /\ ent' = 1
    /\ UNCHANGED <<setup, type, fip_spot, buf>>

ReadDbr ==
    /\ pc = "dbr"
    /\ \/ Works /\ sector' = Volume
       \/ Fails /\ sector' \in {sector, Volume}
    /\ CheckFatType
    /\ UNCHANGED <<setup, type, search, fip_spot, buf>>

(* A read that fails has stored a part of the sector, from its start.  FAT32
   names the type in its first sector only, so directory data has none. *)
Partly(new) ==
    {[fatType |-> "none", ent |-> [n \in 1..Entries |-> IF n <= k THEN new[n] ELSE sector.ent[n]]] :
        k \in 0..Entries}

ReadDirSector ==
    /\ pc = "read_dir"
    /\ \/ Works /\ sector' = [fatType |-> "none", ent |-> Dir(clus)[sect]]
       \/ Fails /\ sector' \in Partly(Dir(clus)[sect])
    /\ ent' = 1
    /\ pc' = "look"
    /\ UNCHANGED <<setup, type, port, clus, sect, found, fip_spot, buf>>

(* filecount: an SD card is searched for three files, a USB disk for one. *)
Wanted == IF type = "SDCARD_ISP" THEN FileName ELSE {"ISPBOOOT"}

(* The search is over (mutant: two files are enough). *)
AllFound_two == IF type = "USB_ISP" THEN fileInfo'["ISPBOOOT"].size # 0
                ELSE count' = 2
AllFound == IF type = "USB_ISP" THEN fileInfo'["ISPBOOOT"].size # 0
            ELSE count' = 3

(* one directory entry of the sector buffer *)
LookAtFile ==
    LET e == sector.ent[ent]
    IN  /\ pc = "look" /\ ent <= Entries
        /\ e.name \in Wanted
        /\ fileInfo' = [fileInfo EXCEPT ![e.name] = [found |-> TRUE, size |-> e.size]]
        /\ count' = count + 1
        /\ pc' = IF AllFound THEN "mode" ELSE "look"
        /\ ent' = ent + 1
        /\ UNCHANGED <<setup, faults, type, port, sector, clus, sect, fip_spot, buf>>

LookAtOther ==
    /\ pc = "look" /\ ent <= Entries
    /\ sector.ent[ent].name \notin Wanted
    /\ ent' = ent + 1
    /\ UNCHANGED <<setup, faults, pc, type, port, sector, clus, sect, found,
                   fip_spot, buf>>

(* The search ends without all files; an SD card with ISPBOOOT.BIN will do. *)
EndOfDirectory ==
    IF type = "SDCARD_ISP" /\ fileInfo["ISPBOOOT"].size # 0
    THEN pc' = "mode" /\ UNCHANGED port
    ELSE NoFiles

(* mutant: the sector offset does not move *)
NextSect_stays == sect
NextSect == sect + 1

MoreSects == sect < Len(Dir(clus))

(* The entries of a sector have been looked at. *)
NextSector ==
    /\ pc = "look" /\ ent > Entries
    /\ sect' = NextSect
    /\ \/ MoreSects /\ pc' = "read_dir" /\ UNCHANGED port
       \/ ~MoreSects /\ disk.fatType = "FAT_32" /\ pc' = "next_cluster" /\ UNCHANGED port
       \/ ~MoreSects /\ disk.fatType = "FAT_16" /\ EndOfDirectory
    /\ UNCHANGED <<setup, faults, type, sector, clus, ent, found, fip_spot, buf>>

(* next_cluster reads the FAT into the sector buffer.  After a read that failed
   it takes what is there, directory data for one, for the number of any cluster;
   the search then goes through that file to its end. *)
NextCluster ==
    /\ pc = "next_cluster"
    /\ \/ /\ Works
          /\ clus' = IF clus = Elsewhere THEN Len(disk.root) + 1 ELSE clus + 1
          /\ sector' = [fatType |-> "none", ent |-> Blank]
       \/ /\ Fails
          /\ clus' \in Clusters \union {Len(disk.root) + 1}
          /\ sector' \in Partly(Blank)
    /\ IF clus' > Len(disk.root) THEN EndOfDirectory
       ELSE pc' = "read_dir" /\ UNCHANGED port
    /\ sect' = 1
    /\ UNCHANGED <<setup, type, ent, found, fip_spot, buf>>

-----------------------------------------------------------------------------
(* do_fat_boot *)

(* fat_sdcard_check_boot_mode *)
BootMode == fileInfo["ISPBOOOT"].size <= IspMax

SelectMode ==
    /\ pc = "mode"
    /\ type' = IF ~BootMode THEN type
               ELSE IF type = "SDCARD_ISP" THEN "SDCARD_BOOT" ELSE "USB_BOOT"
    /\ pc' = IF type' = "SDCARD_BOOT" THEN "fip_hdr" ELSE "fip_table"
    /\ fip_spot' = IF ~fileInfo["FIP"].found THEN "none" ELSE "FIP"
    /\ UNCHANGED <<setup, faults, port, sector, search, found, buf>>

(* fat_load_fip looks up fip in the file table of ISPBOOOT.BIN.  Without an
   entry fip_offset stays 0: the test behind the loop compares i, which is then
   the number of entries, with NUM_OF_PARTITION. *)
ReadFipTable ==
    /\ pc = "fip_table"
    /\ \/ /\ Works /\ disk.table = "with fip"
          /\ fip_spot' = "isp_fip" /\ pc' = "fip_hdr"
       \/ /\ Works /\ disk.table = "without fip"
          /\ fip_spot' = "isp_xboot" /\ pc' = "fip_hdr"
       \/ /\ Works /\ disk.table = "absent"
          /\ pc' = "return" /\ UNCHANGED fip_spot
       \/ /\ Fails
          /\ \/ pc' = "return" /\ UNCHANGED fip_spot
             \/ disk.table # "absent" /\ fip_spot' = "isp_xboot" /\ pc' = "fip_hdr"
    /\ UNCHANGED <<setup, type, port, sector, search, found, buf>>

-----------------------------------------------------------------------------
(* fat_load_uhdr_image *)

uboot_spot == IF type # "SDCARD_BOOT" THEN "isp_uboot"
              ELSE IF fileInfo["U-BOOT"].found THEN "U-BOOT" ELSE "none"
Limit(name) == IF name = "fip" THEN FipMax ELSE UbootMax
HdrPc(name) == IF name = "fip" THEN "fip_hdr" ELSE "uboot_hdr"
DcrcPc(name) == IF name = "fip" THEN "fip_dcrc" ELSE "uboot_dcrc"
BodyPc(name) == IF name = "fip" THEN "fip_body" ELSE "uboot_body"

(* The header is accepted: the name in it is not looked at.  len is an int; a
   size from 2^31 on, negative there, is not among the images (README). *)
Acceptable(im, name) ==
    /\ image_check_magic(im) /\ image_check_hcrc(im)
    /\ HdrSize + im.size <= Limit(name)

(* A header that could not be read leaves what DRAM held, no image. *)
ReadHeader(name) ==
    LET spot == IF name = "fip" THEN fip_spot ELSE uboot_spot
    IN  /\ pc = HdrPc(name)
        /\ \/ /\ Works
              /\ buf' = [buf EXCEPT ![name] = [src |-> spot, port |-> port,
                                               upto |-> HdrSize]]
              /\ pc' = IF Acceptable(disk.img[spot], name) THEN BodyPc(name)
                       ELSE "return"
           \/ Fails /\ pc' = "return" /\ UNCHANGED buf
        /\ UNCHANGED <<setup, type, port, sector, search, found, fip_spot>>

(* image and signature (mutant: the signature forgotten) *)
LoadLength_noSign(im) == HdrSize + im.size
LoadLength(im) == HdrSize + im.size + SignSize

(* The body is read sector by sector.  If one of them fails, memory has a hole
   where it should be, and upto is where the hole begins.  The first sector is
   the one the header is in: it is still in the sector buffer, unless the FAT
   had to be walked to it again. *)
ReadBody(name) ==
    LET length == LoadLength(disk.img[buf[name].src])
    IN  /\ pc = BodyPc(name)
        /\ \/ Works /\ buf' = [buf EXCEPT ![name].upto = length]
           \/ /\ Fails
              /\ \/ type = "SDCARD_BOOT" /\ buf' = [buf EXCEPT ![name].upto = length]
                 \/ type # "SDCARD_BOOT" /\ UNCHANGED buf
                 \/ \E k \in 1..length :
                       /\ k * BlockSize < length
                       /\ buf' = [buf EXCEPT ![name].upto = k * BlockSize]
        /\ pc' = DcrcPc(name)
        /\ UNCHANGED <<setup, type, port, sector, search, found, fip_spot>>

(* the data sum, and what fat_load_fip and do_fat_boot do with the size that is
   returned *)
CheckData(name) ==
    LET im == disk.img[buf[name].src]
    IN  /\ pc = DcrcPc(name)
        /\ pc' = IF ~(im.size > 0 /\ image_check_dcrc(im, buf[name].upto)) THEN "return"
                 ELSE IF name = "fip" THEN "uboot_hdr" ELSE "boot_uboot"
        /\ UNCHANGED <<setup, faults, type, port, sector, search, found, fip_spot, buf>>

(* do_fat_boot has returned to boot_flow, or called boot_uboot *)
Terminated == pc \in {"return", "boot_uboot"} /\ UNCHANGED vars

Next ==
    \/ InitDevice \/ ReadMbr \/ ReadDbr \/ ReadDirSector \/ LookAtFile
    \/ LookAtOther \/ NextSector \/ NextCluster \/ SelectMode \/ ReadFipTable
    \/ \E name \in {"uboot", "fip"} : 
          ReadHeader(name) \/ ReadBody(name) \/ CheckData(name)
    \/ Terminated

(* A device operation ends.  The SD driver bounds its polls and retries
   (SdRead); of a USB disk, whose driver waits for events without a limit, it
   is assumed. *)
Spec == Init /\ [][Next]_vars /\ WF_vars(Next)

-----------------------------------------------------------------------------
(* Properties *)

Listed(d) ==
    IF d.fatType = "none" THEN {}
    ELSE UNION {{d.root[c][k][n] : k \in DOMAIN d.root[c], n \in 1..Entries} :
                   c \in DOMAIN d.root}
Has(d, name) == \E e \in Listed(d) : e.name = name
SizeOf(d, name) ==
    IF Has(d, name) THEN (CHOOSE e \in Listed(d) : e.name = name).size ELSE 0

(* The disk to boot from: the first one with an ISPBOOOT.BIN that is not
   empty.  An SD card with all three files will do with an empty one. *)
Usable(d) ==
    \/ SizeOf(d, "ISPBOOOT") # 0
    \/ setup.type = "SDCARD_ISP" /\ \A name \in FileName : Has(d, name)
UsablePorts == {p \in 1..Len(setup.disks) : Usable(setup.disks[p])}
TheDisk == CHOOSE p \in UsablePorts : \A q \in UsablePorts : p <= q
FromFiles(d) == setup.type = "SDCARD_ISP" /\ SizeOf(d, "ISPBOOOT") <= IspMax

(* ISPBOOOT.BIN decides what is booted, and of several disks the first usable
   one: two images of that disk, both from the files or both from inside
   ISPBOOOT.BIN.  That is when no read fails: a directory
   sector that cannot be read is searched with the entries of the one before. *)
IspFileDecides ==
    pc = "boot_uboot" /\ faults = 0 =>
        /\ UsablePorts # {} /\ \A n \in DOMAIN buf : buf[n].port = TheDisk
        /\ <<buf["uboot"].src, buf["fip"].src>> =
               IF FromFiles(setup.disks[TheDisk]) THEN <<"U-BOOT", "FIP">>
               ELSE <<"isp_uboot", "isp_fip">>

(* Signature checking reads the signature behind the image: a buffer handed to
   boot_uboot holds it, unless a read failed. *)
SignatureLoaded ==
    pc = "boot_uboot" /\ faults = 0 =>
        \A n \in DOMAIN buf :
            buf[n].upto >= HdrSize + disk.img[buf[n].src].size + SignSize

(* do_fat_boot comes to an end, one way or the other. *)
FatBootEnds == <>(pc \in {"return", "boot_uboot"})

(* do_fat_boot promises what every loader promises (ImageLoad).  A file is
   known by its name in the directory, the name in the image header is not
   looked at; and an image may fill its buffer. *)
Place == (1..MaxPorts) \X Spot
NameAt(spot) == CASE spot \in {"U-BOOT", "isp_uboot"} -> "uboot"
                  [] spot \in {"FIP", "isp_fip"} -> "fip"
                  [] OTHER -> "other"
Content(place) ==
    IF place[1] > Len(setup.disks) THEN NotAnImage
    ELSE [setup.disks[place[1]].img[place[2]] EXCEPT !.name = NameAt(place[2])]
MustTry ==
    IF UsablePorts = {} THEN [uboot |-> {}, fip |-> {}]
    ELSE LET d == setup.disks[TheDisk]
         IN  IF FromFiles(d)
             THEN [uboot |-> IF Has(d, "U-BOOT") THEN {<<TheDisk, "U-BOOT">>} ELSE {},
                   fip |-> IF Has(d, "FIP") THEN {<<TheDisk, "FIP">>} ELSE {}]
             ELSE [uboot |-> {<<TheDisk, "isp_uboot">>},
                   fip |-> IF d.table = "with fip" THEN {<<TheDisk, "isp_fip">>} ELSE {}]
Promise == INSTANCE ImageLoad WITH
    UbootMax <- UbootMax + 1, FipMax <- FipMax + 1,
    content <- [place \in Place |-> Content(place)],
    mayUse <- [uboot |-> (1..MaxPorts) \X {"U-BOOT", "isp_uboot"},
               fip |-> (1..MaxPorts) \X {"FIP", "isp_fip"}],
    mustTry <- MustTry,
    faulted <- faults > 0,
    phase <- CASE pc = "boot_uboot" -> "ready"
               [] pc = "return"     -> "refused"
               [] OTHER             -> "loading",
    booted <- [n \in {"uboot", "fip"} |->
                  IF pc = "boot_uboot" THEN {<<buf[n].port, buf[n].src>>} ELSE {}]
KeepsPromise == Promise!Spec
=============================================================================
