--------------------------- MODULE FatBoot_proofs ---------------------------
(***************************************************************************)
(* Proofs about FatBoot for every card, USB disk and hub, every size of    *)
(* the directory, of sectors and images, and any number of failing device  *)
(* operations; then about FatRead for every volume and every call.         *)
(***************************************************************************)
EXTENDS FatBoot, FatRead, WellFoundedInduction, TLAPS

Looking == pc \in {"init", "mbr", "dbr", "read_dir", "look", "next_cluster"}
Searching == pc \in {"read_dir", "look", "next_cluster"}
Chosen == pc \in {"mode", "fip_table", "fip_hdr", "fip_body", "fip_dcrc",
                  "uboot_hdr", "uboot_body", "uboot_dcrc", "boot_uboot"}
Loading == Chosen /\ pc \notin {"mode", "fip_table"}

(* Where the search is: on a disk with a directory, in a sector of it, or
   behind the last sector of a cluster. *)
SearchInv ==
    /\ setup \in Setups
    /\ Looking \/ pc = "mode" => type = setup.type
    /\ (type \in {"SDCARD_ISP", "SDCARD_BOOT"}) <=> (setup.type = "SDCARD_ISP")
    /\ pc = "dbr" => clus = 1 /\ sect = 1 /\ ent = 1
    /\ pc \in {"init", "mbr", "dbr", "look", "next_cluster"} => sector.fatType = "none"
    /\ Searching => disk.fatType # "none" /\ clus \in Clusters
    /\ pc = "next_cluster" =>
          disk.fatType = "FAT_32" /\ sect \in Nat /\ sect > Len(Dir(clus))

(* the directory entries that have been looked at *)
Passed(c, k, n) ==
    \/ c < clus
    \/ c = clus /\ k < sect
    \/ c = clus /\ k = sect /\ pc = "look" /\ n < ent

(* the slots of the root directory *)
InDir(d, c, k, n) == c \in DOMAIN d.root /\ k \in DOMAIN d.root[c] /\ n \in 1..Entries

(* what the search knows of a file *)
Known(name) ==
    /\ \A c, k, n : InDir(disk, c, k, n) /\ Passed(c, k, n)
                        /\ disk.root[c][k][n].name = name
           => fileInfo[name] = [found |-> TRUE, size |-> disk.root[c][k][n].size]
    /\ (\A c, k, n : InDir(disk, c, k, n) /\ Passed(c, k, n)
                        => disk.root[c][k][n].name # name)
           => fileInfo[name] = NoFile

One(name) == IF fileInfo[name].found THEN 1 ELSE 0
Counted == count = One("ISPBOOOT") + One("U-BOOT") + One("FIP")

(* While nothing fails, the search knows what it has seen. *)
SeenInv ==
    faults = 0 =>
        /\ Searching => clus \in DOMAIN disk.root
        /\ pc = "look" => sector.ent = disk.root[clus][sect]
        /\ Looking /\ setup.type = "SDCARD_ISP" =>
               IF Searching THEN Counted /\ count # 3 /\ \A name \in FileName : Known(name)
               ELSE fileInfo = [n \in FileName |-> NoFile]
        /\ Looking /\ setup.type = "USB_ISP" =>
               /\ fileInfo["ISPBOOOT"].size = 0
               /\ Searching =>
                      \A c, k, n : InDir(disk, c, k, n) /\ Passed(c, k, n)
                                      /\ disk.root[c][k][n].name = "ISPBOOOT"
                          => disk.root[c][k][n].size = 0

(* The disk that is booted from is the first one that is usable, and what has
   been found is what its directory lists. *)
DiskInv ==
    faults = 0 =>
        /\ pc # "return" => \A p \in 1..port - 1 : ~Usable(setup.disks[p])
        /\ Chosen =>
               /\ Usable(disk)
               /\ fileInfo["ISPBOOOT"].size = SizeOf(disk, "ISPBOOOT")
               /\ setup.type = "SDCARD_ISP" =>
                      \A name \in FileName : fileInfo[name].found <=> Has(disk, name)

(* where the images are looked for *)
SpotOf(name) == IF name = "fip" THEN fip_spot ELSE uboot_spot
ModeInv ==
    /\ Loading => fip_spot \in {"FIP", "isp_fip", "isp_xboot", "none"}
    /\ faults = 0 /\ Chosen /\ pc # "mode" => (type = "SDCARD_BOOT" <=> FromFiles(disk))
    /\ pc = "fip_table" => type # "SDCARD_BOOT"
    /\ faults = 0 /\ Loading =>
           fip_spot = IF type = "SDCARD_BOOT"
                      THEN IF fileInfo["FIP"].found THEN "FIP" ELSE "none"
                      ELSE IF disk.table = "with fip" THEN "isp_fip" ELSE "isp_xboot"

(* the sector that is read, or looked at *)
InSearch == clus \in Clusters /\ sect \in DOMAIN Dir(clus)

(* What is in the buffers *)
HeaderIn(name) ==
    /\ buf[name].port = port /\ buf[name].src = SpotOf(name)
    /\ Acceptable(disk.img[SpotOf(name)], name)
Complete(name) == faults = 0 => buf[name].upto >= LoadLength(disk.img[SpotOf(name)])
Sound(name) ==
    /\ HeaderIn(name) /\ Complete(name)
    /\ disk.img[SpotOf(name)].size > 0 /\ disk.img[SpotOf(name)].body
LoadedInv ==
    /\ \A name \in {"uboot", "fip"} :
          /\ pc \in {BodyPc(name), DcrcPc(name)} => HeaderIn(name)
          /\ pc = DcrcPc(name) => Complete(name)
    /\ pc \in {"uboot_hdr", "uboot_body", "uboot_dcrc", "boot_uboot"} => Sound("fip")
    /\ pc = "boot_uboot" => Sound("uboot")

(* why do_fat_boot returned *)
NoWhole(name) ==
    \A place \in MustTry[name] : ~Whole(Content(place), name, Limit(name) + 1)
CauseInv == pc = "return" /\ faults = 0 => NoWhole("uboot") \/ NoWhole("fip")

IInv == TypeOK /\ SearchInv /\ SeenInv /\ DiskInv /\ ModeInv /\ LoadedInv /\ CauseInv

-----------------------------------------------------------------------------
(* The medium *)

LEMMA SetupFacts ==
    ASSUME setup \in Setups
    PROVE  /\ setup.type \in {"SDCARD_ISP", "USB_ISP"} /\ setup.hub \in BOOLEAN
           /\ Len(setup.disks) \in 1..MaxPorts
           /\ setup.hub => setup.type = "USB_ISP"
           /\ ~setup.hub => Len(setup.disks) = 1
           /\ \A p \in 1..Len(setup.disks) :
                 /\ setup.disks[p] \in Disk
                 /\ setup.disks[p].img["none"] = NotAnImage
                 /\ setup.disks[p].img["isp_xboot"] = NotAnImage
  <1>1. setup \in Setup /\ setup.disks \in Seq(Disk)
    BY SetupAssumption DEF Setup
  <1> QED
    BY <1>1, SetupAssumption DEF Setup

LEMMA RootFacts ==
    ASSUME setup \in Setups, NEW p \in 1..Len(setup.disks)
    PROVE  /\ Len(setup.disks[p].root) \in Nat \ {0}
           /\ DOMAIN setup.disks[p].root = 1..Len(setup.disks[p].root)
           /\ setup.disks[p].fatType \in {"FAT_32", "FAT_16", "none"}
           /\ setup.disks[p].fatType = "FAT_16" => Len(setup.disks[p].root) = 1
           /\ \A c \in DOMAIN setup.disks[p].root :
                 /\ Len(setup.disks[p].root[c]) \in Nat \ {0}
                 /\ DOMAIN setup.disks[p].root[c] = 1..Len(setup.disks[p].root[c])
                 /\ \A k \in DOMAIN setup.disks[p].root[c] :
                       setup.disks[p].root[c][k] \in [1..Entries -> DirEntry]
  <1> DEFINE d == setup.disks[p]
  <1>1. d \in Disk
    BY SetupFacts
  <1>2. d.root \in Seq(Seq([1..Entries -> DirEntry]))
        /\ d.fatType \in {"FAT_32", "FAT_16", "none"}
    BY <1>1 DEF Disk
  <1>3. Len(d.root) > 0 /\ (\A c \in DOMAIN d.root : Len(d.root[c]) > 0)
        /\ (d.fatType = "FAT_16" => Len(d.root) = 1)
    BY DirectoryAssumption DEF IsDirectory
  <1> HIDE DEF d
  <1>4. ASSUME NEW c \in DOMAIN d.root PROVE d.root[c] \in Seq([1..Entries -> DirEntry])
    BY <1>2
  <1>5. /\ Len(d.root) \in Nat \ {0} /\ DOMAIN d.root = 1..Len(d.root)
    BY <1>2, <1>3
  <1>6. ASSUME NEW c \in DOMAIN d.root
        PROVE  /\ Len(d.root[c]) \in Nat \ {0} /\ DOMAIN d.root[c] = 1..Len(d.root[c])
               /\ \A k \in DOMAIN d.root[c] : d.root[c][k] \in [1..Entries -> DirEntry]
    BY <1>3, <1>4
  <1> QED
    BY <1>2, <1>3, <1>5, <1>6 DEF d

(* a slot of the directory that holds a file, and that there is only one *)
At(d, name, c, k, n) == InDir(d, c, k, n) /\ d.root[c][k][n].name = name

OneSlot(d) ==
    \A name \in FileName : \A c, k, n, cc, kk, nn :
        At(d, name, c, k, n) /\ At(d, name, cc, kk, nn) => c = cc /\ k = kk /\ n = nn

(* The directory as the search comes to it. *)
LEMMA DirFacts ==
    ASSUME setup \in Setups, port \in 1..Len(setup.disks)
    PROVE  /\ \A c \in Clusters :
                 /\ Len(Dir(c)) \in Nat \ {0} /\ DOMAIN Dir(c) = 1..Len(Dir(c))
                 /\ \A k \in DOMAIN Dir(c) : Dir(c)[k] \in [1..Entries -> DirEntry]
           /\ \A c \in DOMAIN disk.root : c \in Nat /\ c # Elsewhere /\ Dir(c) = disk.root[c]
           /\ Blank \in [1..Entries -> DirEntry]
  <1> DEFINE root == disk.root
  <1>1. /\ DOMAIN root = 1..Len(root) /\ Len(root) \in Nat \ {0}
        /\ \A c \in DOMAIN root :
              /\ Len(root[c]) \in Nat \ {0} /\ DOMAIN root[c] = 1..Len(root[c])
              /\ \A k \in DOMAIN root[c] : root[c][k] \in [1..Entries -> DirEntry]
    BY RootFacts DEF disk
  <1>2. Blank \in [1..Entries -> DirEntry]
    BY DEF Blank, DirEntry
  <1> DEFINE far == [k \in 1..Len(root[1]) |-> Blank]
  <1>3. Len(far) = Len(root[1]) /\ DOMAIN far = 1..Len(root[1])
        /\ \A k \in DOMAIN far : far[k] = Blank
    <2>1. Len(root[1]) \in Nat
      BY <1>1
    <2> QED
      BY <2>1
  <1>4. Dir(Elsewhere) = far /\ \A c : c # Elsewhere => Dir(c) = root[c]
    BY DEF Dir
  <1> HIDE DEF root, far
  <1>5. \A c \in DOMAIN root : c \in Nat /\ c # Elsewhere
    BY <1>1 DEF Elsewhere
  <1>6. Len(far) \in Nat \ {0}
    BY <1>1, <1>3
  <1> QED
    BY <1>1, <1>2, <1>3, <1>4, <1>5, <1>6 DEF Clusters, root


LEMMA Unique ==
    ASSUME setup \in Setups, NEW p \in 1..Len(setup.disks)
    PROVE  OneSlot(setup.disks[p])
  <1> DEFINE root == setup.disks[p].root
  <1> SUFFICES ASSUME NEW name \in FileName, NEW c, NEW k, NEW n, NEW cc, NEW kk, NEW nn,
                      At(setup.disks[p], name, c, k, n),
                      At(setup.disks[p], name, cc, kk, nn)
               PROVE  c = cc /\ k = kk /\ n = nn
    BY DEF OneSlot
  <1>1. /\ c \in DOMAIN root /\ k \in DOMAIN root[c] /\ n \in 1..Entries
        /\ cc \in DOMAIN root /\ kk \in DOMAIN root[cc] /\ nn \in 1..Entries
    BY DEF At, InDir
  <1>2. FilesOccurOnce(root)
    BY DirectoryAssumption DEF IsDirectory
  <1>3. root[c][k][n].name = name /\ root[cc][kk][nn].name = name
    BY DEF At
  <1> HIDE DEF root
  <1>4. <<c, k, n>> = <<cc, kk, nn>>
    BY <1>1, <1>2, <1>3 DEF FilesOccurOnce
  <1> QED
    BY <1>4

LEMMA ListedSlots ==
    ASSUME NEW d, d.fatType # "none", NEW e
    PROVE  e \in Listed(d) <=> \E c, k, n : InDir(d, c, k, n) /\ e = d.root[c][k][n]
  BY DEF Listed, InDir

LEMMA HasSlot ==
    ASSUME NEW d, d.fatType # "none", NEW name
    PROVE  Has(d, name) <=> \E c, k, n : InDir(d, c, k, n) /\ d.root[c][k][n].name = name
  BY ListedSlots DEF Has

(* what the directory says of a file that is in a slot of it *)
Sized(d) ==
    \A name \in FileName : \A c, k, n :
        At(d, name, c, k, n) => Has(d, name) /\ SizeOf(d, name) = d.root[c][k][n].size

LEMMA SizeIs ==
    ASSUME setup \in Setups, NEW p \in 1..Len(setup.disks), setup.disks[p].fatType # "none"
    PROVE  Sized(setup.disks[p])
  <1> DEFINE d == setup.disks[p]
  <1> SUFFICES ASSUME NEW name \in FileName, NEW c, NEW k, NEW n, At(d, name, c, k, n)
               PROVE  Has(d, name) /\ SizeOf(d, name) = d.root[c][k][n].size
    BY DEF Sized
  <1>0. OneSlot(d)
    BY Unique
  <1>1. d.fatType # "none" /\ d.root[c][k][n] \in Listed(d) /\ d.root[c][k][n].name = name
    BY ListedSlots DEF At
  <1> HIDE DEF d
  <1> DEFINE e == CHOOSE x \in Listed(d) : x.name = name
  <1>2. Has(d, name)
    BY <1>1 DEF Has
  <1>3. e \in Listed(d) /\ e.name = name
    BY <1>1, Zenon
  <1>4. SizeOf(d, name) = e.size
    BY <1>2 DEF SizeOf
  <1> HIDE DEF e
  <1>5. PICK cc, kk, nn : InDir(d, cc, kk, nn) /\ e = d.root[cc][kk][nn]
    BY <1>1, <1>3, ListedSlots
  <1>6. At(d, name, cc, kk, nn)
    BY <1>3, <1>5 DEF At
  <1>7. c = cc /\ k = kk /\ n = nn
    BY <1>0, <1>6 DEF OneSlot
  <1> QED
    BY <1>2, <1>4, <1>5, <1>7

LEMMA NotListed ==
    ASSUME NEW d, NEW name,
           \/ d.fatType = "none"
           \/ \A c, k, n : InDir(d, c, k, n) => d.root[c][k][n].name # name
    PROVE  ~Has(d, name) /\ SizeOf(d, name) = 0
  <1>1. ~Has(d, name)
    <2>1. CASE d.fatType = "none"
      BY <2>1 DEF Has, Listed
    <2>2. CASE d.fatType # "none"
      BY <2>2, HasSlot
    <2> QED
      BY <2>1, <2>2
  <1> QED
    BY <1>1 DEF SizeOf

(* Without a root directory a disk is not usable. *)
LEMMA NoVolume ==
    ASSUME NEW d, d.fatType = "none"
    PROVE  ~Usable(d)
  <1>1. ~Has(d, "ISPBOOOT") /\ SizeOf(d, "ISPBOOOT") = 0
    BY NotListed
  <1> QED
    BY <1>1 DEF Usable, FileName

(* the first usable disk *)
LEMMA FirstIsTheDisk ==
    ASSUME setup \in Setups, NEW p \in 1..Len(setup.disks), Usable(setup.disks[p]),
           \A q \in 1..p - 1 : ~Usable(setup.disks[q])
    PROVE  p \in UsablePorts /\ TheDisk = p
  <1>1. Len(setup.disks) \in Nat
    BY SetupFacts
  <1>2. p \in UsablePorts
    BY DEF UsablePorts
  <1>3. \A q \in UsablePorts : p <= q
    BY <1>1 DEF UsablePorts
  <1>4. ASSUME NEW r \in UsablePorts, \A q \in UsablePorts : r <= q PROVE r = p
    BY <1>1, <1>2, <1>3, <1>4 DEF UsablePorts
  <1> DEFINE P(r) == \A q \in UsablePorts : r <= q
  <1>5. TheDisk = CHOOSE r \in UsablePorts : P(r)
    BY DEF TheDisk
  <1>6. P(p) /\ \A r \in UsablePorts : P(r) => r = p
    BY <1>3, <1>4
  <1> HIDE DEF P
  <1>7. (CHOOSE r \in UsablePorts : P(r)) = p
    BY <1>2, <1>6, Zenon
  <1> QED
    BY <1>2, <1>5, <1>7

(* The medium does not change, and with it what is to be booted. *)
LEMMA SetupConstant ==
    ASSUME setup' = setup
    PROVE  /\ \A d : Usable(d)' <=> Usable(d)
           /\ \A d : FromFiles(d)' <=> FromFiles(d)
           /\ MustTry' = MustTry
           /\ \A place : Content(place)' = Content(place)
           /\ (\A name \in {"uboot", "fip"} : NoWhole(name)' <=> NoWhole(name))
           /\ port' = port => disk' = disk
  <1>1. (\A d : Usable(d)' <=> Usable(d)) /\ (\A d : FromFiles(d)' <=> FromFiles(d))
    BY DEF Usable, FromFiles
  <1>2. UsablePorts' = UsablePorts
    BY <1>1 DEF UsablePorts
  <1>3. TheDisk' = TheDisk
    BY <1>2 DEF TheDisk
  <1>4. MustTry' = MustTry
    BY <1>1, <1>2, <1>3 DEF MustTry
  <1>5. \A place : Content(place)' = Content(place)
    BY DEF Content
  <1>6. \A name \in {"uboot", "fip"} : NoWhole(name)' <=> NoWhole(name)
    BY <1>4, <1>5 DEF NoWhole
  <1>7. port' = port => disk' = disk
    BY DEF disk
  <1> QED
    BY <1>1, <1>4, <1>5, <1>6, <1>7

-----------------------------------------------------------------------------
(* Every action preserves the invariant. *)

LEMMA FatInit == Init => IInv
  <1> SUFFICES ASSUME Init PROVE IInv
    OBVIOUS
  <1> USE DEF Init
  <1>1. setup \in Setups /\ 1 \in 1..Len(setup.disks) /\ setup.type \in {"SDCARD_ISP", "USB_ISP"}
    BY SetupFacts
  <1>2. TypeOK
    <2>1. fileInfo \in [FileName -> [found : BOOLEAN, size : Nat]]
      BY DEF NoFile
    <2>2. sector \in Sector
      BY DEF Sector, Blank, DirEntry
    <2>3. buf \in [{"uboot", "fip"} -> Buffer]
      BY DEF Buffer, Empty, Spot
    <2>4. ent \in 1..Entries + 1 /\ faults \in 0..MaxFaults
      BY SizeAssumption
    <2> QED
      BY <1>1, <2>1, <2>2, <2>3, <2>4 DEF TypeOK, Spot
  <1>3. SearchInv
    BY <1>1 DEF SearchInv, Looking, Searching
  <1>4. SeenInv
    BY <1>1 DEF SeenInv, Looking, Searching, NoFile, FileName
  <1>5. DiskInv /\ ModeInv /\ LoadedInv /\ CauseInv
    BY DEF DiskInv, ModeInv, LoadedInv, CauseInv, Chosen, Loading, BodyPc, DcrcPc
  <1> QED
    BY <1>2, <1>3, <1>4, <1>5 DEF IInv

(* before the mode is selected no image is loaded *)
LEMMA Unloaded ==
    ASSUME pc' \in {"init", "mbr", "dbr", "read_dir", "look", "next_cluster",
                    "mode", "return"}
    PROVE  ModeInv' /\ LoadedInv'
  BY DEF ModeInv, LoadedInv, Chosen, Loading, BodyPc, DcrcPc

(* A disk without the files: the next one, or none. *)
LEMMA NoFilesStep ==
    ASSUME IInv, Looking, NoFiles, setup' = setup, type' = type, fileInfo' = fileInfo,
           faults' \in 0..MaxFaults, faults' >= faults, faults' = 0 => ~Usable(disk),
           sector'.fatType = "none"
    PROVE  /\ pc' \in {"init", "return"} /\ port' \in 1..Len(setup.disks)
           /\ SearchInv' /\ SeenInv' /\ DiskInv' /\ ModeInv' /\ LoadedInv' /\ CauseInv'
  <1>1. /\ setup \in Setups /\ port \in 1..Len(setup.disks) /\ Len(setup.disks) \in Nat
        /\ type = setup.type /\ setup.type \in {"SDCARD_ISP", "USB_ISP"}
        /\ setup.hub => setup.type = "USB_ISP"
        /\ ~setup.hub => Len(setup.disks) = 1
        /\ faults \in Nat
    BY SetupFacts, SizeAssumption DEF IInv, TypeOK, SearchInv
  <1>2. pc' \in {"init", "return"} /\ port' \in 1..Len(setup.disks)
    BY <1>1 DEF NoFiles
  <1>3. SearchInv'
    BY <1>1, <1>2 DEF SearchInv, Looking, Searching
  <1>4. ModeInv' /\ LoadedInv'
    BY <1>2, Unloaded
  <1>5. faults' = 0 => \A p \in 1..port : ~Usable(setup.disks[p])
    <2> SUFFICES ASSUME faults' = 0, NEW p \in 1..port PROVE ~Usable(setup.disks[p])
      OBVIOUS
    <2>1. faults = 0
      BY <1>1
    <2>2. CASE p = port
      BY <2>1, <2>2 DEF disk
    <2>3. CASE p # port
      BY <1>1, <2>1, <2>3 DEF IInv, DiskInv, Looking
    <2> QED
      BY <2>2, <2>3
  <1>6. pc' = "init" => setup.type = "USB_ISP" /\ port' = port + 1
    BY <1>1 DEF NoFiles, TryNextPort
  <1>7. pc' = "return" => port = Len(setup.disks)
    <2>1. CASE setup.hub
      BY <2>1 DEF NoFiles, TryNextPort
    <2>2. CASE ~setup.hub
      <3>1. Len(setup.disks) = 1
        BY <1>1, <2>2, Zenon
      <3> QED
        BY <1>1, <3>1
    <2> QED
      BY <2>1, <2>2
  <1>8. SeenInv'
    <2>1. faults' = 0 => faults = 0
      BY <1>1
    <2>2. faults' = 0 /\ setup.type = "USB_ISP" => fileInfo["ISPBOOOT"].size = 0
      BY <2>1 DEF IInv, SeenInv
    <2> QED
      BY <1>2, <1>6, <2>2 DEF SeenInv, Looking, Searching
  <1>9. DiskInv'
    <2>1. faults' = 0 /\ pc' # "return" => \A p \in 1..port' - 1 : ~Usable(setup.disks[p])'
      BY <1>1, <1>2, <1>5, <1>6, SetupConstant
    <2> QED
      BY <1>2, <2>1 DEF DiskInv, Chosen
  <1>10. CauseInv'
    <2> SUFFICES ASSUME pc' = "return", faults' = 0 PROVE NoWhole("uboot")'
      BY DEF CauseInv
    <2>1. UsablePorts = {}
      BY <1>1, <1>5, <1>7 DEF UsablePorts
    <2>2. MustTry["uboot"] = {}
      BY <2>1 DEF MustTry
    <2>3. NoWhole("uboot")
      BY <2>2 DEF NoWhole
    <2> QED
      BY <2>3, SetupConstant
  <1> QED
    BY <1>2, <1>3, <1>4, <1>8, <1>9, <1>10

(* The search has seen the whole directory. *)
LEMMA EndOfDirectoryStep ==
    ASSUME IInv, pc \in {"look", "next_cluster"}, EndOfDirectory,
           setup' = setup, type' = type, fileInfo' = fileInfo,
           faults' \in 0..MaxFaults, faults' >= faults, sector'.fatType = "none",
           faults' = 0 => \A c, k, n : InDir(disk, c, k, n) => Passed(c, k, n)
    PROVE  /\ pc' \in {"init", "return", "mode"} /\ port' \in 1..Len(setup.disks)
           /\ SearchInv' /\ SeenInv' /\ DiskInv' /\ ModeInv' /\ LoadedInv' /\ CauseInv'
  <1>1. /\ setup \in Setups /\ port \in 1..Len(setup.disks)
        /\ type = setup.type /\ setup.type \in {"SDCARD_ISP", "USB_ISP"}
        /\ faults \in Nat /\ disk.fatType # "none" /\ Looking /\ Searching
        /\ disk = setup.disks[port]
    BY SetupFacts, SizeAssumption DEF IInv, TypeOK, SearchInv, Looking, Searching, disk
  <1>2. ASSUME faults' = 0, setup.type = "SDCARD_ISP", NEW name \in FileName
        PROVE  /\ fileInfo[name].found <=> Has(disk, name)
               /\ fileInfo[name].size = SizeOf(disk, name)
    <2>1. faults = 0
      BY <1>1, <1>2
    <2>2. Known(name)
      BY <1>1, <1>2, <2>1 DEF IInv, SeenInv
    <2>3. \A c, k, n : InDir(disk, c, k, n) /\ disk.root[c][k][n].name = name
              => fileInfo[name] = [found |-> TRUE, size |-> disk.root[c][k][n].size]
      BY <1>2, <2>2 DEF Known
    <2>4. (\A c, k, n : InDir(disk, c, k, n) => disk.root[c][k][n].name # name)
              => fileInfo[name] = NoFile
      BY <2>2 DEF Known
    <2>5. CASE \A c, k, n : InDir(disk, c, k, n) => disk.root[c][k][n].name # name
      BY <2>4, <2>5, NotListed DEF NoFile
    <2>6. ASSUME NEW c, NEW k, NEW n, InDir(disk, c, k, n), disk.root[c][k][n].name = name
          PROVE  /\ fileInfo[name].found <=> Has(disk, name)
                 /\ fileInfo[name].size = SizeOf(disk, name)
      <3>1. Has(disk, name) /\ SizeOf(disk, name) = disk.root[c][k][n].size
        <4>1. Sized(disk)
          BY <1>1, SizeIs
        <4>2. At(disk, name, c, k, n)
          BY <2>6 DEF At
        <4> QED
          BY <1>2, <4>1, <4>2 DEF Sized
      <3>2. fileInfo[name] = [found |-> TRUE, size |-> disk.root[c][k][n].size]
        BY <2>3, <2>6
      <3> QED
        BY <3>1, <3>2
    <2> QED
      BY <2>5, <2>6
  <1>3. CASE type = "SDCARD_ISP" /\ fileInfo["ISPBOOOT"].size # 0
    <2>1. pc' = "mode" /\ port' = port
      BY <1>3 DEF EndOfDirectory
    <2>2. SearchInv' /\ SeenInv' /\ CauseInv'
      BY <1>1, <2>1 DEF SearchInv, SeenInv, CauseInv, Looking, Searching
    <2>3. DiskInv'
      <3> SUFFICES ASSUME faults' = 0 PROVE DiskInv'
        BY DEF DiskInv
      <3>1. faults = 0
        BY <1>1
      <3>2. \A p \in 1..port - 1 : ~Usable(setup.disks[p])
        BY <1>1, <3>1 DEF IInv, DiskInv, Looking
      <3>3. \A name \in FileName : /\ fileInfo[name].found <=> Has(disk, name)
                                   /\ fileInfo[name].size = SizeOf(disk, name)
        BY <1>1, <1>2, <1>3
      <3>4. Usable(disk)
        BY <1>3, <3>3 DEF Usable, FileName
      <3>5. disk' = disk
        BY <2>1 DEF disk
      <3>6. Usable(disk)' /\ \A p \in 1..port' - 1 : ~Usable(setup.disks[p])'
        BY <2>1, <3>2, <3>4, <3>5, SetupConstant
      <3>7. fileInfo'["ISPBOOOT"].size = SizeOf(disk', "ISPBOOOT")
            /\ \A name \in FileName : fileInfo'[name].found <=> Has(disk', name)
        BY <3>3, <3>5 DEF FileName
      <3> QED
        BY <3>6, <3>7 DEF DiskInv
    <2> QED
      BY <1>1, <2>1, <2>2, <2>3, Unloaded
  <1>4. CASE ~(type = "SDCARD_ISP" /\ fileInfo["ISPBOOOT"].size # 0)
    <2>1. NoFiles
      BY <1>4 DEF EndOfDirectory
    <2>2. faults' = 0 => ~Usable(disk)
      <3> SUFFICES ASSUME faults' = 0 PROVE ~Usable(disk)
        OBVIOUS
      <3>1. faults = 0
        BY <1>1
      <3>2. CASE setup.type = "SDCARD_ISP"
        <4>1. SizeOf(disk, "ISPBOOOT") = 0
          BY <1>1, <1>2, <1>4, <3>2 DEF FileName
        <4>2. Counted /\ count # 3
          BY <1>1, <3>1, <3>2 DEF IInv, SeenInv
        <4>3. PICK name \in FileName : ~fileInfo[name].found
          BY <4>2 DEF Counted, One, FileName
        <4>4. ~Has(disk, name)
          BY <1>2, <3>2, <4>3
        <4> QED
          BY <4>1, <4>4 DEF Usable
      <3>3. CASE setup.type = "USB_ISP"
        <4>1. \A c, k, n : InDir(disk, c, k, n) /\ disk.root[c][k][n].name = "ISPBOOOT"
                  => disk.root[c][k][n].size = 0
          BY <1>1, <3>1, <3>3 DEF IInv, SeenInv
        <4>2. SizeOf(disk, "ISPBOOOT") = 0
          <5>1. CASE \A c, k, n : InDir(disk, c, k, n) => disk.root[c][k][n].name # "ISPBOOOT"
            BY <5>1, NotListed
          <5>2. ASSUME NEW c, NEW k, NEW n, InDir(disk, c, k, n),
                       disk.root[c][k][n].name = "ISPBOOOT"
                PROVE  SizeOf(disk, "ISPBOOOT") = 0
            <6>1. disk.root[c][k][n].size = 0
              BY <4>1, <5>2
            <6>2. Sized(disk)
              BY <1>1, SizeIs
            <6>3. At(disk, "ISPBOOOT", c, k, n) /\ "ISPBOOOT" \in FileName
              BY <5>2 DEF At, FileName
            <6> QED
              BY <6>1, <6>2, <6>3 DEF Sized
          <5> QED
            BY <5>1, <5>2
        <4> QED
          BY <3>3, <4>2 DEF Usable
      <3> QED
        BY <1>1, <3>2, <3>3
    <2> QED
      BY <1>1, <2>1, <2>2, NoFilesStep
  <1> QED
    BY <1>3, <1>4

LEMMA InitDeviceIInv == IInv /\ InitDevice => IInv'
  <1> SUFFICES ASSUME IInv, InitDevice PROVE IInv'
    OBVIOUS
  <1>1. /\ pc = "init" /\ pc' \in {"mbr", "return"} /\ faults' \in 0..MaxFaults
        /\ faults \in Nat /\ faults' >= faults /\ (pc' = "return" => faults' > 0)
        /\ setup' = setup /\ type' = type /\ port' = port /\ sector' = sector
        /\ clus' = clus /\ sect' = sect /\ ent' = ent
        /\ fileInfo' = fileInfo /\ count' = count /\ fip_spot' = fip_spot /\ buf' = buf
    BY SizeAssumption DEF IInv, TypeOK, InitDevice, Works, Fails, search, found
  <1>2. TypeOK'
    BY <1>1 DEF IInv, TypeOK, disk
  <1>3. SearchInv'
    BY <1>1 DEF IInv, SearchInv, Looking, Searching
  <1>4. SeenInv' /\ CauseInv'
    BY <1>1 DEF IInv, SeenInv, CauseInv, Looking, Searching
  <1>5. DiskInv'
    BY <1>1, SetupConstant DEF IInv, DiskInv, Chosen
  <1> QED
    BY <1>1, <1>2, <1>3, <1>4, <1>5, Unloaded DEF IInv

(* The FAT type of the disk, or none, has been read. *)
LEMMA CheckFatTypeStep ==
    ASSUME IInv, pc \in {"mbr", "dbr"}, CheckFatType, setup' = setup, type' = type,
           faults' \in 0..MaxFaults, faults' >= faults, clus' = 1, sect' = 1,
           sector'.fatType \in {"none", disk.fatType},
           faults' = 0 => sector'.fatType = disk.fatType
    PROVE  /\ pc' \in {"init", "return", "read_dir"} /\ port' \in 1..Len(setup.disks)
           /\ pc' = "read_dir" => InSearch'
           /\ SearchInv' /\ SeenInv' /\ DiskInv' /\ ModeInv' /\ LoadedInv' /\ CauseInv'
  <1>1. /\ setup \in Setups /\ port \in 1..Len(setup.disks)
        /\ type = setup.type /\ setup.type \in {"SDCARD_ISP", "USB_ISP"}
        /\ faults \in Nat /\ Looking /\ disk = setup.disks[port]
    BY SetupFacts, SizeAssumption DEF IInv, TypeOK, SearchInv, Looking, disk
  <1>2. CASE sector'.fatType = "none" /\ NoFiles
    <2>1. faults' = 0 => ~Usable(disk)
      BY <1>2, NoVolume
    <2>2. fileInfo' = fileInfo
      BY DEF CheckFatType
    <2> QED
      BY <1>1, <1>2, <2>1, <2>2, NoFilesStep
  <1>3. CASE sector'.fatType # "none" /\ pc' = "read_dir" /\ UNCHANGED port
    <2>1. disk' = disk
      BY <1>3 DEF disk
    <2>2. /\ DOMAIN disk.root = 1..Len(disk.root) /\ Len(disk.root) \in Nat \ {0}
          /\ Len(disk.root[1]) \in Nat \ {0} /\ DOMAIN disk.root[1] = 1..Len(disk.root[1])
          /\ \A c \in DOMAIN disk.root : DOMAIN disk.root[c] = 1..Len(disk.root[c])
      BY <1>1, RootFacts
    <2>3. 1 \in DOMAIN disk.root /\ 1 \in DOMAIN disk.root[1]
      BY <2>2
    <2>a. InSearch'
      <3>1. 1 \in Clusters /\ Dir(1) = disk.root[1]
        BY <1>1, <2>3, DirFacts DEF Clusters
      <3>2. clus' \in Clusters /\ sect' \in DOMAIN Dir(clus')
        BY <2>3, <3>1
      <3> QED
        BY <2>1, <3>2 DEF InSearch, Clusters, Dir
    <2>4. SearchInv'
      BY <1>1, <1>3, <2>1, <2>3 DEF SearchInv, Looking, Searching, Clusters
    <2>5. SeenInv'
      <3> SUFFICES ASSUME faults' = 0 PROVE SeenInv'
        BY DEF SeenInv
      <3>1. faults = 0 /\ pc \notin {"read_dir", "look", "next_cluster"}
        BY <1>1
      <3>2. ~(\E c, k, n : InDir(disk, c, k, n) /\ Passed(c, k, n)')
        BY <1>3, <2>2 DEF InDir, Passed
      <3>3. CASE setup.type = "SDCARD_ISP"
        <4>1. fileInfo' = [n \in FileName |-> NoFile] /\ count' = 0
          BY <1>1, <3>1, <3>3 DEF IInv, SeenInv, CheckFatType, Searching
        <4>2. Counted' /\ (count # 3)'
          BY <4>1 DEF Counted, One, NoFile, FileName
        <4>3. \A name \in FileName : Known(name)'
          BY <2>1, <3>2, <4>1 DEF Known
        <4> QED
          BY <1>3, <2>1, <2>3, <3>3, <4>2, <4>3 DEF SeenInv, Searching
      <3>4. CASE setup.type = "USB_ISP"
        <4>1. fileInfo'["ISPBOOOT"].size = 0
          BY <1>1, <3>1, <3>4 DEF IInv, SeenInv, CheckFatType
        <4> QED
          BY <1>3, <2>1, <2>3, <3>2, <3>4, <4>1 DEF SeenInv
      <3> QED
        BY <1>1, <3>3, <3>4
    <2>6. DiskInv'
      BY <1>1, <1>3, SetupConstant DEF IInv, DiskInv, Chosen, Looking
    <2>7. CauseInv'
      BY <1>3 DEF CauseInv
    <2> QED
      BY <1>1, <1>3, <2>a, <2>4, <2>5, <2>6, <2>7, Unloaded
  <1> QED
    BY <1>2, <1>3 DEF CheckFatType

LEMMA ReadMbrIInv == IInv /\ ReadMbr => IInv'
  <1> SUFFICES ASSUME IInv, ReadMbr PROVE IInv'
    OBVIOUS
  <1>1. /\ pc = "mbr" /\ setup \in Setups /\ port \in 1..Len(setup.disks)
        /\ setup' = setup /\ type' = type /\ fip_spot' = fip_spot /\ buf' = buf
        /\ clus' = 1 /\ sect' = 1 /\ ent' = 1
        /\ faults' \in 0..MaxFaults /\ faults \in Nat /\ faults' >= faults
        /\ fileInfo' = fileInfo /\ 1 \in 1..Entries + 1
        /\ disk.fatType \in {"FAT_32", "FAT_16", "none"}
    BY RootFacts, SizeAssumption
       DEF IInv, TypeOK, SearchInv, ReadMbr, Works, Fails, CheckFatType, found, disk
  <1>2. Blank \in [1..Entries -> DirEntry]
    BY DEF Blank, DirEntry
  <1>3. CASE \/ Works /\ ~disk.mbr /\ sector' = Volume /\ CheckFatType
             \/ /\ Fails /\ (sector' = sector \/ (~disk.mbr /\ sector' = Volume))
                /\ CheckFatType
    <2>0. sector \in Sector /\ sector.fatType = "none"
      BY <1>1 DEF IInv, TypeOK, SearchInv, Searching
    <2>1. /\ sector' \in Sector /\ sector'.fatType \in {"none", disk.fatType} /\ count' = 0
          /\ faults' = 0 => sector'.fatType = disk.fatType
      BY <1>1, <1>2, <1>3, <2>0 DEF Volume, Sector, CheckFatType, Fails
    <2>2. /\ pc' \in {"init", "return", "read_dir"} /\ port' \in 1..Len(setup.disks)
          /\ pc' = "read_dir" => InSearch'
          /\ SearchInv' /\ SeenInv' /\ DiskInv' /\ ModeInv' /\ LoadedInv' /\ CauseInv'
      BY <1>1, <1>3, <2>1, CheckFatTypeStep
    <2>3. TypeOK'
      BY <1>1, <2>1, <2>2 DEF IInv, TypeOK, InSearch
    <2> QED
      BY <2>2, <2>3 DEF IInv
  <1>4. CASE \/ /\ Works /\ sector' = [fatType |-> "none", ent |-> Blank]
                /\ pc' = "dbr" /\ UNCHANGED <<port, found>>
             \/ Fails /\ pc' \in {"return", "dbr"} /\ UNCHANGED <<port, sector, found>>
    <2>1. /\ pc' \in {"dbr", "return"} /\ port' = port /\ count' = count
          /\ sector' \in Sector
          /\ sector'.fatType = "none"
          /\ pc' = "return" => faults' > 0
      BY <1>1, <1>2, <1>4 DEF IInv, TypeOK, SearchInv, Sector, found, Fails
    <2>2. TypeOK'
      BY <1>1, <2>1 DEF IInv, TypeOK
    <2>3. SearchInv'
      BY <1>1, <2>1 DEF IInv, SearchInv, Looking, Searching
    <2>4. SeenInv' /\ CauseInv'
      BY <1>1, <2>1 DEF IInv, SeenInv, CauseInv, Looking, Searching
    <2>5. DiskInv'
      BY <1>1, <2>1, SetupConstant DEF IInv, DiskInv, Chosen
    <2> QED
      BY <2>1, <2>2, <2>3, <2>4, <2>5, Unloaded DEF IInv
  <1> QED
    BY <1>3, <1>4 DEF ReadMbr

LEMMA ReadDbrIInv == IInv /\ ReadDbr => IInv'
  <1> SUFFICES ASSUME IInv, ReadDbr PROVE IInv'
    OBVIOUS
  <1>1. /\ pc = "dbr" /\ setup \in Setups /\ port \in 1..Len(setup.disks)
        /\ setup' = setup /\ type' = type /\ fip_spot' = fip_spot /\ buf' = buf
        /\ clus' = 1 /\ sect' = 1 /\ ent' = 1
        /\ faults' \in 0..MaxFaults /\ faults \in Nat /\ faults' >= faults
        /\ fileInfo' = fileInfo /\ count' = 0 /\ CheckFatType
        /\ disk.fatType \in {"FAT_32", "FAT_16", "none"}
        /\ sector.fatType = "none" /\ sector \in Sector
    BY RootFacts, SizeAssumption
       DEF IInv, TypeOK, SearchInv, ReadDbr, Works, Fails, CheckFatType, search, disk
  <1>2. Volume \in Sector /\ Volume.fatType = disk.fatType
    BY <1>1 DEF Volume, Sector, Blank, DirEntry
  <1>3. /\ sector' \in Sector /\ sector'.fatType \in {"none", disk.fatType}
        /\ faults' = 0 => sector'.fatType = disk.fatType
    BY <1>1, <1>2 DEF ReadDbr, Fails
  <1>4. /\ pc' \in {"init", "return", "read_dir"} /\ port' \in 1..Len(setup.disks)
        /\ pc' = "read_dir" => InSearch'
        /\ SearchInv' /\ SeenInv' /\ DiskInv' /\ ModeInv' /\ LoadedInv' /\ CauseInv'
    BY <1>1, <1>3, CheckFatTypeStep
  <1>5. TypeOK'
    BY <1>1, <1>3, <1>4, SizeAssumption DEF IInv, TypeOK, InSearch
  <1> QED
    BY <1>4, <1>5 DEF IInv

(* What the search knows stays true while it has seen no other entries. *)
LEMMA KnownKept ==
    ASSUME disk' = disk, NEW name, fileInfo'[name] = fileInfo[name],
           \A c, k, n : InDir(disk, c, k, n) /\ disk.root[c][k][n].name = name
               => (Passed(c, k, n)' <=> Passed(c, k, n)),
           Known(name)
    PROVE  Known(name)'
  <1>1. \A c, k, n : InDir(disk', c, k, n) /\ Passed(c, k, n)'
                        /\ disk'.root[c][k][n].name = name
           => fileInfo'[name] = [found |-> TRUE, size |-> disk'.root[c][k][n].size]
    BY DEF Known
  <1>2. (\A c, k, n : InDir(disk', c, k, n) /\ Passed(c, k, n)'
                        => disk'.root[c][k][n].name # name)
           => fileInfo'[name] = NoFile
    BY DEF Known
  <1> QED
    BY <1>1, <1>2 DEF Known

(* The search goes on in the same directory and has found nothing new. *)
LEMMA SearchStep ==
    ASSUME IInv, Searching, pc' \in {"read_dir", "look", "next_cluster"},
           setup' = setup, type' = type, port' = port, fileInfo' = fileInfo, count' = count,
           faults' \in 0..MaxFaults, faults' >= faults, clus' \in Clusters,
           pc' \in {"look", "next_cluster"} => sector'.fatType = "none",
           pc' = "next_cluster" =>
               disk.fatType = "FAT_32" /\ sect' \in Nat /\ sect' > Len(Dir(clus')),
           faults' = 0 =>
               /\ clus' \in DOMAIN disk.root
               /\ pc' = "look" => sector'.ent = disk.root[clus'][sect']
               /\ \A c, k, n :
                     InDir(disk, c, k, n) /\ disk.root[c][k][n].name \in Wanted
                         => (Passed(c, k, n)' <=> Passed(c, k, n))
    PROVE  SearchInv' /\ SeenInv' /\ DiskInv' /\ ModeInv' /\ LoadedInv' /\ CauseInv'
  <1>1. /\ setup \in Setups /\ type = setup.type /\ setup.type \in {"SDCARD_ISP", "USB_ISP"}
        /\ faults \in Nat /\ Looking /\ disk' = disk /\ disk.fatType # "none"
    BY SetupFacts, SizeAssumption DEF IInv, TypeOK, SearchInv, Looking, Searching, disk
  <1>2. SearchInv'
    BY <1>1 DEF IInv, SearchInv, Looking, Searching, Clusters, Dir
  <1>3. SeenInv'
    <2> SUFFICES ASSUME faults' = 0 PROVE SeenInv'
      BY DEF SeenInv
    <2>1. faults = 0
      BY <1>1
    <2>2. CASE setup.type = "SDCARD_ISP"
      <3>1. Counted /\ count # 3 /\ \A name \in FileName : Known(name)
        BY <1>1, <2>1, <2>2 DEF IInv, SeenInv
      <3>2. Wanted = FileName
        BY <1>1, <2>2 DEF Wanted
      <3>3. \A name \in FileName : Known(name)'
        BY <1>1, <3>1, <3>2, KnownKept
      <3>4. Counted'
        BY <3>1 DEF Counted, One
      <3> QED
        BY <1>1, <2>2, <3>1, <3>3, <3>4 DEF SeenInv, Searching
    <2>3. CASE setup.type = "USB_ISP"
      <3>1. /\ fileInfo["ISPBOOOT"].size = 0 /\ Wanted = {"ISPBOOOT"}
            /\ \A c, k, n : InDir(disk, c, k, n) /\ Passed(c, k, n)
                               /\ disk.root[c][k][n].name = "ISPBOOOT"
                   => disk.root[c][k][n].size = 0
        BY <1>1, <2>1, <2>3 DEF IInv, SeenInv, Wanted
      <3> QED
        BY <1>1, <2>3, <3>1 DEF SeenInv
    <2> QED
      BY <1>1, <2>2, <2>3
  <1>4. DiskInv'
    BY <1>1, SetupConstant DEF IInv, DiskInv, Chosen, Looking
  <1>5. CauseInv'
    BY DEF CauseInv
  <1> QED
    BY <1>2, <1>3, <1>4, <1>5, Unloaded

LEMMA PartlySector ==
    ASSUME sector \in Sector, NEW new \in [1..Entries -> DirEntry]
    PROVE  Partly(new) \subseteq Sector /\ \A s \in Partly(new) : s.fatType = "none"
  <1> DEFINE part(k) == [n \in 1..Entries |-> IF n <= k THEN new[n] ELSE sector.ent[n]]
  <1>1. sector.ent \in [1..Entries -> DirEntry]
    BY DEF Sector
  <1>2. \A k : part(k) \in [1..Entries -> DirEntry]
    BY <1>1
  <1>3. Partly(new) = {[fatType |-> "none", ent |-> part(k)] : k \in 0..Entries}
    BY DEF Partly
  <1> HIDE DEF part
  <1> QED
    BY <1>2, <1>3 DEF Sector

LEMMA ReadDirSectorIInv == IInv /\ ReadDirSector => IInv'
  <1> SUFFICES ASSUME IInv, ReadDirSector PROVE IInv'
    OBVIOUS
  <1> DEFINE new == Dir(clus)[sect]
  <1>1. /\ pc = "read_dir" /\ pc' = "look" /\ ent' = 1 /\ Searching
        /\ setup \in Setups /\ port \in 1..Len(setup.disks)
        /\ setup' = setup /\ type' = type /\ port' = port /\ clus' = clus /\ sect' = sect
        /\ fileInfo' = fileInfo /\ count' = count /\ fip_spot' = fip_spot /\ buf' = buf
        /\ faults' \in 0..MaxFaults /\ faults \in Nat /\ faults' >= faults
        /\ clus \in Clusters /\ sect \in DOMAIN Dir(clus)
        /\ sector \in Sector /\ disk' = disk
    BY SizeAssumption
       DEF IInv, TypeOK, SearchInv, ReadDirSector, Works, Fails, found, disk, Searching
  <1>2. new \in [1..Entries -> DirEntry]
    BY <1>1, DirFacts
  <1>4. \/ Works /\ sector' = [fatType |-> "none", ent |-> new]
        \/ Fails /\ sector' \in Partly(new)
    BY DEF ReadDirSector
  <1> HIDE DEF new
  <1>3. Partly(new) \subseteq Sector /\ \A s \in Partly(new) : s.fatType = "none"
    BY <1>1, <1>2, PartlySector
  <1>5. sector' \in Sector /\ sector'.fatType = "none" /\ (faults' = 0 => sector'.ent = new)
    BY <1>1, <1>2, <1>3, <1>4 DEF Sector, Fails
  <1>6. TypeOK'
    BY <1>1, <1>5, SizeAssumption DEF IInv, TypeOK, Clusters, Dir
  <1>7. \A c, k, n : InDir(disk, c, k, n) => (Passed(c, k, n)' <=> Passed(c, k, n))
    BY <1>1 DEF InDir, Passed
  <1>8. faults' = 0 => clus \in DOMAIN disk.root /\ new = disk.root[clus][sect]
    BY <1>1, DirFacts DEF IInv, SeenInv, new
  <1> QED
    BY <1>1, <1>5, <1>6, <1>7, <1>8, SearchStep DEF IInv

LEMMA LookAtOtherIInv == IInv /\ LookAtOther => IInv'
  <1> SUFFICES ASSUME IInv, LookAtOther PROVE IInv'
    OBVIOUS
  <1>1. /\ pc = "look" /\ pc' = "look" /\ ent' = ent + 1 /\ Searching
        /\ setup' = setup /\ type' = type /\ port' = port /\ clus' = clus /\ sect' = sect
        /\ fileInfo' = fileInfo /\ count' = count /\ fip_spot' = fip_spot /\ buf' = buf
        /\ faults' = faults /\ faults \in 0..MaxFaults /\ sector' = sector
        /\ clus \in Clusters /\ sect \in DOMAIN Dir(clus) /\ ent \in 1..Entries
        /\ sector.fatType = "none"
        /\ sector.ent[ent].name \notin Wanted /\ disk' = disk
    BY SizeAssumption
       DEF IInv, TypeOK, SearchInv, LookAtOther, found, disk, Searching
  <1>2. TypeOK'
    BY <1>1, SizeAssumption DEF IInv, TypeOK, Clusters, Dir
  <1>3. faults' = 0 =>
            /\ clus \in DOMAIN disk.root
            /\ sector.ent = disk.root[clus][sect]
            /\ \A c, k, n : InDir(disk, c, k, n) /\ disk.root[c][k][n].name \in Wanted
                   => (Passed(c, k, n)' <=> Passed(c, k, n))
    <2> SUFFICES ASSUME faults' = 0, NEW c, NEW k, NEW n, InDir(disk, c, k, n),
                        disk.root[c][k][n].name \in Wanted
                 PROVE  Passed(c, k, n)' <=> Passed(c, k, n)
      BY <1>1 DEF IInv, SeenInv
    <2>1. sector.ent = disk.root[clus][sect]
      BY <1>1 DEF IInv, SeenInv
    <2>2. ~(c = clus /\ k = sect /\ n = ent)
      BY <1>1, <2>1
    <2> QED
      BY <1>1, <2>2 DEF InDir, Passed
  <1> QED
    BY <1>1, <1>2, <1>3, SearchStep, SizeAssumption DEF IInv

LEMMA LookAtFileIInv == IInv /\ LookAtFile => IInv'
  <1> SUFFICES ASSUME IInv, LookAtFile PROVE IInv'
    OBVIOUS
  <1> DEFINE e == sector.ent[ent]
             entry(c, k, n) == disk.root[c][k][n]
             Here(c, k, n) == c = clus /\ k = sect /\ n = ent
  <1>1. /\ pc = "look" /\ pc' \in {"look", "mode"} /\ ent' = ent + 1 /\ Searching /\ Looking
        /\ setup \in Setups /\ port \in 1..Len(setup.disks) /\ disk = setup.disks[port]
        /\ setup' = setup /\ type' = type /\ port' = port /\ clus' = clus /\ sect' = sect
        /\ fip_spot' = fip_spot /\ buf' = buf /\ sector' = sector /\ sector \in Sector
        /\ faults' = faults /\ faults \in 0..MaxFaults /\ count' = count + 1
        /\ clus \in Clusters /\ sect \in DOMAIN Dir(clus) /\ sector.fatType = "none"
        /\ ent \in 1..Entries /\ disk' = disk /\ disk.fatType # "none"
        /\ type = setup.type /\ setup.type \in {"SDCARD_ISP", "USB_ISP"}
    BY SetupFacts, SizeAssumption
       DEF IInv, TypeOK, SearchInv, LookAtFile, disk, Searching, Looking
  <1>2. /\ e \in DirEntry /\ e.name \in Wanted /\ Wanted \subseteq FileName
        /\ fileInfo' = [fileInfo EXCEPT ![e.name] = [found |-> TRUE, size |-> e.size]]
        /\ pc' = IF AllFound THEN "mode" ELSE "look"
    BY <1>1 DEF LookAtFile, Sector, Wanted, FileName
  <1> HIDE DEF e
  <1>3. TypeOK'
    <2>1. fileInfo' \in [FileName -> [found : BOOLEAN, size : Nat]]
      BY <1>2 DEF IInv, TypeOK, DirEntry
    <2>2. ent' \in 1..Entries + 1
      BY <1>1, SizeAssumption
    <2> QED
      BY <1>1, <2>1, <2>2 DEF IInv, TypeOK, Clusters, Dir
  <1>4. SearchInv'
    BY <1>1 DEF IInv, SearchInv, Looking, Searching, Clusters, Dir
  <1>5. /\ fileInfo'[e.name] = [found |-> TRUE, size |-> e.size]
        /\ \A name \in FileName : name # e.name => fileInfo'[name] = fileInfo[name]
        /\ e.name \in FileName
    BY <1>2 DEF IInv, TypeOK
  <1>6. pc' = "look" =>
            \A c, k, n : InDir(disk, c, k, n) =>
                (Passed(c, k, n)' <=> Passed(c, k, n) \/ Here(c, k, n))
    BY <1>1 DEF InDir, Passed
  <1>root. faults = 0 => clus \in DOMAIN disk.root /\ sect \in DOMAIN disk.root[clus]
    BY <1>1, DirFacts DEF IInv, SeenInv
  <1>7. faults = 0 => InDir(disk, clus, sect, ent) /\ ~Passed(clus, sect, ent)
    BY <1>1, <1>root, RootFacts, SMTT(30) DEF InDir, Passed
  <1>8. faults = 0 => sector.ent = disk.root[clus][sect] /\ entry(clus, sect, ent) = e
    BY <1>1 DEF IInv, SeenInv, e
  <1>disk. OneSlot(disk) /\ Sized(disk)
    BY <1>1, Unique, SizeIs
  <1>only. ASSUME faults = 0, NEW c, NEW k, NEW n, InDir(disk, c, k, n),
                  entry(c, k, n).name = e.name
           PROVE  Here(c, k, n)
    <2>1. At(disk, e.name, clus, sect, ent) /\ e.name \in FileName
      BY <1>5, <1>7, <1>8, <1>only DEF At
    <2>2. At(disk, e.name, c, k, n)
      BY <1>only DEF At
    <2> QED
      BY <1>disk, <2>1, <2>2 DEF OneSlot
  (* an SD card: what is known of each of the files then *)
  <1>9. ASSUME faults = 0, setup.type = "SDCARD_ISP", NEW name \in FileName
        PROVE  /\ \A c, k, n : InDir(disk, c, k, n) /\ (Passed(c, k, n) \/ Here(c, k, n))
                                  /\ entry(c, k, n).name = name
                     => fileInfo'[name] = [found |-> TRUE, size |-> entry(c, k, n).size]
               /\ (\A c, k, n : InDir(disk, c, k, n) /\ (Passed(c, k, n) \/ Here(c, k, n))
                                  => entry(c, k, n).name # name)
                     => fileInfo'[name] = NoFile
    <2>1. Known(name)
      BY <1>1, <1>9 DEF IInv, SeenInv
    <2>2. CASE name = e.name
      <3>1. ASSUME NEW c, NEW k, NEW n, InDir(disk, c, k, n), entry(c, k, n).name = name
            PROVE  Here(c, k, n)
        BY <1>only, <1>9, <2>2, <3>1
      <3>2. \A c, k, n : InDir(disk, c, k, n) /\ entry(c, k, n).name = name
                => fileInfo'[name] = [found |-> TRUE, size |-> entry(c, k, n).size]
        <4>1. fileInfo'[name] = [found |-> TRUE, size |-> e.size] /\ entry(clus, sect, ent) = e
          BY <1>5, <1>8, <1>9, <2>2
        <4> QED
          BY <3>1, <4>1
      <3>3. Here(clus, sect, ent) /\ entry(clus, sect, ent).name = name
        BY <1>8, <1>9, <2>2
      <3>4. InDir(disk, clus, sect, ent)
        BY <1>7, <1>9
      <3> QED
        BY <3>2, <3>3, <3>4
    <2>3. CASE name # e.name
      <3>1. fileInfo'[name] = fileInfo[name]
        BY <1>5, <1>9, <2>3
      <3>2. \A c, k, n : Here(c, k, n) => entry(c, k, n).name # name
        BY <1>8, <1>9, <2>3
      <3> QED
        BY <2>1, <3>1, <3>2 DEF Known
    <2> QED
      BY <2>2, <2>3
  <1>10. ASSUME faults = 0, setup.type = "SDCARD_ISP"
         PROVE  Counted' /\ count # 3
    <2>1. Counted /\ count # 3 /\ Known(e.name)
      BY <1>1, <1>5, <1>10 DEF IInv, SeenInv
    <2>2. ASSUME NEW c, NEW k, NEW n, InDir(disk, c, k, n), Passed(c, k, n)
          PROVE  entry(c, k, n).name # e.name
      <3>1. CASE entry(c, k, n).name = e.name
        BY <1>only, <1>7, <1>10, <2>2, <3>1
      <3> QED
        BY <3>1
    <2>3. fileInfo[e.name] = NoFile
      BY <2>1, <2>2 DEF Known
    <2>4. fileInfo[e.name].found = FALSE /\ fileInfo'[e.name].found = TRUE
      BY <1>5, <2>3 DEF NoFile
    <2>5. \A name \in FileName : name # e.name => fileInfo'[name].found = fileInfo[name].found
      BY <1>5
    <2> DEFINE was(name) == IF fileInfo[name].found THEN 1 ELSE 0
               is(name) == IF fileInfo'[name].found THEN 1 ELSE 0
    <2>6. \A name \in FileName : was(name) \in {0, 1} /\ is(name) \in {0, 1}
      OBVIOUS
    <2>7. was(e.name) = 0 /\ is(e.name) = 1
      BY <2>4
    <2>8. \A name \in FileName : name # e.name => is(name) = was(name)
      BY <2>5
    <2>9. /\ count = was("ISPBOOOT") + was("U-BOOT") + was("FIP")
          /\ Counted' <=> count' = is("ISPBOOOT") + is("U-BOOT") + is("FIP")
      BY <2>1 DEF Counted, One
    <2> HIDE DEF was, is
    <2>10. count' = is("ISPBOOOT") + is("U-BOOT") + is("FIP")
      <3>1. count' = count + 1 /\ e.name \in {"ISPBOOOT", "U-BOOT", "FIP"}
        BY <1>1, <1>5 DEF FileName
      <3>2. /\ was("ISPBOOOT") \in {0, 1} /\ was("U-BOOT") \in {0, 1} /\ was("FIP") \in {0, 1}
        BY <2>6 DEF FileName
      <3>3. CASE e.name = "ISPBOOOT"
        <4>1. is("U-BOOT") = was("U-BOOT") /\ is("FIP") = was("FIP")
          BY <2>8, <3>3 DEF FileName
        <4> QED
          BY <2>7, <2>9, <3>1, <3>2, <3>3, <4>1
      <3>4. CASE e.name = "U-BOOT"
        <4>1. is("ISPBOOOT") = was("ISPBOOOT") /\ is("FIP") = was("FIP")
          BY <2>8, <3>4 DEF FileName
        <4> QED
          BY <2>7, <2>9, <3>1, <3>2, <3>4, <4>1
      <3>5. CASE e.name = "FIP"
        <4>1. is("ISPBOOOT") = was("ISPBOOOT") /\ is("U-BOOT") = was("U-BOOT")
          BY <2>8, <3>5 DEF FileName
        <4> QED
          BY <2>7, <2>9, <3>1, <3>2, <3>5, <4>1
      <3> QED
        BY <3>1, <3>3, <3>4, <3>5
    <2> QED
      BY <2>1, <2>9, <2>10
  <1>11. SeenInv'
    <2> SUFFICES ASSUME faults = 0, pc' = "look" PROVE SeenInv'
      BY <1>1 DEF SeenInv, Looking, Searching
    <2>1. CASE setup.type = "SDCARD_ISP"
      <3>1. count' # 3
        BY <1>1, <1>2, <2>1 DEF AllFound
      <3>2. ASSUME NEW name \in FileName PROVE Known(name)'
        <4>0. disk' = disk
              /\ \A c, k, n : InDir(disk, c, k, n) =>
                    (Passed(c, k, n)' <=> Passed(c, k, n) \/ Here(c, k, n))
          BY <1>1, <1>6
        <4>1. \A c, k, n : InDir(disk', c, k, n) /\ Passed(c, k, n)'
                              /\ disk'.root[c][k][n].name = name
                 => fileInfo'[name] = [found |-> TRUE, size |-> disk'.root[c][k][n].size]
          BY <1>9, <2>1, <4>0
        <4>2. (\A c, k, n : InDir(disk', c, k, n) /\ Passed(c, k, n)'
                              => disk'.root[c][k][n].name # name)
                 => fileInfo'[name] = NoFile
          BY <1>9, <2>1, <4>0
        <4> QED
          BY <4>1, <4>2 DEF Known
      <3> QED
        BY <1>1, <1>8, <1>10, <1>root, <2>1, <3>1, <3>2 DEF SeenInv, Searching
    <2>2. CASE setup.type = "USB_ISP"
      <3>1. e.name = "ISPBOOOT" /\ fileInfo'["ISPBOOOT"].size = 0 /\ e.size = 0
        BY <1>1, <1>2, <1>5, <2>2 DEF AllFound, Wanted
      <3>2. \A c, k, n : InDir(disk, c, k, n) /\ Passed(c, k, n)
                            /\ entry(c, k, n).name = "ISPBOOOT" => entry(c, k, n).size = 0
        BY <1>1, <2>2 DEF IInv, SeenInv
      <3>3. \A c, k, n : InDir(disk', c, k, n) /\ Passed(c, k, n)'
                            /\ disk'.root[c][k][n].name = "ISPBOOOT"
                => disk'.root[c][k][n].size = 0
        <4>1. disk' = disk /\ faults = 0 /\ pc' = "look"
          BY <1>1
        <4>2. \A c, k, n : InDir(disk, c, k, n) =>
                  (Passed(c, k, n)' <=> Passed(c, k, n) \/ Here(c, k, n))
          BY <1>6, <4>1
        <4>3. \A c, k, n : Here(c, k, n) => entry(c, k, n).size = 0
          BY <1>8, <3>1, <4>1
        <4> HIDE DEF Here
        <4> QED
          BY <3>2, <4>1, <4>2, <4>3
      <3> QED
        BY <1>1, <1>8, <1>root, <2>2, <3>1, <3>3 DEF SeenInv, Searching
    <2> QED
      BY <1>1, <2>1, <2>2
  <1>12. DiskInv'
    <2> SUFFICES ASSUME faults = 0 PROVE DiskInv'
      BY <1>1 DEF DiskInv
    <2>1. \A p \in 1..port' - 1 : ~Usable(setup.disks[p])'
      BY <1>1, SetupConstant DEF IInv, DiskInv, Looking
    <2>2. CASE pc' = "look"
      BY <1>1, <2>1, <2>2 DEF DiskInv, Chosen
    <2>3. CASE pc' = "mode" /\ setup.type = "SDCARD_ISP"
      <3>1. count' = 3
        BY <1>1, <1>2, <2>3 DEF AllFound
      <3>2. \A name \in FileName : fileInfo'[name].found = TRUE
        BY <1>10, <2>3, <3>1 DEF Counted, One, FileName
      <3>3. ASSUME NEW name \in FileName
            PROVE  Has(disk, name) /\ fileInfo'[name].size = SizeOf(disk, name)
        <4>1. PICK c, k, n : InDir(disk, c, k, n) /\ entry(c, k, n).name = name
                                /\ (Passed(c, k, n) \/ Here(c, k, n))
          BY <1>9, <2>3, <3>2 DEF NoFile
        <4>2. fileInfo'[name] = [found |-> TRUE, size |-> entry(c, k, n).size]
          BY <1>9, <2>3, <4>1
        <4> QED
          BY <1>disk, <4>1, <4>2 DEF Sized, At
      <3>4. Usable(disk)
        BY <2>3, <3>3 DEF Usable
      <3>5. Usable(disk)'
        BY <1>1, <3>4, SetupConstant
      <3> QED
        BY <1>1, <2>1, <2>3, <3>2, <3>3, <3>5 DEF DiskInv, FileName
    <2>4. CASE pc' = "mode" /\ setup.type = "USB_ISP"
      <3>1. e.name = "ISPBOOOT" /\ fileInfo'["ISPBOOOT"].size # 0
        BY <1>1, <1>2, <2>4 DEF AllFound, Wanted
      <3>2. SizeOf(disk, "ISPBOOOT") = e.size
        <4>1. At(disk, "ISPBOOOT", clus, sect, ent) /\ "ISPBOOOT" \in FileName
          BY <1>7, <1>8, <3>1 DEF FileName, At
        <4>2. entry(clus, sect, ent) = e
          BY <1>8
        <4> QED
          BY <1>disk, <4>1, <4>2 DEF Sized
      <3>3. fileInfo'["ISPBOOOT"].size = SizeOf(disk, "ISPBOOOT")
        BY <1>5, <3>1, <3>2
      <3>4. Usable(disk)
        BY <3>1, <3>3 DEF Usable
      <3>5. Usable(disk)'
        BY <1>1, <3>4, SetupConstant
      <3> QED
        BY <1>1, <2>1, <2>4, <3>3, <3>5 DEF DiskInv
    <2> QED
      BY <1>1, <2>2, <2>3, <2>4
  <1> QED
    BY <1>1, <1>3, <1>4, <1>11, <1>12, Unloaded DEF IInv, CauseInv

LEMMA NextSectorIInv == IInv /\ NextSector => IInv'
  <1> SUFFICES ASSUME IInv, NextSector PROVE IInv'
    OBVIOUS
  <1>1. /\ pc = "look" /\ ent > Entries /\ ent \in Nat /\ sect' = sect + 1 /\ Searching
        /\ setup \in Setups /\ port \in 1..Len(setup.disks) /\ disk = setup.disks[port]
        /\ setup' = setup /\ type' = type /\ clus' = clus /\ ent' = ent /\ sector' = sector
        /\ fileInfo' = fileInfo /\ count' = count /\ fip_spot' = fip_spot /\ buf' = buf
        /\ faults' = faults /\ faults \in 0..MaxFaults
        /\ clus \in Clusters /\ sect \in DOMAIN Dir(clus) /\ sector.fatType = "none"
    BY SizeAssumption
       DEF IInv, TypeOK, SearchInv, NextSector, NextSect, found, disk, Searching
  <1>0. Len(Dir(clus)) \in Nat /\ DOMAIN Dir(clus) = 1..Len(Dir(clus))
    BY <1>1, DirFacts
  <1>2. /\ DOMAIN disk.root = 1..Len(disk.root) /\ Len(disk.root) \in Nat
        /\ \A c \in DOMAIN disk.root : DOMAIN disk.root[c] = 1..Len(disk.root[c])
        /\ disk.fatType = "FAT_16" => Len(disk.root) = 1
    BY <1>1, RootFacts
  <1>root. faults = 0 => clus \in DOMAIN disk.root /\ Dir(clus) = disk.root[clus]
    BY <1>1, DirFacts DEF IInv, SeenInv
  <1>3. CASE /\ \/ MoreSects /\ pc' = "read_dir"
                \/ ~MoreSects /\ disk.fatType = "FAT_32" /\ pc' = "next_cluster"
             /\ UNCHANGED port
    <2>1. disk' = disk
      BY <1>1, <1>3 DEF disk
    <2>2. /\ pc' = "read_dir" => sect' \in DOMAIN Dir(clus)
          /\ pc' = "next_cluster" => disk.fatType = "FAT_32" /\ sect' \in Nat
                                       /\ sect' > Len(Dir(clus))
          /\ pc' \in {"read_dir", "next_cluster"}
      BY <1>0, <1>1, <1>3, SMTT(30) DEF MoreSects
    <2>3. faults = 0 => \A c, k, n : InDir(disk, c, k, n) => (Passed(c, k, n)' <=> Passed(c, k, n))
      <3> SUFFICES ASSUME faults = 0, NEW c, NEW k, NEW n, InDir(disk, c, k, n)
                   PROVE  Passed(c, k, n)' <=> Passed(c, k, n)
        OBVIOUS
      <3>1. c \in 1..Len(disk.root) /\ k \in 1..Len(disk.root[c]) /\ n \in 1..Entries
        BY <1>2 DEF InDir
      <3>2. clus \in 1..Len(disk.root) /\ sect \in 1..Len(disk.root[clus])
        BY <1>1, <1>2, <1>root
      <3>3. Passed(c, k, n) <=> c < clus \/ (c = clus /\ k <= sect)
        BY <1>1, <1>2, <3>1, <3>2, SizeAssumption DEF Passed
      <3>4. Passed(c, k, n)' <=> c < clus \/ (c = clus /\ k < sect + 1)
        BY <1>1, <2>2 DEF Passed
      <3> QED
        BY <1>2, <3>1, <3>2, <3>3, <3>4
    <2>c. clus' \in Clusters /\ Clusters' = Clusters /\ Dir(clus)' = Dir(clus)
      BY <1>1, <2>1 DEF Clusters, Dir
    <2>4. TypeOK'
      BY <1>1, <1>3, <2>1, <2>2, <2>c DEF IInv, TypeOK
    <2> QED
      BY <1>1, <1>3, <1>root, <2>2, <2>3, <2>4, SearchStep, SizeAssumption DEF IInv
  <1>4. CASE ~MoreSects /\ disk.fatType = "FAT_16" /\ EndOfDirectory
    <2>1. faults = 0 => \A c, k, n : InDir(disk, c, k, n) => Passed(c, k, n)
      <3> SUFFICES ASSUME faults = 0, NEW c, NEW k, NEW n, InDir(disk, c, k, n)
                   PROVE  Passed(c, k, n)
        OBVIOUS
      <3>1. c = 1 /\ clus = 1
        BY <1>root, <1>2, <1>4, SMTT(30) DEF InDir
      <3>2. k \in 1..Len(disk.root[clus]) /\ n \in 1..Entries
            /\ sect \in 1..Len(disk.root[clus])
        BY <1>1, <1>2, <1>root, <3>1 DEF InDir
      <3>3. k <= sect
        BY <1>root, <1>4, <3>2, SMTT(30) DEF MoreSects
      <3> QED
        BY <1>1, <3>1, <3>2, <3>3, SizeAssumption DEF Passed
    <2>2. /\ pc' \in {"init", "return", "mode"} /\ port' \in 1..Len(setup.disks)
          /\ SearchInv' /\ SeenInv' /\ DiskInv' /\ ModeInv' /\ LoadedInv' /\ CauseInv'
      BY <1>1, <1>4, <2>1, EndOfDirectoryStep
    <2>3. TypeOK'
      BY <1>1, <2>2 DEF IInv, TypeOK
    <2> QED
      BY <2>2, <2>3 DEF IInv
  <1> QED
    BY <1>3, <1>4 DEF NextSector

LEMMA NextClusterIInv == IInv /\ NextCluster => IInv'
  <1> SUFFICES ASSUME IInv, NextCluster PROVE IInv'
    OBVIOUS
  <1>1. /\ pc = "next_cluster" /\ sect' = 1 /\ Searching
        /\ setup \in Setups /\ port \in 1..Len(setup.disks) /\ disk = setup.disks[port]
        /\ setup' = setup /\ type' = type /\ ent' = ent
        /\ fileInfo' = fileInfo /\ count' = count /\ fip_spot' = fip_spot /\ buf' = buf
        /\ faults' \in 0..MaxFaults /\ faults \in Nat /\ faults' >= faults
        /\ clus \in Clusters /\ sect \in Nat /\ sect > Len(Dir(clus)) /\ sector \in Sector
    BY SizeAssumption, SMTT(30)
       DEF IInv, TypeOK, SearchInv, NextCluster, Works, Fails, found, disk, Searching
  <1>2. /\ DOMAIN disk.root = 1..Len(disk.root) /\ Len(disk.root) \in Nat
        /\ \A c \in DOMAIN disk.root : /\ DOMAIN disk.root[c] = 1..Len(disk.root[c])
                                       /\ Len(disk.root[c]) \in Nat \ {0}
    BY <1>1, RootFacts
  <1>root. faults = 0 => clus \in DOMAIN disk.root /\ Dir(clus) = disk.root[clus]
                           /\ clus # Elsewhere
    BY <1>1, DirFacts DEF IInv, SeenInv
  <1>3. sector' \in Sector /\ sector'.fatType = "none"
    <2>1. Blank \in [1..Entries -> DirEntry]
      BY DEF Blank, DirEntry
    <2>2. Partly(Blank) \subseteq Sector /\ \A s \in Partly(Blank) : s.fatType = "none"
      BY <1>1, <2>1, PartlySector
    <2> QED
      BY <2>1, <2>2 DEF NextCluster, Sector
  <1>4. clus' \in Clusters \union {Len(disk.root) + 1} /\ (faults' = 0 => clus' = clus + 1)
    <2>1. CASE Works
      BY <1>1, <1>2, <1>root, <2>1, SMTT(30) DEF NextCluster, Works, Fails, Clusters, Elsewhere
    <2>2. CASE Fails
      BY <1>1, <2>2 DEF NextCluster, Works, Fails
    <2> QED
      BY <2>1, <2>2 DEF NextCluster
  <1>5. CASE clus' > Len(disk.root)
    <2>1. EndOfDirectory
      BY <1>5 DEF NextCluster
    <2>2. faults' = 0 => \A c, k, n : InDir(disk, c, k, n) => Passed(c, k, n)
      <3> SUFFICES ASSUME faults' = 0, NEW c, NEW k, NEW n, InDir(disk, c, k, n)
                   PROVE  Passed(c, k, n)
        OBVIOUS
      <3>0. faults = 0 /\ clus \in DOMAIN disk.root /\ sect > Len(disk.root[clus])
        BY <1>1, <1>root
      <3>1. clus = Len(disk.root)
        BY <1>2, <1>4, <1>5, <3>0
      <3>2. c \in 1..Len(disk.root) /\ k \in 1..Len(disk.root[c])
        BY <1>2 DEF InDir
      <3>3. c < clus \/ (c = clus /\ k < sect)
        BY <1>1, <1>2, <3>0, <3>1, <3>2
      <3> QED
        BY <3>3 DEF Passed
    <2>3. /\ pc' \in {"init", "return", "mode"} /\ port' \in 1..Len(setup.disks)
          /\ SearchInv' /\ SeenInv' /\ DiskInv' /\ ModeInv' /\ LoadedInv' /\ CauseInv'
      BY <1>1, <1>3, <2>1, <2>2, EndOfDirectoryStep
    <2>4. TypeOK'
      BY <1>1, <1>3, <2>3 DEF IInv, TypeOK
    <2> QED
      BY <2>3, <2>4 DEF IInv
  <1>6. CASE ~(clus' > Len(disk.root))
    <2>1. pc' = "read_dir" /\ port' = port
      BY <1>6 DEF NextCluster
    <2>2. clus' \in Clusters /\ 1 \in DOMAIN Dir(clus') /\ disk' = disk
          /\ (faults' = 0 => clus' \in DOMAIN disk.root)
      <3>1. clus' \in Clusters
        BY <1>2, <1>4, <1>6
      <3>2. 1 \in DOMAIN Dir(clus')
        <4>1. /\ Len(Dir(clus')) \in Nat \ {0} /\ DOMAIN Dir(clus') = 1..Len(Dir(clus'))
          BY <1>1, <3>1, DirFacts
        <4> QED
          BY <4>1
      <3>3. ASSUME faults' = 0 PROVE clus' \in DOMAIN disk.root
        <4>1. clus \in 1..Len(disk.root) /\ clus' = clus + 1
          BY <1>1, <1>2, <1>4, <1>root, <3>3
        <4> QED
          BY <1>2, <1>6, <4>1
      <3> QED
        BY <1>1, <2>1, <3>1, <3>2, <3>3 DEF disk
    <2>3. faults' = 0 =>
              \A c, k, n : InDir(disk, c, k, n) => (Passed(c, k, n)' <=> Passed(c, k, n))
      <3> SUFFICES ASSUME faults' = 0, NEW c, NEW k, NEW n, InDir(disk, c, k, n)
                   PROVE  Passed(c, k, n)' <=> Passed(c, k, n)
        OBVIOUS
      <3>0. faults = 0 /\ clus \in DOMAIN disk.root
        BY <1>1, <1>root
      <3>1. c \in 1..Len(disk.root) /\ k \in 1..Len(disk.root[c]) /\ clus \in 1..Len(disk.root)
        BY <1>2, <3>0 DEF InDir
      <3> QED
        <4>1. clus' = clus + 1 /\ c \in Nat /\ clus \in Nat /\ k \in Nat /\ k >= 1
          BY <1>2, <1>4, <3>1
        <4>2. Passed(c, k, n)' <=> c < clus + 1 \/ (c = clus + 1 /\ k < 1)
          BY <1>1, <2>1, <4>1 DEF Passed
        <4>3. Passed(c, k, n) <=> c < clus \/ (c = clus /\ k < sect)
          BY <1>1 DEF Passed
        <4>4. c = clus => k < sect
          BY <1>1, <1>2, <1>root, <3>1
        <4> QED
          BY <4>1, <4>2, <4>3, <4>4
    <2>d. Clusters' = Clusters /\ Dir(clus)' = Dir(clus')
      BY <2>2 DEF Clusters, Dir
    <2>4. TypeOK'
      BY <1>1, <1>3, <2>1, <2>2, <2>d DEF IInv, TypeOK
    <2> QED
      BY <1>1, <1>3, <2>1, <2>2, <2>3, <2>4, SearchStep DEF IInv
  <1> QED
    BY <1>5, <1>6

-----------------------------------------------------------------------------
(* From here on the disk is chosen. *)

LEMMA SelectModeIInv == IInv /\ SelectMode => IInv'
  <1> SUFFICES ASSUME IInv, SelectMode PROVE IInv'
    OBVIOUS
  <1>1. /\ pc = "mode" /\ pc' = IF type' = "SDCARD_BOOT" THEN "fip_hdr" ELSE "fip_table"
        /\ type' = IF ~BootMode THEN type
                   ELSE IF type = "SDCARD_ISP" THEN "SDCARD_BOOT" ELSE "USB_BOOT"
        /\ fip_spot' = IF ~fileInfo["FIP"].found THEN "none" ELSE "FIP"
        /\ setup' = setup /\ faults' = faults /\ port' = port /\ sector' = sector
        /\ clus' = clus /\ sect' = sect /\ ent' = ent /\ fileInfo' = fileInfo
        /\ count' = count /\ buf' = buf /\ disk' = disk
        /\ setup \in Setups /\ type = setup.type /\ setup.type \in {"SDCARD_ISP", "USB_ISP"}
    BY SetupFacts DEF IInv, SearchInv, SelectMode, search, found, disk
  <1>2. TypeOK'
    BY <1>1 DEF IInv, TypeOK, Spot
  <1>3. SearchInv'
    BY <1>1 DEF SearchInv, Looking, Searching
  <1>4. SeenInv' /\ CauseInv'
    BY <1>1 DEF SeenInv, CauseInv, Looking, Searching
  <1>5. DiskInv'
    BY <1>1, SetupConstant DEF IInv, DiskInv, Chosen
  <1>6. faults = 0 => (type' = "SDCARD_BOOT" <=> FromFiles(disk))
    BY <1>1 DEF IInv, DiskInv, Chosen, BootMode, FromFiles
  <1>7. ModeInv'
    BY <1>1, <1>6, SetupConstant DEF ModeInv, Loading, Chosen
  <1>8. LoadedInv'
    BY <1>1 DEF LoadedInv, BodyPc, DcrcPc
  <1> QED
    BY <1>2, <1>3, <1>4, <1>5, <1>7, <1>8 DEF IInv

(* While images are loaded, what the search has found does not change. *)
LEMMA LoadingStep ==
    ASSUME IInv, Chosen, pc # "mode",
           pc' \in {"fip_hdr", "fip_body", "fip_dcrc", "uboot_hdr", "uboot_body",
                    "uboot_dcrc", "boot_uboot", "return"},
           setup' = setup, type' = type, port' = port, fileInfo' = fileInfo,
           faults' \in 0..MaxFaults, faults' >= faults,
           (fip_spot' = fip_spot /\ Loading) \/ ModeInv'
    PROVE  /\ SearchInv' /\ SeenInv' /\ DiskInv' /\ ModeInv' /\ disk' = disk
           /\ pc' # "return" => CauseInv'
  <1>1. faults \in Nat /\ disk' = disk /\ (faults' = 0 => faults = 0)
    BY SizeAssumption DEF IInv, TypeOK, disk
  <1>2. SearchInv'
    BY DEF IInv, SearchInv, Looking, Searching
  <1>3. SeenInv'
    BY DEF SeenInv, Looking, Searching
  <1>4. DiskInv'
    <2>1. ASSUME faults' = 0, pc' # "return" PROVE DiskInv'
      <3>1. faults = 0 /\ pc # "return"
        BY <1>1, <2>1 DEF Chosen
      <3> QED
        BY <1>1, <2>1, <3>1, SetupConstant DEF IInv, DiskInv
    <2> QED
      BY <2>1 DEF DiskInv, Chosen
  <1>5. ModeInv'
    <2>1. CASE fip_spot' = fip_spot /\ Loading
      BY <1>1, <2>1, SetupConstant DEF IInv, ModeInv, Loading, Chosen
    <2> QED
      BY <2>1
  <1> QED
    BY <1>1, <1>2, <1>3, <1>4, <1>5 DEF CauseInv

(* The one place where an image must be looked for is where it is looked for. *)
LEMMA MustTryIsSpot ==
    ASSUME IInv, Chosen, pc # "mode", faults = 0, NEW name \in {"uboot", "fip"},
           Loading \/ name = "fip",
           pc = "fip_table" => disk.table # "with fip"
    PROVE  MustTry[name] \subseteq {<<port, SpotOf(name)>>} /\ (pc = "fip_table" => MustTry[name] = {})
  <1>1. /\ setup \in Setups /\ port \in 1..Len(setup.disks) /\ disk = setup.disks[port]
        /\ pc # "return"
    BY DEF IInv, TypeOK, SearchInv, disk, Chosen
  <1>2. /\ Usable(disk) /\ \A p \in 1..port - 1 : ~Usable(setup.disks[p])
        /\ setup.type = "SDCARD_ISP" =>
               \A n \in FileName : fileInfo[n].found <=> Has(disk, n)
    BY <1>1 DEF IInv, DiskInv
  <1>3. UsablePorts # {} /\ TheDisk = port
    BY <1>1, <1>2, FirstIsTheDisk
  <1>4. type = "SDCARD_BOOT" <=> FromFiles(disk)
    BY DEF IInv, ModeInv
  <1>5. CASE FromFiles(disk)
    <2>1. setup.type = "SDCARD_ISP" /\ pc # "fip_table" /\ Loading
      BY <1>4, <1>5 DEF FromFiles, IInv, ModeInv, Loading
    <2>2. fip_spot = IF Has(disk, "FIP") THEN "FIP" ELSE "none"
      BY <1>2, <1>4, <1>5, <2>1 DEF IInv, ModeInv, FileName
    <2>3. uboot_spot = IF Has(disk, "U-BOOT") THEN "U-BOOT" ELSE "none"
      BY <1>2, <1>4, <1>5, <2>1 DEF uboot_spot, FileName
    <2>4. MustTry = [uboot |-> IF Has(disk, "U-BOOT") THEN {<<port, "U-BOOT">>} ELSE {},
                     fip |-> IF Has(disk, "FIP") THEN {<<port, "FIP">>} ELSE {}]
      BY <1>1, <1>3, <1>5 DEF MustTry
    <2>5. CASE name = "fip"
      BY <2>1, <2>2, <2>4, <2>5 DEF SpotOf
    <2>6. CASE name = "uboot"
      BY <2>1, <2>3, <2>4, <2>6 DEF SpotOf
    <2> QED
      BY <2>5, <2>6
  <1>6. CASE ~FromFiles(disk)
    <2>1. Loading => fip_spot = IF disk.table = "with fip" THEN "isp_fip" ELSE "isp_xboot"
      BY <1>4, <1>6 DEF IInv, ModeInv
    <2>2. uboot_spot = "isp_uboot"
      BY <1>4, <1>6 DEF uboot_spot
    <2>3. MustTry = [uboot |-> {<<port, "isp_uboot">>},
                     fip |-> IF disk.table = "with fip" THEN {<<port, "isp_fip">>} ELSE {}]
      BY <1>1, <1>3, <1>6 DEF MustTry
    <2>4. CASE name = "fip"
      <3>1. CASE pc = "fip_table"
        BY <2>3, <2>4, <3>1
      <3>2. CASE pc # "fip_table"
        BY <2>1, <2>3, <2>4, <3>2 DEF SpotOf, Loading
      <3> QED
        BY <3>1, <3>2
    <2>5. CASE name = "uboot"
      BY <2>2, <2>3, <2>5 DEF SpotOf, Loading
    <2> QED
      BY <2>4, <2>5
  <1> QED
    BY <1>5, <1>6

LEMMA SpotFacts ==
    ASSUME IInv, NEW name \in {"uboot", "fip"}
    PROVE  /\ SpotOf(name) \in Spot /\ disk.img[SpotOf(name)] \in Image
           /\ disk.img[SpotOf(name)].size \in Nat
           /\ LoadLength(disk.img[SpotOf(name)]) \in Nat
           /\ Limit(name) \in Nat
  <1>1. SpotOf(name) \in Spot
    BY DEF IInv, TypeOK, SpotOf, uboot_spot, Spot
  <1>2. disk.img \in [Spot -> Image]
    BY SetupFacts DEF IInv, TypeOK, SearchInv, disk, Disk
  <1>3. disk.img[SpotOf(name)] \in Image
    BY <1>1, <1>2
  <1>4. disk.img[SpotOf(name)].size \in Nat
    BY <1>3 DEF Image
  <1>5. LoadLength(disk.img[SpotOf(name)]) \in Nat
    BY <1>4, SizeAssumption DEF LoadLength, HdrSize
  <1> QED
    BY <1>1, <1>3, <1>4, <1>5, SizeAssumption DEF Limit

(* An image that is refused although nothing failed is not whole. *)
LEMMA RefusedIsNotWhole ==
    ASSUME IInv, Loading, faults = 0, NEW name \in {"uboot", "fip"},
           ~(/\ Acceptable(disk.img[SpotOf(name)], name)
             /\ disk.img[SpotOf(name)].size > 0 /\ disk.img[SpotOf(name)].body)
    PROVE  NoWhole(name)
  <1> DEFINE im == disk.img[SpotOf(name)]
             place == <<port, SpotOf(name)>>
  <1>1. MustTry[name] \subseteq {place}
    BY MustTryIsSpot DEF Loading
  <1>2. im \in Image /\ im.size \in Nat /\ Limit(name) \in Nat
    BY SpotFacts
  <1>3. Content(place) = [im EXCEPT !.name = NameAt(SpotOf(name))]
    <2>1. port \in 1..Len(setup.disks) /\ Len(setup.disks) \in Nat
      BY SetupFacts DEF IInv, TypeOK, SearchInv
    <2>2. ~(port > Len(setup.disks))
      BY <2>1
    <2> QED
      BY <2>2 DEF Content, disk
  <1>4. ASSUME Whole(Content(place), name, Limit(name) + 1)
        PROVE  Acceptable(im, name) /\ im.size > 0 /\ im.body
    <2>1. /\ Content(place).magic = im.magic /\ Content(place).hcrc = im.hcrc
          /\ Content(place).size = im.size /\ Content(place).body = im.body
      BY <1>2, <1>3 DEF Image
    <2> HIDE DEF im, place
    <2>2. im.magic /\ im.hcrc /\ im.body
      BY <1>4, <2>1 DEF Whole, HeaderOk, image_check_magic, image_check_hcrc
    <2>3. im.size > 0 /\ HdrSize + im.size < Limit(name) + 1
      BY <1>4, <2>1 DEF Whole
    <2>4. HdrSize + im.size <= Limit(name)
      BY <1>2, <2>3 DEF HdrSize
    <2> QED
      BY <2>2, <2>3, <2>4 DEF Acceptable, image_check_magic, image_check_hcrc
  <1>5. ~Whole(Content(place), name, Limit(name) + 1)
    BY <1>4
  <1> QED
    BY <1>1, <1>5 DEF NoWhole

(* A buffer that is left alone keeps what is in it. *)
LEMMA BufferKept ==
    ASSUME setup' = setup, port' = port, type' = type, fileInfo' = fileInfo,
           fip_spot' = fip_spot, faults \in Nat, faults' \in Nat, faults' >= faults,
           NEW name \in {"uboot", "fip"}, buf'[name] = buf[name]
    PROVE  /\ HeaderIn(name) => HeaderIn(name)'
           /\ Complete(name) => Complete(name)'
           /\ Sound(name) => Sound(name)'
  <1>1. SpotOf(name)' = SpotOf(name) /\ disk' = disk
    BY DEF SpotOf, uboot_spot, disk
  <1>2. HeaderIn(name) => HeaderIn(name)'
    BY <1>1 DEF HeaderIn
  <1>3. faults' = 0 => faults = 0
    OBVIOUS
  <1>4. Complete(name) => Complete(name)'
    BY <1>1, <1>3 DEF Complete
  <1> QED
    BY <1>1, <1>2, <1>4 DEF Sound

LEMMA ReadFipTableIInv == IInv /\ ReadFipTable => IInv'
  <1> SUFFICES ASSUME IInv, ReadFipTable PROVE IInv'
    OBVIOUS
  <1>1. /\ pc = "fip_table" /\ pc' \in {"fip_hdr", "return"} /\ Chosen
        /\ setup' = setup /\ type' = type /\ port' = port /\ sector' = sector
        /\ clus' = clus /\ sect' = sect /\ ent' = ent /\ fileInfo' = fileInfo
        /\ count' = count /\ buf' = buf /\ disk' = disk /\ type # "SDCARD_BOOT"
        /\ Works \/ Fails
    BY DEF IInv, ModeInv, ReadFipTable, search, found, disk, Chosen
  <1>2. faults' \in 0..MaxFaults /\ faults' >= faults /\ faults \in Nat
    BY <1>1, SizeAssumption DEF IInv, TypeOK, Works, Fails
  <1>3. /\ fip_spot' \in {fip_spot, "isp_fip", "isp_xboot"}
        /\ pc' = "fip_hdr" => fip_spot' \in {"isp_fip", "isp_xboot"}
    BY DEF ReadFipTable
  <1>4. TypeOK'
    <2>1. fip_spot' \in Spot
      BY <1>3 DEF IInv, TypeOK, Spot
    <2> QED
      BY <1>1, <1>2, <2>1 DEF IInv, TypeOK
  <1>5. faults' = 0 =>
            /\ faults = 0
            /\ pc' = "fip_hdr" =>
                   fip_spot' = IF disk.table = "with fip" THEN "isp_fip" ELSE "isp_xboot"
            /\ pc' = "return" => disk.table # "with fip"
    <2> SUFFICES ASSUME faults' = 0
                 PROVE  /\ faults = 0
                        /\ pc' = "fip_hdr" => fip_spot' = IF disk.table = "with fip"
                                                         THEN "isp_fip" ELSE "isp_xboot"
                        /\ pc' = "return" => disk.table # "with fip"
      OBVIOUS
    <2>1. faults = 0 /\ ~Fails
      BY <1>2 DEF Fails
    <2> QED
      BY <2>1 DEF ReadFipTable
  <1>6. ModeInv'
    <2>1. Loading' => fip_spot' \in {"isp_fip", "isp_xboot"} /\ pc' = "fip_hdr"
      BY <1>1, <1>3 DEF Loading, Chosen
    <2>2. faults' = 0 => ~FromFiles(disk)'
      BY <1>1, <1>5, SetupConstant DEF IInv, ModeInv, Chosen
    <2>3. type' # "SDCARD_BOOT" /\ pc' # "fip_table" /\ disk' = disk
      BY <1>1
    <2> QED
      BY <1>5, <2>1, <2>2, <2>3 DEF ModeInv
  <1>7. SearchInv' /\ SeenInv' /\ DiskInv' /\ (pc' # "return" => CauseInv')
    BY <1>1, <1>6, <1>2, LoadingStep
  <1>8. LoadedInv'
    BY <1>1 DEF LoadedInv, BodyPc, DcrcPc
  <1>9. ASSUME faults' = 0, pc' = "return" PROVE NoWhole("fip")'
    <2>1. MustTry["fip"] = {}
      BY <1>1, <1>5, <1>9, MustTryIsSpot
    <2>2. NoWhole("fip")
      BY <2>1 DEF NoWhole
    <2> QED
      BY <1>1, <2>2, SetupConstant
  <1>10. CauseInv'
    BY <1>7, <1>9 DEF CauseInv
  <1> QED
    BY <1>4, <1>6, <1>7, <1>8, <1>10 DEF IInv

(* The three steps of a load: what they have in common *)
LEMMA LoadIInv ==
    ASSUME IInv, NEW name \in {"uboot", "fip"},
           pc \in {HdrPc(name), BodyPc(name), DcrcPc(name)},
           pc' \in {HdrPc(name), BodyPc(name), DcrcPc(name), "uboot_hdr", "boot_uboot", "return"},
           setup' = setup, type' = type, port' = port, sector' = sector,
           clus' = clus, sect' = sect, ent' = ent, fileInfo' = fileInfo, count' = count,
           fip_spot' = fip_spot, faults' \in 0..MaxFaults, faults' >= faults,
           buf' \in [{"uboot", "fip"} -> Buffer],
           \A n \in {"uboot", "fip"} : n # name => buf'[n] = buf[n],
           pc' \in {BodyPc(name), DcrcPc(name)} => HeaderIn(name)',
           pc' = DcrcPc(name) => Complete(name)',
           pc' = "uboot_hdr" /\ name = "fip" => Sound("fip")',
           pc' = "boot_uboot" => name = "uboot" /\ Sound("uboot")',
           pc' = "return" /\ faults' = 0 => NoWhole(name)
    PROVE  IInv'
  <1>1. /\ Loading /\ Chosen /\ pc # "mode" /\ faults \in Nat
        /\ pc' \in {"fip_hdr", "fip_body", "fip_dcrc", "uboot_hdr", "uboot_body",
                    "uboot_dcrc", "boot_uboot", "return"}
    BY SizeAssumption DEF Loading, Chosen, HdrPc, BodyPc, DcrcPc, IInv, TypeOK
  <1>2. SearchInv' /\ SeenInv' /\ DiskInv' /\ ModeInv' /\ disk' = disk
        /\ (pc' # "return" => CauseInv')
    BY <1>1, LoadingStep
  <1>3. TypeOK'
    BY <1>1, <1>2 DEF IInv, TypeOK
  <1>4. CauseInv'
    BY <1>2, SetupConstant DEF CauseInv
  <1>5. LoadedInv'
    <2>1. CASE name = "fip"
      <3>1. /\ pc' \in {"fip_body", "fip_dcrc"} => HeaderIn("fip")'
            /\ pc' = "fip_dcrc" => Complete("fip")'
            /\ pc' = "uboot_hdr" => Sound("fip")'
            /\ pc' \in {"fip_hdr", "fip_body", "fip_dcrc", "uboot_hdr", "return"}
        BY <2>1 DEF HdrPc, BodyPc, DcrcPc
      <3> QED
        BY <3>1 DEF LoadedInv, BodyPc, DcrcPc
    <2>2. CASE name = "uboot"
      <3>1. /\ pc' \in {"uboot_body", "uboot_dcrc"} => HeaderIn("uboot")'
            /\ pc' = "uboot_dcrc" => Complete("uboot")'
            /\ pc' = "boot_uboot" => Sound("uboot")'
            /\ pc' \in {"uboot_hdr", "uboot_body", "uboot_dcrc", "boot_uboot", "return"}
        BY <2>2 DEF HdrPc, BodyPc, DcrcPc
      <3>2. Sound("fip")
        BY <2>2 DEF IInv, LoadedInv, HdrPc, BodyPc, DcrcPc
      <3>3. Sound("fip")'
        BY <1>1, <2>2, <3>2, BufferKept, SizeAssumption
      <3> QED
        BY <3>1, <3>3 DEF LoadedInv, BodyPc, DcrcPc
    <2> QED
      BY <2>1, <2>2
  <1> QED
    BY <1>2, <1>3, <1>4, <1>5 DEF IInv

(* the state of a load; nothing but the buffer and the next operation changes *)
LEMMA LoadFrame ==
    ASSUME IInv, NEW name \in {"uboot", "fip"},
           ReadHeader(name) \/ ReadBody(name) \/ CheckData(name)
    PROVE  /\ pc \in {HdrPc(name), BodyPc(name), DcrcPc(name)} /\ Loading
           /\ setup' = setup /\ type' = type /\ port' = port /\ sector' = sector
           /\ clus' = clus /\ sect' = sect /\ ent' = ent /\ fileInfo' = fileInfo
           /\ count' = count /\ fip_spot' = fip_spot
           /\ faults \in Nat /\ faults' \in 0..MaxFaults /\ faults' >= faults
           /\ disk' = disk /\ SpotOf(name)' = SpotOf(name)
           /\ port \in Nat /\ buf \in [{"uboot", "fip"} -> Buffer]
  <1>1. /\ pc \in {HdrPc(name), BodyPc(name), DcrcPc(name)}
        /\ setup' = setup /\ type' = type /\ port' = port /\ sector' = sector
        /\ clus' = clus /\ sect' = sect /\ ent' = ent /\ fileInfo' = fileInfo
        /\ count' = count /\ fip_spot' = fip_spot
    BY DEF ReadHeader, ReadBody, CheckData, search, found
  <1>2. faults \in Nat /\ faults' \in 0..MaxFaults /\ faults' >= faults
    BY SizeAssumption DEF IInv, TypeOK, ReadHeader, ReadBody, CheckData, Works, Fails
  <1>3. Loading
    BY <1>1 DEF Loading, Chosen, HdrPc, BodyPc, DcrcPc
  <1>4. disk' = disk /\ SpotOf(name)' = SpotOf(name)
    BY <1>1 DEF disk, SpotOf, uboot_spot
  <1>5. port \in Nat /\ buf \in [{"uboot", "fip"} -> Buffer]
    BY SetupFacts DEF IInv, TypeOK, SearchInv
  <1> QED
    BY <1>1, <1>2, <1>3, <1>4, <1>5

LEMMA ReadHeaderIInv == ASSUME IInv, NEW name \in {"uboot", "fip"}, ReadHeader(name) PROVE IInv'
  <1> DEFINE spot == SpotOf(name)
             im == disk.img[spot]
  <1>1. pc = HdrPc(name) /\ spot \in Spot /\ spot = (IF name = "fip" THEN fip_spot ELSE uboot_spot)
    BY SpotFacts DEF ReadHeader, SpotOf
  <1>2. CASE Works /\ buf' = [buf EXCEPT ![name] = [src |-> spot, port |-> port, upto |-> HdrSize]]
             /\ pc' = IF Acceptable(im, name) THEN BodyPc(name) ELSE "return"
    <2>1. /\ buf'[name] = [src |-> spot, port |-> port, upto |-> HdrSize]
          /\ \A n \in {"uboot", "fip"} : n # name => buf'[n] = buf[n]
          /\ buf' \in [{"uboot", "fip"} -> Buffer]
      BY <1>1, <1>2, LoadFrame DEF Buffer, HdrSize
    <2>2. pc' = BodyPc(name) => HeaderIn(name)'
      <3>1. pc' = BodyPc(name) => Acceptable(im, name)
        BY <1>2 DEF BodyPc
      <3> QED
        BY <2>1, <3>1, LoadFrame DEF HeaderIn
    <2>3. pc' = "return" => NoWhole(name) \/ faults # 0
      <3>1. pc' = "return" => ~Acceptable(im, name)
        BY <1>2 DEF BodyPc
      <3> QED
        BY <3>1, LoadFrame, RefusedIsNotWhole
    <2>4. pc' \in {BodyPc(name), "return"} /\ faults' = faults
      BY <1>2 DEF Works
    <2>5. BodyPc(name) \notin {DcrcPc(name), "uboot_hdr", "boot_uboot", "return"}
      BY DEF BodyPc, DcrcPc
    <2>6. DcrcPc(name) # "return"
      BY DEF DcrcPc
    <2> QED
      BY <2>1, <2>2, <2>3, <2>4, <2>5, <2>6, LoadFrame, LoadIInv
  <1>3. CASE Fails /\ pc' = "return" /\ UNCHANGED buf
    <2>1. faults' # 0 /\ buf' \in [{"uboot", "fip"} -> Buffer]
      BY <1>3, LoadFrame DEF Fails
    <2>2. "return" \notin {BodyPc(name), DcrcPc(name)}
      BY DEF BodyPc, DcrcPc
    <2> QED
      BY <1>3, <2>1, <2>2, LoadFrame, LoadIInv
  <1> QED
    BY <1>1, <1>2, <1>3 DEF ReadHeader

LEMMA ReadBodyIInv == ASSUME IInv, NEW name \in {"uboot", "fip"}, ReadBody(name) PROVE IInv'
  <1> DEFINE im == disk.img[SpotOf(name)]
             length == LoadLength(im)
  <1>1. pc = BodyPc(name) /\ pc' = DcrcPc(name) /\ HeaderIn(name)
    BY DEF ReadBody, IInv, LoadedInv
  <1>2. buf[name].src = SpotOf(name) /\ length \in Nat
    BY <1>1, SpotFacts DEF HeaderIn
  <1>3. /\ buf' = buf \/ \E u \in Nat : buf' = [buf EXCEPT ![name].upto = u]
        /\ Works => buf' = [buf EXCEPT ![name].upto = length]
        /\ Works \/ Fails
    <2>1. LoadLength(disk.img[buf[name].src]) = length
      BY <1>2
    <2>2. \A k \in 1..length : k * BlockSize \in Nat
      BY SizeAssumption
    <2>3. \/ Works /\ buf' = [buf EXCEPT ![name].upto = length]
          \/ Fails /\ (\/ buf' = [buf EXCEPT ![name].upto = length]
                       \/ buf' = buf
                       \/ \E k \in 1..length : buf' = [buf EXCEPT ![name].upto = k * BlockSize])
      BY <2>1 DEF ReadBody
    <2>4. ~(Works /\ Fails)
      BY LoadFrame DEF Works, Fails
    <2> HIDE DEF length
    <2> QED
      BY <1>2, <2>2, <2>3, <2>4
  <1>4. /\ buf'[name].src = buf[name].src /\ buf'[name].port = buf[name].port
        /\ \A n \in {"uboot", "fip"} : n # name => buf'[n] = buf[n]
        /\ buf' \in [{"uboot", "fip"} -> Buffer]
    BY <1>3, LoadFrame DEF Buffer
  <1>5. HeaderIn(name)'
    BY <1>1, <1>4, LoadFrame DEF HeaderIn
  <1>6. Complete(name)'
    <2> SUFFICES ASSUME faults' = 0 PROVE buf'[name].upto >= length
      BY LoadFrame DEF Complete
    <2>1. Works
      BY <1>3, LoadFrame DEF Fails
    <2>2. buf' = [buf EXCEPT ![name].upto = length]
      BY <1>3, <2>1
    <2>3. buf'[name].upto = length
      BY <2>2, LoadFrame DEF Buffer
    <2> QED
      BY <1>2, <2>3
  <1>7. DcrcPc(name) \notin {"uboot_hdr", "boot_uboot", "return"}
    BY DEF DcrcPc
  <1> QED
    BY <1>1, <1>4, <1>5, <1>6, <1>7, LoadFrame, LoadIInv

LEMMA CheckDataIInv == ASSUME IInv, NEW name \in {"uboot", "fip"}, CheckData(name) PROVE IInv'
  <1> DEFINE im == disk.img[SpotOf(name)]
  <1>1. pc = DcrcPc(name) /\ HeaderIn(name) /\ Complete(name) /\ buf' = buf /\ faults' = faults
    BY DEF CheckData, IInv, LoadedInv
  <1>2. /\ buf[name].src = SpotOf(name) /\ im.size \in Nat /\ Acceptable(im, name)
        /\ im \in Image
    BY <1>1, SpotFacts DEF HeaderIn
  <1>3. pc' = IF ~(im.size > 0 /\ image_check_dcrc(im, buf[name].upto)) THEN "return"
              ELSE IF name = "fip" THEN "uboot_hdr" ELSE "boot_uboot"
    BY <1>2 DEF CheckData
  <1> HIDE DEF im
  <1>4. ASSUME pc' # "return" PROVE Sound(name)'
    <2>1. im.size > 0 /\ im.body
      BY <1>3, <1>4 DEF image_check_dcrc
    <2>2. Sound(name)
      BY <1>1, <2>1 DEF Sound, im
    <2> QED
      BY <1>1, <2>2, LoadFrame, BufferKept
  <1>5. ASSUME pc' = "return", faults = 0 PROVE NoWhole(name)
    <2>1. ~(im.size > 0 /\ image_check_dcrc(im, buf[name].upto))
      BY <1>3, <1>5
    <2>2. buf[name].upto \in Nat
      BY LoadFrame DEF Buffer
    <2>3. buf[name].upto >= HdrSize + im.size
      BY <1>1, <1>2, <1>5, <2>2, SizeAssumption DEF Complete, LoadLength, HdrSize, im
    <2>4. ~(im.size > 0 /\ im.body)
      BY <2>1, <2>3 DEF image_check_dcrc
    <2> QED
      BY <1>5, <2>4, LoadFrame, RefusedIsNotWhole DEF im
  <1>6. /\ pc' \in {"uboot_hdr", "boot_uboot", "return"}
        /\ pc' = "uboot_hdr" => name = "fip"
        /\ pc' = "boot_uboot" => name = "uboot"
    BY <1>3
  <1>7. pc' \notin {BodyPc(name), DcrcPc(name)}
    BY <1>6 DEF BodyPc, DcrcPc
  <1> QED
    BY <1>1, <1>4, <1>5, <1>6, <1>7, LoadFrame, LoadIInv

THEOREM Invariance == Spec => []IInv
  <1>1. IInv /\ [Next]_vars => IInv'
    <2> SUFFICES ASSUME IInv, [Next]_vars PROVE IInv'
      OBVIOUS
    <2>1. CASE UNCHANGED vars
      <3>1. /\ setup' = setup /\ faults' = faults /\ pc' = pc /\ type' = type /\ port' = port
            /\ sector' = sector /\ clus' = clus /\ sect' = sect /\ ent' = ent
            /\ fileInfo' = fileInfo /\ count' = count /\ fip_spot' = fip_spot /\ buf' = buf
            /\ disk' = disk
        BY <2>1 DEF vars, search, found, disk
      <3>2. TypeOK' /\ SearchInv'
        BY <3>1 DEF IInv, TypeOK, SearchInv, Looking, Searching, Clusters, Dir
      <3>3. SeenInv'
        BY <3>1 DEF IInv, SeenInv, Looking, Searching, Known, Counted, One, Passed
      <3>4. DiskInv' /\ CauseInv'
        BY <3>1, SetupConstant DEF IInv, DiskInv, CauseInv, Chosen
      <3>5. ModeInv'
        BY <3>1, SetupConstant DEF IInv, ModeInv, Loading, Chosen
      <3>6. LoadedInv'
        BY <3>1 DEF IInv, LoadedInv, HeaderIn, Complete, Sound, SpotOf, uboot_spot
      <3> QED
        BY <3>2, <3>3, <3>4, <3>5, <3>6 DEF IInv
    <2>2. CASE Terminated
      BY <2>1, <2>2 DEF Terminated
    <2>3. CASE \E name \in {"uboot", "fip"} :
                  ReadHeader(name) \/ ReadBody(name) \/ CheckData(name)
      BY <2>3, ReadHeaderIInv, ReadBodyIInv, CheckDataIInv
    <2> QED
      BY <2>1, <2>2, <2>3, InitDeviceIInv, ReadMbrIInv, ReadDbrIInv, ReadDirSectorIInv,
         LookAtFileIInv, LookAtOtherIInv, NextSectorIInv, NextClusterIInv, SelectModeIInv,
         ReadFipTableIInv DEF Next
  <1> QED
    BY FatInit, <1>1, PTL DEF Spec

(* Every variable keeps its type; in particular the search never leaves the
   directory, also where a cluster number is read from the wrong bytes. *)
THEOREM TypeCorrect == Spec => []TypeOK
  BY Invariance, PTL DEF IInv

(* The images that are handed over are those that ISPBOOOT.BIN of the first
   usable disk asks for, when every operation succeeds. *)
THEOREM IspFileIsObeyed == Spec => []IspFileDecides
  <1>1. IInv => IspFileDecides
    <2> SUFFICES ASSUME IInv, pc = "boot_uboot", faults = 0 PROVE IspFileDecides
      BY DEF IspFileDecides
    <2>1. /\ setup \in Setups /\ port \in 1..Len(setup.disks) /\ disk = setup.disks[port]
          /\ Usable(disk) /\ \A p \in 1..port - 1 : ~Usable(setup.disks[p])
      BY DEF IInv, TypeOK, SearchInv, DiskInv, disk, Chosen
    <2>2. UsablePorts # {} /\ TheDisk = port
      BY <2>1, FirstIsTheDisk
    <2>3. Sound("uboot") /\ Sound("fip")
      BY DEF IInv, LoadedInv
    <2>4. \A n \in {"uboot", "fip"} : buf[n].port = port /\ buf[n].src = SpotOf(n)
      BY <2>3 DEF Sound, HeaderIn
    <2>5. \A n \in {"uboot", "fip"} : SpotOf(n) \notin {"none", "isp_xboot"}
      <3>1. \A n \in {"uboot", "fip"} : disk.img[SpotOf(n)].magic
        BY <2>3 DEF Sound, HeaderIn, Acceptable, image_check_magic
      <3>2. ~disk.img["none"].magic /\ ~disk.img["isp_xboot"].magic
        BY <2>1, SetupFacts DEF NotAnImage
      <3> QED
        BY <3>1, <3>2
    <2>6. /\ type = "SDCARD_BOOT" <=> FromFiles(disk)
          /\ fip_spot = IF type = "SDCARD_BOOT"
                        THEN IF fileInfo["FIP"].found THEN "FIP" ELSE "none"
                        ELSE IF disk.table = "with fip" THEN "isp_fip" ELSE "isp_xboot"
      BY DEF IInv, ModeInv, Loading, Chosen
    <2>7. /\ SpotOf("uboot") = IF FromFiles(disk) THEN "U-BOOT" ELSE "isp_uboot"
          /\ SpotOf("fip") = IF FromFiles(disk) THEN "FIP" ELSE "isp_fip"
      BY <2>5, <2>6 DEF SpotOf, uboot_spot
    <2>8. DOMAIN buf = {"uboot", "fip"}
      BY DEF IInv, TypeOK
    <2> QED
      BY <2>1, <2>2, <2>4, <2>7, <2>8 DEF IspFileDecides
  <1> QED
    BY <1>1, Invariance, PTL

(* Without failures a buffer handed to boot_uboot holds the signature, too. *)
THEOREM SignatureIsLoaded == Spec => []SignatureLoaded
  <1>1. IInv => SignatureLoaded
    <2> SUFFICES ASSUME IInv, pc = "boot_uboot", faults = 0 PROVE SignatureLoaded
      BY DEF SignatureLoaded
    <2>1. Sound("uboot") /\ Sound("fip") /\ DOMAIN buf = {"uboot", "fip"}
      BY DEF IInv, LoadedInv, TypeOK
    <2>2. \A n \in {"uboot", "fip"} : buf[n].upto >= LoadLength(disk.img[buf[n].src])
      BY <2>1 DEF Sound, HeaderIn, Complete
    <2> QED
      BY <2>1, <2>2 DEF SignatureLoaded, LoadLength
  <1> QED
    BY <1>1, Invariance, PTL

-----------------------------------------------------------------------------
(* Every step of do_fat_boot is a step of the promise, or none. *)

(* Of several numbers one is the smallest. *)
LEMMA Smallest ==
    ASSUME NEW T, T \subseteq Nat, T # {}
    PROVE  \E x \in T : \A y \in T : x <= y
  <1> DEFINE R == OpToRel(<, Nat)
  <1>1. IsWellFoundedOn(R, Nat)
    BY NatLessThanWellFounded
  <1>2. \A x, y \in Nat : y < x => <<y, x>> \in R
    BY DEF OpToRel
  <1> HIDE DEF R
  <1>3. PICK x \in T : \A y \in T : ~(<<y, x>> \in R)
    BY <1>1, WFMin
  <1>4. ASSUME NEW y \in T PROVE x <= y
    <2>1. x \in Nat /\ y \in Nat
      OBVIOUS
    <2>2. ~(y < x)
      BY <1>2, <1>3, <2>1, Zenon
    <2> QED
      BY <2>1, <2>2
  <1> QED
    BY <1>4

(* The places that must be tried are places that may be used. *)
LEMMA MustTryMay ==
    ASSUME setup \in Setups
    PROVE  /\ MustTry.uboot \subseteq (1..MaxPorts) \X {"U-BOOT", "isp_uboot"}
           /\ MustTry.fip \subseteq (1..MaxPorts) \X {"FIP", "isp_fip"}
  <1>1. CASE UsablePorts = {}
    BY <1>1 DEF MustTry
  <1>2. CASE UsablePorts # {}
    <2>1. /\ Len(setup.disks) \in 1..MaxPorts /\ MaxPorts \in Nat
          /\ UsablePorts \subseteq 1..Len(setup.disks)
      BY SetupFacts, SizeAssumption DEF UsablePorts
    <2>2. \E p \in UsablePorts : \A q \in UsablePorts : p <= q
      <3>1. UsablePorts \subseteq Nat
        BY <2>1
      <3> QED
        BY <1>2, <3>1, Smallest
    <2>3. TheDisk \in UsablePorts
      BY <2>2, Zenon DEF TheDisk
    <2>4. TheDisk \in 1..MaxPorts
      BY <2>1, <2>3
    <2> DEFINE t == TheDisk
               d == setup.disks[TheDisk]
    <2>5. MustTry = IF FromFiles(d)
                    THEN [uboot |-> IF Has(d, "U-BOOT") THEN {<<t, "U-BOOT">>} ELSE {},
                          fip |-> IF Has(d, "FIP") THEN {<<t, "FIP">>} ELSE {}]
                    ELSE [uboot |-> {<<t, "isp_uboot">>},
                          fip |-> IF d.table = "with fip" THEN {<<t, "isp_fip">>} ELSE {}]
      BY <1>2 DEF MustTry
    <2>6. /\ <<t, "U-BOOT">> \in (1..MaxPorts) \X {"U-BOOT", "isp_uboot"}
          /\ <<t, "isp_uboot">> \in (1..MaxPorts) \X {"U-BOOT", "isp_uboot"}
          /\ <<t, "FIP">> \in (1..MaxPorts) \X {"FIP", "isp_fip"}
          /\ <<t, "isp_fip">> \in (1..MaxPorts) \X {"FIP", "isp_fip"}
      BY <2>4
    <2> HIDE DEF t, d
    <2>7. /\ MustTry.uboot \subseteq {<<t, "U-BOOT">>, <<t, "isp_uboot">>}
          /\ MustTry.fip \subseteq {<<t, "FIP">>, <<t, "isp_fip">>}
      <3>1. CASE FromFiles(d)
        BY <2>5, <3>1
      <3>2. CASE ~FromFiles(d)
        BY <2>5, <3>2
      <3> QED
        BY <3>1, <3>2
    <2> QED
      BY <2>6, <2>7
  <1> QED
    BY <1>1, <1>2

LEMMA ContentIsImage == ASSUME setup \in Setups, NEW place \in Place PROVE Content(place) \in Image
  <1>1. place[1] \in 1..MaxPorts /\ place[2] \in Spot
    BY DEF Place
  <1>2. CASE place[1] > Len(setup.disks)
    BY <1>2 DEF Content, NotAnImage, Image, ImageName
  <1>3. CASE ~(place[1] > Len(setup.disks))
    <2>1. place[1] \in 1..Len(setup.disks)
      BY <1>1, <1>3, SetupFacts
    <2>2. setup.disks[place[1]].img[place[2]] \in Image
      BY <1>1, <2>1, SetupFacts DEF Disk
    <2> QED
      BY <1>3, <2>2 DEF Content, Image, ImageName, NameAt
  <1> QED
    BY <1>2, <1>3

(* the promise's notion of a whole image is that of the loader *)
LEMMA SameImages ==
    ASSUME NEW places, places \subseteq Place
    PROVE  /\ Promise!WholeUboots(places) =
                  {p \in places : Whole(Content(p), "uboot", UbootMax + 1)}
           /\ Promise!WholeFips(places) =
                  {p \in places : Whole(Content(p), "fip", FipMax + 1)}
  BY DEF Promise!WholeUboots, Promise!WholeFips, Promise!Whole, Promise!HeaderOk,
     Promise!HdrSize, Promise!image_check_magic, Promise!image_check_hcrc,
     Whole, HeaderOk, HdrSize, image_check_magic, image_check_hcrc

(* what the promise sees of a step before the end *)
LEMMA PromiseSees ==
    ASSUME IInv, IInv', Next, pc \notin {"return", "boot_uboot"}
    PROVE  /\ setup' = setup /\ setup \in Setups
           /\ faults \in Nat /\ faults' \in Nat
           /\ faults' = faults \/ (faults' > 0 /\ pc' # "boot_uboot")
  <1>1. setup' = setup /\ setup \in Setups
    BY DEF IInv, SearchInv, Next, InitDevice, ReadMbr, ReadDbr, ReadDirSector, LookAtFile,
           LookAtOther, NextSector, NextCluster, SelectMode, ReadFipTable, ReadHeader,
           ReadBody, CheckData, Terminated
  <1>2. faults \in Nat /\ faults' \in Nat
    BY SizeAssumption DEF IInv, TypeOK
  <1>3. faults' = faults \/ Fails
    BY DEF Next, InitDevice, ReadMbr, ReadDbr, ReadDirSector, LookAtFile,
           LookAtOther, NextSector, NextCluster, SelectMode, ReadFipTable, ReadHeader,
           ReadBody, CheckData, Terminated, Works
  <1>4. pc' = "boot_uboot" => faults' = faults
    <2> SUFFICES ASSUME pc' = "boot_uboot" PROVE faults' = faults
      OBVIOUS
    <2>1. ~\E name \in {"uboot", "fip"} : ReadHeader(name) \/ ReadBody(name)
      BY DEF ReadHeader, ReadBody, BodyPc, DcrcPc
    <2>2. ~(InitDevice \/ ReadMbr \/ ReadDbr \/ ReadDirSector \/ SelectMode \/ ReadFipTable)
      BY DEF InitDevice, ReadMbr, ReadDbr, ReadDirSector, SelectMode, ReadFipTable,
             CheckFatType, NoFiles
    <2>3. ~NextCluster
      BY DEF NextCluster, EndOfDirectory, NoFiles
    <2> QED
      BY <2>1, <2>2, <2>3 DEF Next, LookAtFile, LookAtOther, NextSector, CheckData, Terminated
  <1>5. Fails => faults' > 0
    BY <1>2 DEF Fails
  <1> QED
    BY <1>1, <1>2, <1>3, <1>4, <1>5

LEMMA PromiseStep == IInv /\ IInv' /\ Next => [Promise!Next]_(Promise!vars)
  <1> SUFFICES ASSUME IInv, IInv', Next
               PROVE  Promise!Next \/ UNCHANGED Promise!vars
    OBVIOUS
  <1> DEFINE Running == pc \notin {"return", "boot_uboot"}
             content == [place \in Place |-> Content(place)]
             Booted == [n \in {"uboot", "fip"} |->
                           IF pc = "boot_uboot" THEN {<<buf[n].port, buf[n].src>>} ELSE {}]
  <1>1. CASE ~Running
    <2>1. UNCHANGED vars
      BY <1>1 DEF Next, InitDevice, ReadMbr, ReadDbr, ReadDirSector, LookAtFile,
           LookAtOther, NextSector, NextCluster, SelectMode, ReadFipTable, ReadHeader,
           ReadBody, CheckData, Terminated, HdrPc, BodyPc, DcrcPc
    <2>2. setup' = setup /\ faults' = faults /\ pc' = pc /\ buf' = buf
      BY <2>1 DEF vars
    <2>3. MustTry' = MustTry /\ content' = content
      BY <2>2, SetupConstant
    <2> QED
      BY <2>2, <2>3 DEF Promise!vars
  <1>2. ASSUME Running PROVE MustTry' = MustTry /\ content' = content
    BY <1>2, PromiseSees, SetupConstant
  <1>3. pc # "boot_uboot" => Booted = [n \in {"uboot", "fip"} |-> {}]
    OBVIOUS
  <1>4. pc' # "boot_uboot" => Booted' = [n \in {"uboot", "fip"} |-> {}]
    OBVIOUS
  <1>5. CASE Running /\ pc' \notin {"return", "boot_uboot"}
    <2>1. MustTry' = MustTry /\ content' = content /\ Booted' = Booted
      BY <1>2, <1>3, <1>4, <1>5
    <2>2. CASE faults' = faults
      BY <1>5, <2>1, <2>2 DEF Promise!vars
    <2>3. CASE faults' > 0
      <3>1. (faults' > 0) = TRUE
        BY <2>3
      <3> QED
        BY <1>5, <2>1, <3>1 DEF Promise!Next, Promise!Fault
    <2> QED
      BY <1>5, <2>2, <2>3, PromiseSees
  <1>6. CASE Running /\ pc' = "return"
    <2>1. MustTry' = MustTry /\ content' = content /\ Booted' = Booted
      BY <1>2, <1>3, <1>4, <1>6
    <2>2. CASE faults' > 0
      <3>1. (faults' > 0) = TRUE
        BY <2>2
      <3> QED
        BY <1>6, <2>1, <3>1 DEF Promise!Next, Promise!Fault
    <2>3. CASE ~(faults' > 0)
      <3>1. faults' = 0 /\ faults = 0
        BY <1>6, <2>3, PromiseSees
      <3>2. NoWhole("uboot") \/ NoWhole("fip")
        BY <1>6, <3>1, PromiseSees, SetupConstant DEF IInv, CauseInv
      <3>3. MustTry.uboot \subseteq Place /\ MustTry.fip \subseteq Place
        BY <1>6, PromiseSees, MustTryMay DEF Place, Spot
      <3>4. Promise!WholeUboots(MustTry.uboot) = {} \/ Promise!WholeFips(MustTry.fip) = {}
        BY <3>2, <3>3, SameImages DEF NoWhole, Limit
      <3>5. (faults' > 0) = (faults > 0)
        BY <3>1
      <3> QED
        BY <1>6, <2>1, <3>4, <3>5 DEF Promise!Next, Promise!Refuse,
           Promise!WholeUboots, Promise!WholeFips
    <2> QED
      BY <2>2, <2>3
  <1>7. CASE Running /\ pc' = "boot_uboot"
    <2> DEFINE at(n) == <<buf'[n].port, buf'[n].src>>
    <2>1. setup' = setup /\ faults' = faults /\ setup \in Setups
      BY <1>7, PromiseSees
    <2>2. port' \in 1..Len(setup.disks) /\ Len(setup.disks) \in 1..MaxPorts /\ MaxPorts \in Nat
      BY <2>1, SetupFacts, SizeAssumption DEF IInv, TypeOK
    <2>3. ASSUME NEW n \in {"uboot", "fip"}
          PROVE  /\ at(n) \in (1..MaxPorts) \X Spot
                 /\ NameAt(buf'[n].src) = n
                 /\ Whole(Content(at(n)), n, Limit(n) + 1)
      <3>1. Sound(n)'
        BY <1>7, <2>3 DEF IInv, LoadedInv
      <3> DEFINE im == disk'.img[buf'[n].src]
      <3>2. /\ buf'[n].port = port' /\ buf'[n].src = SpotOf(n)'
            /\ Acceptable(im, n) /\ im.size > 0 /\ im.body
        BY <3>1 DEF Sound, HeaderIn
      <3>3. buf'[n].src \in Spot /\ port' \in 1..MaxPorts
        <4>1. buf' \in [{"uboot", "fip"} -> Buffer]
          BY DEF IInv, TypeOK
        <4>2. buf'[n].src \in Spot
          BY <2>3, <4>1 DEF Buffer
        <4>3. port' \in 1..MaxPorts
          BY <2>2
        <4> QED
          BY <4>2, <4>3
      <3>4. disk' = setup.disks[port']
        BY <2>1 DEF disk
      <3>5. im \in Image
        BY <2>1, <2>2, <3>3, <3>4, SetupFacts DEF Disk
      <3>6. ~disk'.img["none"].magic /\ ~disk'.img["isp_xboot"].magic
        BY <2>1, <2>2, <3>4, SetupFacts DEF NotAnImage
      <3>7. buf'[n].src \notin {"none", "isp_xboot"}
        BY <3>2, <3>6 DEF Acceptable, image_check_magic
      <3>8. NameAt(buf'[n].src) = n
        <4>1. CASE n = "fip"
          <5>1. buf'[n].src = fip_spot' /\ fip_spot' \in {"FIP", "isp_fip", "isp_xboot", "none"}
            BY <1>7, <3>2, <4>1 DEF SpotOf, IInv, ModeInv, Loading, Chosen
          <5> QED
            BY <3>7, <4>1, <5>1 DEF NameAt
        <4>2. CASE n = "uboot"
          <5>1. buf'[n].src \in {"U-BOOT", "isp_uboot", "none"}
            BY <3>2, <4>2 DEF SpotOf, uboot_spot
          <5> QED
            BY <3>7, <4>2, <5>1 DEF NameAt
        <4> QED
          BY <4>1, <4>2
      <3>9. Content(at(n)) = [im EXCEPT !.name = n]
        <4>1. ~(port' > Len(setup.disks))
          BY <2>2
        <4> QED
          BY <3>2, <3>4, <3>8, <4>1 DEF Content
      <3> HIDE DEF im
      <3>10. /\ Content(at(n)).magic = im.magic /\ Content(at(n)).hcrc = im.hcrc
             /\ Content(at(n)).size = im.size /\ Content(at(n)).body = im.body
             /\ Content(at(n)).name = n
        BY <3>5, <3>9 DEF Image
      <3>11. HeaderOk(Content(at(n)), n) /\ Content(at(n)).body
        BY <3>2, <3>10 DEF Acceptable, HeaderOk, image_check_magic, image_check_hcrc
      <3>12. Content(at(n)).size > 0 /\ HdrSize + Content(at(n)).size < Limit(n) + 1
        <4>1. im.size \in Nat /\ Limit(n) \in Nat
          BY <3>5, SizeAssumption DEF Image, Limit
        <4>2. HdrSize + im.size <= Limit(n) /\ im.size > 0
          BY <3>2 DEF Acceptable
        <4> QED
          BY <3>10, <4>1, <4>2 DEF HdrSize
      <3> QED
        BY <3>2, <3>3, <3>8, <3>11, <3>12 DEF Whole
    <2>4. /\ at("uboot") \in (1..MaxPorts) \X {"U-BOOT", "isp_uboot"}
          /\ at("fip") \in (1..MaxPorts) \X {"FIP", "isp_fip"}
      <3>1. /\ buf'["uboot"].src \in {"U-BOOT", "isp_uboot"}
            /\ buf'["fip"].src \in {"FIP", "isp_fip"}
        BY <2>3 DEF NameAt, Spot
      <3> QED
        BY <2>3, <3>1
    <2>5. /\ at("uboot") \in Promise!WholeUboots((1..MaxPorts) \X {"U-BOOT", "isp_uboot"})
          /\ at("fip") \in Promise!WholeFips((1..MaxPorts) \X {"FIP", "isp_fip"})
      <3>1. /\ (1..MaxPorts) \X {"U-BOOT", "isp_uboot"} \subseteq Place
            /\ (1..MaxPorts) \X {"FIP", "isp_fip"} \subseteq Place
        BY DEF Place, Spot
      <3>2. /\ Whole(Content(at("uboot")), "uboot", UbootMax + 1)
            /\ Whole(Content(at("fip")), "fip", FipMax + 1)
        BY <2>3 DEF Limit
      <3> QED
        BY <2>4, <3>1, <3>2, SameImages
    <2>6. Booted' = [uboot |-> {at("uboot")}, fip |-> {at("fip")}]
      BY <1>7
    <2>7. (faults' > 0) = (faults > 0)
      BY <2>1
    <2> HIDE DEF at
    <2> QED
      BY <1>2, <1>7, <2>5, <2>6, <2>7 DEF Promise!Next, Promise!HandOver
  <1> QED
    BY <1>1, <1>5, <1>6, <1>7

(* do_fat_boot implements the promise of a loader: it hands over two whole
   images, or refuses for a reason. *)
THEOREM ImplementsPromise == Spec => KeepsPromise
  <1>1. Init => Promise!Init
    <2> SUFFICES ASSUME Init PROVE Promise!Init
      OBVIOUS
    <2>1. setup \in Setups /\ pc = "init" /\ (faults > 0) = FALSE
      BY DEF Init
    <2>2. \A place \in Place : Content(place) \in Promise!Image
      BY <2>1, ContentIsImage DEF Image, Promise!Image, ImageName, Promise!ImageName
    <2>3. /\ (1..MaxPorts) \X {"U-BOOT", "isp_uboot"} \subseteq Place
          /\ (1..MaxPorts) \X {"FIP", "isp_fip"} \subseteq Place
      BY DEF Place, Spot
    <2>4. [place \in Place |-> Content(place)] \in [Place -> Promise!Image]
      BY <2>2
    <2>5. [uboot |-> (1..MaxPorts) \X {"U-BOOT", "isp_uboot"},
           fip |-> (1..MaxPorts) \X {"FIP", "isp_fip"}]
              \in [uboot : SUBSET Place, fip : SUBSET Place]
      BY <2>3
    <2>6. [n \in {"uboot", "fip"} |->
              IF pc = "boot_uboot" THEN {<<buf[n].port, buf[n].src>>} ELSE {}]
          = [uboot |-> {}, fip |-> {}]
      BY <2>1
    <2>7. /\ MustTry.uboot \subseteq (1..MaxPorts) \X {"U-BOOT", "isp_uboot"}
          /\ MustTry.fip \subseteq (1..MaxPorts) \X {"FIP", "isp_fip"}
      BY <2>1, MustTryMay
    <2> QED
      BY <2>1, <2>4, <2>5, <2>6, <2>7 DEF Promise!Init, Promise!Nothing
  <1>2. IInv /\ IInv' /\ [Next]_vars => [Promise!Next]_(Promise!vars)
    <2>1. UNCHANGED vars => UNCHANGED Promise!vars
      BY SetupConstant DEF vars, Promise!vars
    <2> QED
      BY <2>1, PromiseStep
  <1> QED
    BY <1>1, <1>2, Invariance, PTL DEF Spec, KeepsPromise, Promise!Spec

-----------------------------------------------------------------------------
(* Division, for sectors in clusters and bytes in sectors *)

LEMMA Division ==
    ASSUME NEW n \in Nat, NEW d \in Nat \ {0}
    PROVE  /\ n \div d \in Nat /\ n % d \in 0..d - 1
           /\ n % d = n - (n \div d) * d
OBVIOUS

LEMMA Multiples ==
    ASSUME NEW a \in Int, NEW b \in Int, NEW d \in Nat \ {0}, a < b
    PROVE  a * d + d <= b * d
<1>1. (b - a - 1) * d >= 0
  OBVIOUS
<1> QED
  BY <1>1

LEMMA FewerMultiples ==
    ASSUME NEW a \in Int, NEW b \in Int, NEW d \in Nat \ {0}, a * d < b * d
    PROVE  a < b
<1>1. CASE b <= a
  <2>1. (a - b) * d >= 0
    BY <1>1
  <2> QED
    BY <2>1
<1> QED
  BY <1>1

LEMMA DivisionIs ==
    ASSUME NEW q \in Nat, NEW d \in Nat \ {0}, NEW r \in 0..d - 1
    PROVE  (q * d + r) \div d = q /\ (q * d + r) % d = r
<1> DEFINE n == q * d + r
           p == n \div d
           s == n % d
<1>1. n \in Nat
  OBVIOUS
<1>2. p \in Nat /\ s \in 0..d - 1 /\ s = n - p * d
  BY <1>1, Division
<1>3. ~(p < q)
  <2> SUFFICES ASSUME p < q PROVE FALSE
    OBVIOUS
  <2> HIDE DEF p, s
  <2>1. p * d + d <= q * d
    BY <1>2, Multiples
  <2> QED
    BY <1>2, <2>1
<1>4. ~(q < p)
  <2> SUFFICES ASSUME q < p PROVE FALSE
    OBVIOUS
  <2> HIDE DEF p, s
  <2>1. q * d + d <= p * d
    BY <1>2, Multiples
  <2> QED
    BY <1>2, <2>1
<1>5. p = q
  <2> HIDE DEF p
  <2> QED
    BY <1>2, <1>3, <1>4
<1> HIDE DEF p, s, n
<1>6. s = r
  BY <1>2, <1>5 DEF n
<1> QED
  BY <1>5, <1>6 DEF p, s, n

(* the sector q of a cluster, and the byte b behind a sector's start *)
LEMMA SectorOfCluster ==
    ASSUME NEW m \in Nat, NEW spc \in Nat \ {0}, NEW q \in 0..spc - 1
    PROVE  (m * spc + q) \div spc = m /\ (m * spc + q) % spc = q
BY DivisionIs

LEMMA ByteOfSector ==
    ASSUME NEW n \in Nat, NEW d \in Nat \ {0}, NEW b \in Nat
    PROVE  /\ (n * d + b) \div d = n + b \div d
           /\ (n * d + b) % d = b % d
<1> DEFINE q == b \div d
           r == b % d
<1>1. q \in Nat /\ r \in 0..d - 1 /\ r = b - q * d
  BY Division
<1> HIDE DEF q, r
<1>2. n * d + b = (n + q) * d + r
  BY <1>1
<1>3. ((n + q) * d + r) \div d = n + q /\ ((n + q) * d + r) % d = r
  <2>1. n + q \in Nat
    BY <1>1
  <2> QED
    BY <1>1, <2>1, DivisionIs
<1> QED
  BY <1>2, <1>3 DEF q, r

-----------------------------------------------------------------------------
(* The invariant *)

Chain == req.vol.chain
Reader == [at : {"idle", "walk", "head", "part", "whole", "rest", "fill", "pass", "fail", "trained"},
           cluster : Nat, off : Nat, size : Nat, dest : Nat, i : Nat, got : {rd.got}]
ReadTypes == req \in Requests /\ rd \in Reader

(* The reader is in the m-th cluster of the chain, if there is one; it is at
   byte j of sector x of that cluster, or would be if the file went on. *)
InCluster(m) == m < Len(Chain) => rd.cluster = Chain[m + 1]
AtByte(x, j) == \E m \in Nat : InCluster(m) /\ (m * Spc + x) * BytePerSect + j = req.offset + rd.dest

(* The bytes that were stored are those of the file, as far as it goes. *)
InFile(k) == req.offset + k < FileSects * BytePerSect
GotBytes ==
    /\ DOMAIN rd.got = 0..rd.dest - 1
    /\ \A k \in 0..rd.dest - 1 : InFile(k) => rd.got[k] = FileByte(req.offset + k)

(* what is left *)
Left(n) == rd.dest + rd.size = req.length + n

Remain == req.offset % BytePerSect
PlaceInv ==
    /\ rd.at = "walk" => rd.dest = 0 /\ Left(0) /\ rd.i = 0 /\ AtByte(rd.off, Remain)
    /\ rd.at = "head" => /\ rd.dest = 0 /\ Left(0) /\ rd.i = 0 /\ AtByte(rd.off, Remain)
                         /\ Remain # 0 /\ req.length > 0 /\ rd.off < Spc
    /\ rd.at = "part" => Left(0) /\ rd.i = 0 /\ AtByte(rd.off, 0) /\ rd.off \in 1..Spc - 1
    /\ rd.at = "whole" => /\ Left(rd.i * BytePerSect) /\ AtByte(rd.i, 0)
                          /\ rd.size >= BytesPerClus /\ rd.i < Spc /\ rd.i % Transfers = 0
    /\ rd.at = "rest" => /\ Left(0) /\ AtByte(rd.i, 0)
                         /\ rd.i * BytePerSect + rd.size < BytesPerClus
BytesInv == rd.at \in {"walk", "head", "part", "whole", "rest"} => GotBytes
PassInv == rd.at = "pass" =>
    /\ DOMAIN rd.got = 0..req.length - 1
    /\ \A k \in 0..req.length - 1 : InFile(k) => rd.got[k] = FileByte(req.offset + k)

(* The sectors in the table are those of the file, as far as it goes. *)
GotSectors ==
    /\ DOMAIN rd.got = 0..rd.i - req.offset - 1
    /\ \A k \in 0..rd.i - req.offset - 1 :
          req.offset + k < FileSects => rd.got[k] = FileSect(req.offset + k)
FillInv ==
    /\ rd.at = "fill" => /\ GotSectors /\ rd.i < MaxTable + req.offset
                         /\ \E m \in Nat : InCluster(m) /\ rd.i = m * Spc
    /\ rd.at = "trained" => GotSectors /\ (rd.i >= FileSects \/ rd.i = MaxTable + req.offset)

ReadInv == ReadTypes /\ PlaceInv /\ BytesInv /\ PassInv /\ FillInv

-----------------------------------------------------------------------------
(* The volume *)

Spcs == {1, 2, 4, 8, 16, 32, 64, 128}
LEMMA VolumeFacts ==
    ASSUME req \in Requests
    PROVE  /\ req.offset \in Nat /\ req.length \in Nat /\ req.op \in {"none", "read", "train"}
           /\ req.vol.mark \in Nat /\ Spc \in Spcs /\ Spc \in Nat \ {0}
           /\ BytePerSect \in Nat \ {0} /\ MaxTable \in Nat \ {0}
           /\ Chain \in Seq(Nat) /\ Len(Chain) \in Nat \ {0} /\ DOMAIN Chain = 1..Len(Chain)
           /\ \A k, l \in 1..Len(Chain) : Chain[k] = Chain[l] => k = l
           /\ \A k \in 1..Len(Chain) : Chain[k] \in Nat /\ Chain[k] >= 2 /\ Chain[k] < TOP
           /\ BytesPerClus \in Nat /\ BytesPerClus = Spc * BytePerSect
           /\ Remain \in 0..BytePerSect - 1 /\ FileSects \in Nat /\ FileSects = Len(Chain) * Spc
<1>1. req.vol \in Volume32 /\ req.offset \in Nat /\ req.length \in Nat
      /\ req.op \in {"none", "read", "train"} /\ Len(Chain) > 0
  BY RequestAssumption DEF Chain
<1>2. Chain \in Seq(Nat) /\ Spc \in Spcs /\ req.vol.mark \in Nat
  BY <1>1 DEF Volume32, Chain, Spc, Spcs
<1>3. Len(Chain) \in Nat \ {0} /\ DOMAIN Chain = 1..Len(Chain)
  BY <1>1, <1>2
<1>4. BytePerSect \in Nat \ {0} /\ MaxTable \in Nat \ {0}
  BY RequestAssumption
<1>5. /\ \A k, l \in DOMAIN Chain : Chain[k] = Chain[l] => k = l
      /\ \A k \in DOMAIN Chain :
            Chain[k] \in 2..(IF req.vol.fatType = "FAT_32" THEN TOP ELSE END16) - 1
  BY ChainAssumption DEF Chain
<1>6. \A k \in 1..Len(Chain) : Chain[k] \in Nat /\ Chain[k] >= 2 /\ Chain[k] < TOP
  BY <1>3, <1>5, SMTT(30) DEF TOP, END16
<1>7. Spc \in Nat \ {0}
  BY <1>2 DEF Spcs
<1>8. BytesPerClus \in Nat /\ FileSects \in Nat
  BY <1>3, <1>4, <1>7 DEF BytesPerClus, FileSects, Chain
<1>9. Remain \in 0..BytePerSect - 1
  BY <1>1, <1>4, Division DEF Remain
<1> QED
  BY <1>1, <1>2, <1>3, <1>4, <1>5, <1>6, <1>7, <1>8, <1>9 DEF BytesPerClus, FileSects, Chain

(* next_cluster gives the next cluster of the file, if there is one. *)
LEMMA ClusterAfter ==
    ASSUME req \in Requests, rd.cluster \in Nat, NEW m \in Nat, InCluster(m),
           NEW c \in NextOf(rd.cluster)
    PROVE  /\ c \in Nat
           /\ m + 1 < Len(Chain) => c = Chain[m + 2] /\ c < TOP
<1>1. CASE \E k \in DOMAIN Chain : Chain[k] = rd.cluster
  <2> DEFINE k == CHOOSE n \in DOMAIN Chain : Chain[n] = rd.cluster
  <2>1. k \in 1..Len(Chain) /\ Chain[k] = rd.cluster
    BY <1>1, VolumeFacts
  <2>2. c = IF k = Len(Chain) THEN req.vol.mark ELSE Chain[k + 1]
    BY <1>1 DEF NextOf, Chain
  <2> HIDE DEF k
  <2>0. /\ Len(Chain) \in Nat /\ \A n \in 1..Len(Chain) : Chain[n] \in Nat /\ Chain[n] < TOP
        /\ req.vol.mark \in Nat
    BY VolumeFacts
  <2>3. c \in Nat
    <3>1. CASE k = Len(Chain)
      BY <2>0, <2>2, <3>1
    <3>2. CASE k # Len(Chain)
      <4>1. k + 1 \in 1..Len(Chain)
        BY <2>0, <2>1, <3>2
      <4> QED
        BY <2>0, <2>2, <3>2, <4>1
    <3> QED
      BY <3>1, <3>2
  <2>4. ASSUME m + 1 < Len(Chain) PROVE c = Chain[m + 2] /\ c < TOP
    <3>1. rd.cluster = Chain[m + 1] /\ m + 1 \in 1..Len(Chain)
      <4>1. Len(Chain) \in Nat
        BY VolumeFacts
      <4>2. m < Len(Chain) /\ m + 1 \in 1..Len(Chain)
        BY <2>4, <4>1
      <4> QED
        BY <4>2 DEF InCluster
    <3>2. k = m + 1
      BY <2>1, <3>1, VolumeFacts
    <3>3. k # Len(Chain) /\ k + 1 = m + 2 /\ m + 2 \in 1..Len(Chain)
      BY <2>0, <2>4, <3>2
    <3> QED
      BY <2>0, <2>2, <3>3
  <2> QED
    BY <2>3, <2>4
<1>2. CASE ~ \E k \in DOMAIN Chain : Chain[k] = rd.cluster
  <2>1. c \in {2, END}
    BY <1>2 DEF NextOf, Chain
  <2>2. ~(m < Len(Chain))
    <3>1. ASSUME m < Len(Chain) PROVE FALSE
      <4>1. rd.cluster = Chain[m + 1] /\ m + 1 \in 1..Len(Chain)
        BY <3>1, VolumeFacts DEF InCluster
      <4> QED
        BY <4>1, <1>2, VolumeFacts
    <3> QED
      BY <3>1
  <2> QED
    <3>1. {2, END} \subseteq Nat
      BY SMTT(30) DEF END
    <3>2. ~(m + 1 < Len(Chain))
      <4>1. Len(Chain) \in Nat
        BY VolumeFacts
      <4> QED
        BY <2>2, <4>1
    <3> QED
      BY <2>1, <3>1, <3>2
<1> QED
  BY <1>1, <1>2

LEMMA ClusterEnds ==
    ASSUME req \in Requests, NEW off \in 0..Spc
    PROVE  OnCluster(off) <=> off \in {0, Spc}
<1>1. Spc \in Nat \ {0}
  BY VolumeFacts
<1>2. CASE off < Spc
  <2>1. (0 * Spc + off) % Spc = off
    BY <1>1, <1>2, DivisionIs
  <2>2. 0 * Spc + off = off
    BY <1>1
  <2> QED
    BY <1>1, <1>2, <2>1, <2>2 DEF OnCluster
<1>3. CASE off = Spc
  <2>1. (1 * Spc + 0) % Spc = 0
    BY <1>1, DivisionIs
  <2>2. 1 * Spc + 0 = Spc
    BY <1>1
  <2> QED
    BY <1>1, <1>3, <2>1, <2>2 DEF OnCluster
<1> QED
  BY <1>1, <1>2, <1>3

-----------------------------------------------------------------------------
(* What is stored *)

LEMMA Associates ==
    ASSUME NEW a \in Int, NEW x \in Int, NEW q \in Int
    PROVE  a + (x + q) = (a + x) + q
OBVIOUS

(* n bytes from byte j of sector x of the cluster on, all in this cluster *)
LEMMA StoresTheFile ==
    ASSUME ReadTypes, GotBytes, NEW x \in Nat, NEW j \in 0..BytePerSect - 1, AtByte(x, j),
           NEW n \in Nat, j + n <= (Spc - x) * BytePerSect, x < Spc
    PROVE  LET got == Stored(SectorOf(rd.cluster, x), j, n)
           IN  /\ DOMAIN got = 0..rd.dest + n - 1
               /\ \A k \in 0..rd.dest + n - 1 :
                     InFile(k) => got[k] = FileByte(req.offset + k)
<1> DEFINE got == Stored(SectorOf(rd.cluster, x), j, n)
<1>0. /\ req \in Requests /\ rd.dest \in Nat /\ rd.cluster \in Nat
      /\ BytePerSect \in Nat \ {0} /\ Spc \in Nat \ {0} /\ req.offset \in Nat
      /\ Len(Chain) \in Nat /\ FileSects = Len(Chain) * Spc
  BY VolumeFacts DEF ReadTypes, Reader
<1>1. DOMAIN got = 0..rd.dest + n - 1
  BY DEF Stored
<1>2. ASSUME NEW k \in 0..rd.dest + n - 1, InFile(k)
      PROVE  got[k] = FileByte(req.offset + k)
  <2>1. CASE k < rd.dest
    <3>1. got[k] = rd.got[k]
      BY <2>1 DEF Stored
    <3>2. k \in 0..rd.dest - 1
      BY <1>0, <2>1
    <3> QED
      BY <1>2, <3>1, <3>2 DEF GotBytes
  <2>2. CASE ~(k < rd.dest)
    <3> DEFINE b == j + k - rd.dest
               q == b \div BytePerSect
    <3>1. got[k] = <<SectorOf(rd.cluster, x) + b \div BytePerSect, b % BytePerSect>>
      BY <2>2 DEF Stored
    <3>2. b \in Nat /\ b < (Spc - x) * BytePerSect
      <4>1. rd.dest \in Nat /\ (Spc - x) * BytePerSect \in Int /\ BytePerSect \in Nat
        BY <1>0
      <4>2. j \in Nat /\ k \in Nat /\ k <= rd.dest + n - 1 /\ k >= rd.dest
        BY <2>2, <4>1
      <4> QED
        BY <4>1, <4>2, SMTT(30)
    <3>3. PICK m \in Nat : InCluster(m) /\ (m * Spc + x) * BytePerSect + j = req.offset + rd.dest
      BY DEF AtByte
    <3>4. req.offset + k = (m * Spc + x) * BytePerSect + b
      <4> DEFINE p == (m * Spc + x) * BytePerSect
      <4>1. p \in Int
        BY <1>0
      <4>2. p + j = req.offset + rd.dest
        BY <3>3
      <4>3. j \in Int /\ req.offset \in Int /\ rd.dest \in Int /\ k \in Int
        BY <1>0
      <4> HIDE DEF p
      <4>4. req.offset + k = p + (j + k - rd.dest)
        BY <4>1, <4>2, <4>3
      <4> QED
        BY <4>4 DEF p
    <3>5. q \in Nat /\ b % BytePerSect = b - q * BytePerSect /\ b % BytePerSect \in 0..BytePerSect - 1
      BY <1>0, <3>2, Division
    <3> HIDE DEF b, q
    <3>6. m * Spc + x \in Nat
      BY <1>0, SMTT(30)
    <3>7. /\ (req.offset + k) \div BytePerSect = m * Spc + x + q
          /\ (req.offset + k) % BytePerSect = b % BytePerSect
      <4>1. /\ ((m * Spc + x) * BytePerSect + b) \div BytePerSect = m * Spc + x + q
            /\ ((m * Spc + x) * BytePerSect + b) % BytePerSect = b % BytePerSect
        BY <1>0, <3>2, <3>6, ByteOfSector DEF q
      <4> QED
        BY <3>4, <4>1
    <3>8. q < Spc - x
      <4>1. q * BytePerSect < (Spc - x) * BytePerSect
        <5>1. q * BytePerSect \in Int /\ (Spc - x) * BytePerSect \in Int
          BY <1>0, <3>5
        <5>2. q * BytePerSect <= b
          BY <1>0, <3>2, <3>5, <5>1
        <5> QED
          BY <3>2, <5>1, <5>2
      <4>2. Spc - x \in Int /\ q \in Int
        BY <1>0, <3>5
      <4> QED
        BY <1>0, <4>1, <4>2, FewerMultiples
    <3>9. x + q \in 0..Spc - 1
      BY <1>0, <3>5, <3>8
    <3>10. m < Len(Chain)
      <4>1. (m * Spc + x) * BytePerSect + b < Len(Chain) * Spc * BytePerSect
        BY <1>0, <1>2, <3>4 DEF InFile
      <4>2. (m * Spc) * BytePerSect <= (m * Spc + x) * BytePerSect + b
        BY <1>0, <3>2, SMTT(30)
      <4>3. (m * Spc) * BytePerSect < (Len(Chain) * Spc) * BytePerSect
        BY <1>0, <3>2, <4>1, <4>2
      <4>4. m * Spc < Len(Chain) * Spc
        <5>1. m * Spc \in Int /\ Len(Chain) * Spc \in Int
          BY <1>0
        <5> QED
          BY <1>0, <4>3, <5>1, FewerMultiples
      <4> QED
        BY <1>0, <4>4, FewerMultiples
    <3>11. (m * Spc + x + q) \div Spc = m /\ (m * Spc + x + q) % Spc = x + q
      <4>1. m * Spc + x + q = m * Spc + (x + q)
        BY <1>0, <3>5
      <4>2. (m * Spc + (x + q)) \div Spc = m /\ (m * Spc + (x + q)) % Spc = x + q
        BY <1>0, <3>9, SectorOfCluster
      <4> QED
        BY <4>1, <4>2
    <3>12. FileSect(m * Spc + x + q) = SectorOf(rd.cluster, x + q)
      BY <3>3, <3>10, <3>11 DEF FileSect, InCluster, Chain
    <3>13. SectorOf(rd.cluster, x + q) = SectorOf(rd.cluster, x) + q
      <4>1. (rd.cluster - 2) * Spc \in Int
        BY <1>0
      <4> QED
        <5>1. x \in Int /\ q \in Int
          BY <3>5
        <5> QED
          BY <4>1, <5>1, Associates, Zenon DEF SectorOf
    <3> QED
      BY <3>1, <3>7, <3>12, <3>13 DEF FileByte, q
  <2> QED
    BY <2>1, <2>2
<1> QED
  BY <1>1, <1>2

-----------------------------------------------------------------------------
(* Each step preserves the invariant. *)

LEMMA VolumeStays ==
    ASSUME req' = req
    PROVE  /\ Spc' = Spc /\ Chain' = Chain /\ BytesPerClus' = BytesPerClus /\ Remain' = Remain
           /\ FileSects' = FileSects /\ Transfers' = Transfers
           /\ \A k : InFile(k)' = InFile(k) /\ FileByte(k)' = FileByte(k) /\ FileSect(k)' = FileSect(k)
BY DEF Spc, Chain, BytesPerClus, Remain, FileSects, Transfers, InFile, FileByte, FileSect, SectorOf

LEMMA Fields ==
    ASSUME ReadTypes
    PROVE  /\ req \in Requests /\ rd.cluster \in Nat /\ rd.off \in Nat /\ rd.size \in Nat
           /\ rd.dest \in Nat /\ rd.i \in Nat
BY DEF ReadTypes, Reader

(* Behind the first sector: the reader is where Part says. *)
LEMMA GoesOn ==
    ASSUME req' = req, ReadTypes', GotBytes', Left(0)', rd'.i = 0, NEW off \in 0..Spc,
           rd'.at = Part(off, rd'.size),
           off \in {0, Spc} => AtByte(0, 0)',
           off \in 1..Spc - 1 => rd'.off = off /\ AtByte(off, 0)'
    PROVE  ReadInv'
<1>0. /\ req \in Requests /\ rd'.size \in Nat /\ Spc \in Nat \ {0} /\ BytesPerClus \in Nat
      /\ BytePerSect \in Nat \ {0} /\ Transfers \in {1, 2, 8}
  BY VolumeFacts DEF ReadTypes, Reader, Transfers
<1>1. OnCluster(off) <=> off \in {0, Spc}
  BY <1>0, ClusterEnds
<1>2. CASE ~OnCluster(off)
  <2>1. rd'.at = "part" /\ off \in 1..Spc - 1
    BY <1>0, <1>1, <1>2 DEF Part
  <2>2. rd'.off = off /\ AtByte(rd.off, 0)'
    BY <2>1 DEF AtByte
  <2>3. PlaceInv'
    BY <2>1, <2>2, VolumeStays DEF PlaceInv
  <2> QED
    BY <2>1, <2>3 DEF ReadInv, BytesInv, PassInv, FillInv
<1>3. CASE OnCluster(off)
  <2>1. AtByte(rd.i, 0)'
    BY <1>1, <1>3 DEF AtByte
  <2>2. 0 * BytePerSect = 0 /\ 0 % Transfers = 0
    BY <1>0
  <2>3. CASE rd'.size >= BytesPerClus
    <3>1. rd'.at = "whole"
      BY <1>3, <2>3 DEF Part
    <3>2. Left(rd.i * BytePerSect)'
      BY <2>2 DEF Left
    <3>3. rd'.i % Transfers' = 0 /\ rd'.size >= BytesPerClus' /\ rd'.i < Spc'
      BY <1>0, <2>2, <2>3, VolumeStays
    <3>4. PlaceInv'
      BY <2>1, <3>1, <3>2, <3>3 DEF PlaceInv
    <3> QED
      BY <3>1, <3>4 DEF ReadInv, BytesInv, PassInv, FillInv
  <2>4. CASE ~(rd'.size >= BytesPerClus)
    <3>1. rd'.at = "rest"
      BY <1>3, <2>4 DEF Part
    <3>2. rd'.i * BytePerSect + rd'.size < BytesPerClus'
      BY <1>0, <2>2, <2>4, VolumeStays
    <3>3. PlaceInv'
      BY <2>1, <3>1, <3>2 DEF PlaceInv
    <3> QED
      BY <3>1, <3>3 DEF ReadInv, BytesInv, PassInv, FillInv
  <2> QED
    BY <2>3, <2>4
<1> QED
  BY <1>2, <1>3

(* What is stored stays when nothing is stored. *)
LEMMA NothingStored ==
    ASSUME req' = req, GotBytes, rd'.dest = rd.dest, rd'.got = rd.got
    PROVE  GotBytes'
BY VolumeStays DEF GotBytes

LEMMA MoreStored ==
    ASSUME req' = req, NEW d, DOMAIN rd'.got = 0..d - 1, rd'.dest = d,
           \A k \in 0..d - 1 : InFile(k) => rd'.got[k] = FileByte(req.offset + k)
    PROVE  GotBytes'
BY VolumeStays DEF GotBytes

(* A read that ends has stored what was asked for. *)
LEMMA Passes ==
    ASSUME req' = req, ReadTypes', rd'.at = "pass",
           DOMAIN rd'.got = 0..req.length - 1,
           \A k \in 0..req.length - 1 : InFile(k) => rd'.got[k] = FileByte(req.offset + k)
    PROVE  ReadInv'
BY VolumeStays DEF ReadInv, PlaceInv, BytesInv, PassInv, FillInv

LEMMA WalkStep ==
    ASSUME ReadInv, Walk, req' = req
    PROVE  ReadInv'
<1>0. /\ ReadTypes /\ GotBytes /\ rd.dest = 0 /\ Left(0) /\ rd.i = 0 /\ AtByte(rd.off, Remain)
      /\ req \in Requests /\ rd.cluster \in Nat /\ rd.off \in Nat
      /\ Spc \in Nat \ {0} /\ BytePerSect \in Nat \ {0} /\ req.length \in Nat
  BY Fields, VolumeFacts DEF Walk, ReadInv, PlaceInv, BytesInv
<1>1. CASE rd' = [rd EXCEPT !.at = "fail"]
  <2>1. ReadTypes' /\ rd'.at = "fail"
    BY <1>0, <1>1 DEF ReadTypes, Reader
  <2> QED
    BY <2>1 DEF ReadInv, PlaceInv, BytesInv, PassInv, FillInv
<1>2. ASSUME rd.off >= Spc, NEW c \in NextOf(rd.cluster),
             rd' = [rd EXCEPT !.cluster = c, !.off = @ - Spc]
      PROVE  ReadInv'
  <2>1. PICK m \in Nat : InCluster(m) /\ (m * Spc + rd.off) * BytePerSect + Remain = req.offset + rd.dest
    BY <1>0 DEF AtByte
  <2>2. c \in Nat /\ (m + 1 < Len(Chain) => c = Chain[m + 2])
    BY <1>0, <1>2, <2>1, ClusterAfter
  <2>3. /\ ReadTypes' /\ rd'.at = "walk" /\ rd'.cluster = c /\ rd'.off = rd.off - Spc
        /\ UNCHANGED <<rd.dest, rd.got, rd.i, rd.size>>
    <3>1. rd.off - Spc \in Nat /\ rd.at = "walk" /\ c \in Nat
      <4>1. rd.off \in Nat /\ Spc \in Nat /\ rd.off >= Spc
        BY <1>0, <1>2
      <4>2. rd.off - Spc \in Nat
        BY <4>1
      <4> QED
        BY <2>2, <4>2 DEF Walk
    <3>2. /\ rd'.at = "walk" /\ rd'.cluster = c /\ rd'.off = rd.off - Spc
          /\ UNCHANGED <<rd.dest, rd.got, rd.i, rd.size>>
      BY <1>0, <1>2, <3>1 DEF ReadTypes, Reader
    <3>3. ReadTypes'
      <4> DEFINE o == rd.off - Spc
      <4>1. o \in Nat /\ rd' = [rd EXCEPT !.cluster = c, !.off = o]
        BY <1>2, <3>1
      <4> HIDE DEF o
      <4> QED
        BY <1>0, <3>1, <4>1 DEF ReadTypes, Reader
    <3> QED
      BY <3>2, <3>3
  <2>4. AtByte(rd.off, Remain)'
    <3>1. InCluster(m + 1)'
      BY <2>2, <2>3, VolumeStays DEF InCluster
    <3>2. (m + 1) * Spc + rd'.off = m * Spc + rd.off
      BY <1>0, <2>3
    <3>3. m + 1 \in Nat
      OBVIOUS
    <3> QED
      BY <2>1, <2>3, <3>1, <3>2, <3>3, VolumeStays DEF AtByte
  <2>5. Left(0)' /\ GotBytes'
    BY <1>0, <2>3, NothingStored DEF Left
  <2>6. PlaceInv'
    BY <1>0, <2>3, <2>4, <2>5 DEF PlaceInv
  <2> QED
    BY <2>3, <2>5, <2>6 DEF ReadInv, BytesInv, PassInv, FillInv
<1>3. ASSUME req.length # 0, ~(rd.off >= Spc),
             rd' = [rd EXCEPT !.at = IF Remain # 0 THEN "head" ELSE Part(rd.off, rd.size)]
      PROVE  ReadInv'
  <2>1. /\ UNCHANGED <<rd.cluster, rd.off, rd.dest, rd.got, rd.i, rd.size>>
        /\ rd'.at = IF Remain # 0 THEN "head" ELSE Part(rd.off, rd.size)
    BY <1>0, <1>3 DEF ReadTypes, Reader
  <2>2. ReadTypes'
    BY <1>0, <1>3 DEF ReadTypes, Reader, Part
  <2>3. Left(0)' /\ GotBytes' /\ AtByte(rd.off, Remain)'
    BY <1>0, <2>1, NothingStored, VolumeStays DEF Left, AtByte, InCluster
  <2>4. CASE Remain # 0
    <3>1. rd'.at = "head"
      BY <2>1, <2>4
    <3>2. PlaceInv'
      BY <1>0, <1>3, <2>1, <2>3, <2>4, <3>1, VolumeStays DEF PlaceInv
    <3> QED
      BY <2>2, <2>3, <3>1, <3>2 DEF ReadInv, BytesInv, PassInv, FillInv
  <2>5. CASE Remain = 0
    <3>1. rd'.at = Part(rd.off, rd'.size) /\ rd.off \in 0..Spc - 1
      BY <1>0, <1>3, <2>1, <2>5
    <3>2. AtByte(rd.off, 0)'
      BY <2>3, <2>5, VolumeStays DEF AtByte
    <3>3. rd.off = 0 => AtByte(0, 0)'
      BY <2>1, <3>2 DEF AtByte
    <3>4. rd.off \in 0..Spc /\ rd'.i = 0 /\ rd.off # Spc
      BY <1>0, <2>1, <3>1
    <3>5. rd'.off = rd.off /\ (rd.off \in 1..Spc - 1 => AtByte(rd.off, 0)')
      BY <2>1, <3>2 DEF AtByte
    <3> QED
      BY <2>2, <2>3, <3>1, <3>3, <3>4, <3>5, GoesOn
  <2> QED
    BY <2>4, <2>5
<1> QED
  BY <1>1, <1>2, <1>3 DEF Walk, Remain

(* Behind the last sector of a cluster the reader is in the next cluster. *)
LEMMA SectorAfter ==
    ASSUME req \in Requests, rd.cluster \in Nat, rd.dest \in Nat, req' = req,
           NEW off \in 0..Spc - 1, NEW j \in Nat, AtByte(off, j),
           NEW c \in IF OnCluster(off + 1) THEN NextOf(rd.cluster) ELSE {rd.cluster},
           rd'.cluster = c, rd'.dest = rd.dest + BytePerSect - j
    PROVE  /\ c \in Nat
           /\ off + 1 \in 1..Spc /\ (OnCluster(off + 1) <=> off + 1 = Spc)
           /\ off + 1 = Spc => AtByte(0, 0)'
           /\ off + 1 # Spc => AtByte(off + 1, 0)'
<1>0. /\ Spc \in Nat \ {0} /\ BytePerSect \in Nat \ {0} /\ req.offset \in Nat
      /\ off + 1 \in 1..Spc /\ off + 1 \in 0..Spc /\ off + 1 # 0
  <2>1. Spc \in Nat \ {0} /\ BytePerSect \in Nat \ {0} /\ req.offset \in Nat
    BY VolumeFacts
  <2> QED
    BY <2>1
<1>1. OnCluster(off + 1) <=> off + 1 = Spc
  BY <1>0, ClusterEnds
<1>2. PICK m \in Nat : InCluster(m) /\ (m * Spc + off) * BytePerSect + j = req.offset + rd.dest
  BY DEF AtByte
<1>3. (m * Spc + (off + 1)) * BytePerSect + 0 = req.offset + rd'.dest
  <2> DEFINE p == (m * Spc + off) * BytePerSect
  <2>1. p \in Int /\ p + j = req.offset + rd.dest
    BY <1>0, <1>2
  <2>2. (m * Spc + (off + 1)) * BytePerSect + 0 = p + BytePerSect
    BY <1>0
  <2> HIDE DEF p
  <2> QED
    BY <1>0, <2>1, <2>2
<1>4. CASE off + 1 = Spc
  <2>1. c \in Nat /\ (m + 1 < Len(Chain) => c = Chain[m + 2])
    BY <1>1, <1>2, <1>4, ClusterAfter
  <2>2. InCluster(m + 1)'
    BY <2>1, VolumeStays DEF InCluster
  <2>3. (m + 1) * Spc + 0 = m * Spc + (off + 1) /\ m + 1 \in Nat
    BY <1>0, <1>4
  <2>4. AtByte(0, 0)'
    BY <1>3, <2>2, <2>3, VolumeStays DEF AtByte
  <2> QED
    BY <1>0, <1>1, <1>4, <2>1, <2>4
<1>5. CASE off + 1 # Spc
  <2>1. c = rd.cluster
    BY <1>1, <1>5
  <2>2. InCluster(m)'
    BY <1>2, <2>1, VolumeStays DEF InCluster
  <2>3. AtByte(off + 1, 0)'
    BY <1>2, <1>3, <2>2, VolumeStays DEF AtByte
  <2> QED
    BY <1>0, <1>1, <1>5, <2>1, <2>3
<1> QED
  BY <1>4, <1>5

LEMMA RoomLeft ==
    ASSUME NEW spc \in Nat, NEW x \in Nat, NEW d \in Nat \ {0}, x < spc
    PROVE  d <= (spc - x) * d /\ (spc - x) * d = spc * d - x * d
<1>1. 0 * d + d <= (spc - x) * d
  <2>1. spc - x \in Int /\ 0 < spc - x /\ 0 \in Int
    OBVIOUS
  <2> QED
    BY <2>1, Multiples
<1> QED
  BY <1>1

LEMMA HeadStep ==
    ASSUME ReadInv, HeadRead, req' = req
    PROVE  ReadInv'
<1> PICK x : x = rd.off
  OBVIOUS
<1> DEFINE short == Remain + req.length < BytePerSect
           n == IF short THEN req.length ELSE BytePerSect - Remain
           size == IF short THEN 0 ELSE rd.size - n
           off == x + 1
           got == Stored(SectorOf(rd.cluster, x), Remain, n)
           o == IF OnCluster(off) THEN 0 ELSE off
<1>0. /\ ReadTypes /\ GotBytes /\ rd.dest = 0 /\ rd.size = req.length /\ rd.i = 0
      /\ AtByte(rd.off, Remain) /\ Remain \in 0..BytePerSect - 1 /\ rd.off < Spc
      /\ req \in Requests /\ rd.cluster \in Nat /\ rd.off \in 0..Spc - 1 /\ rd.off \in Nat
      /\ x \in 0..Spc - 1 /\ x \in Nat /\ AtByte(x, Remain) /\ x = rd.off
      /\ Spc \in Nat \ {0} /\ BytePerSect \in Nat \ {0} /\ req.length \in Nat
  <2>1. /\ ReadTypes /\ GotBytes /\ rd.dest = 0 /\ Left(0) /\ rd.i = 0
        /\ AtByte(rd.off, Remain) /\ rd.off < Spc
    BY DEF HeadRead, ReadInv, PlaceInv, BytesInv
  <2>2. /\ req \in Requests /\ rd.cluster \in Nat /\ rd.off \in Nat /\ rd.size \in Nat
        /\ Spc \in Nat \ {0} /\ BytePerSect \in Nat \ {0} /\ req.length \in Nat
        /\ Remain \in 0..BytePerSect - 1
    BY <2>1, Fields, VolumeFacts
  <2> QED
    BY <2>1, <2>2 DEF Left
<1>1. PICK c \in IF OnCluster(off) THEN NextOf(rd.cluster) ELSE {rd.cluster} :
         rd' = [rd EXCEPT !.got = got, !.dest = @ + BytePerSect - Remain, !.size = size,
                          !.off = o, !.cluster = c,
                          !.at = IF size = 0 THEN "pass" ELSE Part(o, size)]
  BY DEF HeadRead, Remain
<1>2. /\ rd'.got = got /\ rd'.dest = rd.dest + BytePerSect - Remain /\ rd'.size = size
      /\ rd'.off = o /\ rd'.cluster = c /\ rd'.i = rd.i
      /\ rd'.at = IF size = 0 THEN "pass" ELSE Part(o, size)
  BY <1>0, <1>1 DEF ReadTypes, Reader
<1>3. /\ c \in Nat
      /\ off \in 1..Spc /\ (OnCluster(off) <=> off = Spc)
      /\ off = Spc => AtByte(0, 0)'
      /\ off # Spc => AtByte(off, 0)'
  <2>1. Remain \in Nat /\ rd.dest \in Nat
    BY <1>0
  <2>2. c \in IF OnCluster(x + 1) THEN NextOf(rd.cluster) ELSE {rd.cluster}
    BY <1>1
  <2>3. rd'.cluster = c /\ rd'.dest = rd.dest + BytePerSect - Remain
    BY <1>2
  <2> QED
    BY <1>0, <2>1, <2>2, <2>3, SectorAfter
<1>4. n \in Nat /\ Remain + n <= BytePerSect /\ size \in Nat
      /\ (short => size = 0) /\ (~short => n = BytePerSect - Remain /\ size = req.length - n)
  BY <1>0
<1>5. o \in Nat /\ o \in 0..Spc
  BY <1>0, <1>3
<1>6. ReadTypes'
  <2>1. rd.dest + BytePerSect - Remain \in Nat
    BY <1>0
  <2>2. rd'.at \in {"pass", "part", "whole", "rest"}
    BY <1>2 DEF Part
  <2>3. DOMAIN rd' = DOMAIN rd
    BY <1>1
  <2> HIDE DEF got, n, size, o, off
  <2> DEFINE d == rd.dest + BytePerSect - Remain
             a == IF size = 0 THEN "pass" ELSE Part(o, size)
  <2>4. rd' = [rd EXCEPT !.got = got, !.dest = d, !.size = size, !.off = o, !.cluster = c, !.at = a]
    BY <1>1
  <2>5. d \in Nat /\ a \in {"pass", "part", "whole", "rest"}
    BY <1>2, <2>1, <2>2
  <2> HIDE DEF d, a
  <2> QED
    BY <1>0, <1>3, <1>4, <1>5, <2>4, <2>5 DEF ReadTypes, Reader
<1>7. /\ DOMAIN got = 0..n - 1
      /\ \A k \in 0..n - 1 : InFile(k) => got[k] = FileByte(req.offset + k)
  <2>1. Remain + n <= (Spc - x) * BytePerSect
    <3>1. BytePerSect <= (Spc - x) * BytePerSect /\ (Spc - x) * BytePerSect \in Int
      BY <1>0, RoomLeft
    <3> HIDE DEF n
    <3> QED
      BY <1>0, <1>4, <3>1
  <2> HIDE DEF n
  <2>2. /\ DOMAIN got = 0..rd.dest + n - 1
        /\ \A k \in 0..rd.dest + n - 1 : InFile(k) => got[k] = FileByte(req.offset + k)
    <3>1. ReadTypes /\ GotBytes /\ x \in Nat /\ AtByte(x, Remain) /\ x < Spc
      BY <1>0
    <3>2. Remain \in 0..BytePerSect - 1 /\ n \in Nat
      BY <1>0, <1>4
    <3> QED
      BY <2>1, <3>1, <3>2, StoresTheFile
  <2>3. rd.dest + n - 1 = n - 1
    BY <1>0, <1>4
  <2> QED
    BY <2>2, <2>3
<1>8. CASE size = 0
  <2>1. n = req.length
    BY <1>0, <1>4, <1>8
  <2> HIDE DEF n, size, got
  <2> QED
    BY <1>2, <1>6, <1>7, <1>8, <2>1, Passes
<1>9. CASE size # 0
  <2>1. ~short /\ n = BytePerSect - Remain /\ size = req.length - n
    BY <1>4, <1>9
  <2> HIDE DEF n, size, got
  <2>2. rd'.dest = n /\ Left(0)'
    BY <1>0, <1>2, <1>4, <2>1 DEF Left
  <2>3. GotBytes'
    BY <1>2, <1>7, <2>2, VolumeStays DEF GotBytes
  <2>4. rd'.at = Part(o, rd'.size) /\ rd'.i = 0
    BY <1>0, <1>2, <1>9
  <2>5. PICK y : y = o
    OBVIOUS
  <2>6. y \in {0, Spc} => AtByte(0, 0)'
    BY <1>3, <2>5
  <2>7. ASSUME y \in 1..Spc - 1 PROVE rd'.off = y /\ AtByte(y, 0)'
    <3>1. off # Spc /\ y = off
      BY <1>0, <1>3, <2>5, <2>7
    <3> QED
      BY <1>2, <1>3, <2>5, <3>1
  <2>8. y \in 0..Spc /\ rd'.at = Part(y, rd'.size)
    BY <1>5, <2>4, <2>5
  <2> HIDE DEF o, off
  <2> QED
    BY <1>6, <2>2, <2>3, <2>4, <2>6, <2>7, <2>8, GoesOn
<1> QED
  BY <1>8, <1>9

LEMMA StoresSectors ==
    ASSUME ReadTypes, GotBytes, NEW x \in Nat, AtByte(x, 0),
           NEW n \in Nat, n <= (Spc - x) * BytePerSect, x < Spc
    PROVE  LET got == Stored(SectorOf(rd.cluster, x), 0, n)
           IN  /\ DOMAIN got = 0..rd.dest + n - 1
               /\ \A k \in 0..rd.dest + n - 1 :
                     InFile(k) => got[k] = FileByte(req.offset + k)
<1>1. BytePerSect \in Nat \ {0}
  BY VolumeFacts DEF ReadTypes
<1>2. PICK j \in 0..BytePerSect - 1 : j = 0
  BY <1>1
<1>3. AtByte(x, j) /\ j + n <= (Spc - x) * BytePerSect
  BY <1>2
<1> DEFINE got == Stored(SectorOf(rd.cluster, x), j, n)
<1>4. /\ DOMAIN got = 0..rd.dest + n - 1
      /\ \A k \in 0..rd.dest + n - 1 : InFile(k) => got[k] = FileByte(req.offset + k)
  BY <1>3, StoresTheFile
<1> QED
  BY <1>2, <1>4

LEMMA PartStep ==
    ASSUME ReadInv, PartRead, req' = req
    PROVE  ReadInv'
<1> PICK x : x = rd.off
  OBVIOUS
<1> DEFINE s == SectorOf(rd.cluster, x)
<1>0. /\ ReadTypes /\ GotBytes /\ rd.dest + rd.size = req.length /\ rd.i = 0
      /\ x \in 1..Spc - 1 /\ x \in 0..Spc - 1 /\ x \in Nat /\ x < Spc /\ AtByte(x, 0) /\ x = rd.off
      /\ req \in Requests /\ rd.cluster \in Nat /\ rd.size \in Nat /\ rd.dest \in Nat
      /\ Spc \in Nat \ {0} /\ BytePerSect \in Nat \ {0} /\ req.length \in Nat
  <2>1. /\ ReadTypes /\ GotBytes /\ Left(0) /\ rd.i = 0
        /\ AtByte(x, 0) /\ x \in 1..Spc - 1
    BY DEF PartRead, ReadInv, PlaceInv, BytesInv
  <2>2. /\ req \in Requests /\ rd.cluster \in Nat /\ rd.off \in Nat /\ rd.size \in Nat
        /\ rd.dest \in Nat
        /\ Spc \in Nat \ {0} /\ BytePerSect \in Nat \ {0} /\ req.length \in Nat
    BY <2>1, Fields, VolumeFacts
  <2> QED
    BY <2>1, <2>2 DEF Left
<1>1. 0 \in 0..BytePerSect - 1 /\ BytePerSect <= (Spc - x) * BytePerSect /\ (Spc - x) * BytePerSect \in Int
  BY <1>0, RoomLeft
<1>2. CASE rd.size < BytePerSect /\ rd' = [rd EXCEPT !.got = Stored(s, 0, rd.size), !.at = "pass"]
  <2>1. rd'.at = "pass" /\ rd'.got = Stored(s, 0, rd.size) /\ ReadTypes'
    BY <1>0, <1>2 DEF ReadTypes, Reader
  <2>2. rd.size <= (Spc - x) * BytePerSect
    BY <1>0, <1>1, <1>2
  <2> DEFINE got == Stored(SectorOf(rd.cluster, x), 0, rd.size)
  <2>3. /\ DOMAIN got = 0..rd.dest + rd.size - 1
        /\ \A k \in 0..rd.dest + rd.size - 1 : InFile(k) => got[k] = FileByte(req.offset + k)
    <3>1. ReadTypes /\ GotBytes /\ x \in Nat /\ AtByte(x, 0) /\ x < Spc /\ rd.size \in Nat
      BY <1>0, <1>1
    <3> QED
      BY <2>2, <3>1, StoresSectors
  <2> HIDE DEF got
  <2> QED
    <3>1. rd'.got = got /\ rd'.at = "pass"
      BY <2>1 DEF got
    <3>2. rd.dest + rd.size - 1 = req.length - 1
      BY <1>0
    <3>3. /\ DOMAIN rd'.got = 0..req.length - 1
          /\ \A k \in 0..req.length - 1 : InFile(k) => rd'.got[k] = FileByte(req.offset + k)
      BY <2>3, <3>1, <3>2, Zenon
    <3> QED
      BY <2>1, <3>3, Passes
<1>3. ASSUME ~(rd.size < BytePerSect),
             NEW c \in IF OnCluster(x + 1) THEN NextOf(rd.cluster) ELSE {rd.cluster},
             rd' = [rd EXCEPT !.got = Stored(s, 0, BytePerSect), !.dest = @ + BytePerSect,
                              !.size = @ - BytePerSect, !.off = @ + 1, !.cluster = c,
                              !.at = Part(x + 1, rd.size - BytePerSect)]
      PROVE  ReadInv'
  <2>1. /\ rd'.got = Stored(s, 0, BytePerSect) /\ rd'.dest = rd.dest + BytePerSect
        /\ rd'.size = rd.size - BytePerSect /\ rd'.off = x + 1 /\ rd'.cluster = c /\ rd'.i = 0
        /\ rd'.at = Part(x + 1, rd'.size)
    BY <1>0, <1>3 DEF ReadTypes, Reader
  <2>2. /\ c \in Nat
        /\ x + 1 \in 1..Spc /\ (OnCluster(x + 1) <=> x + 1 = Spc)
        /\ x + 1 = Spc => AtByte(0, 0)'
        /\ x + 1 # Spc => AtByte(x + 1, 0)'
    <3>1. rd'.dest = rd.dest + BytePerSect - 0 /\ 0 \in Nat
      BY <1>0, <2>1
    <3> QED
      BY <1>0, <1>3, <2>1, <3>1, SectorAfter
  <2>3. ReadTypes'
    <3> DEFINE d == rd.dest + BytePerSect
               n == rd.size - BytePerSect
               a == Part(x + 1, rd.size - BytePerSect)
               got == Stored(s, 0, BytePerSect)
    <3>1. rd' = [rd EXCEPT !.got = got, !.dest = d, !.size = n, !.off = x + 1, !.cluster = c, !.at = a]
      BY <1>0, <1>3
    <3>2. d \in Nat /\ n \in Nat /\ x + 1 \in Nat
      BY <1>0, <1>3
    <3>3. a \in {"part", "whole", "rest"}
      BY DEF Part
    <3> HIDE DEF d, n, a, got
    <3> QED
      BY <1>0, <2>2, <3>1, <3>2, <3>3 DEF ReadTypes, Reader
  <2>4. GotBytes'
    <3>1. BytePerSect <= (Spc - x) * BytePerSect
      BY <1>0, <1>1
    <3> DEFINE got == Stored(SectorOf(rd.cluster, x), 0, BytePerSect)
    <3>2. BytePerSect \in Nat
      BY <1>0
    <3>3. /\ DOMAIN got = 0..rd.dest + BytePerSect - 1
          /\ \A k \in 0..rd.dest + BytePerSect - 1 :
                InFile(k) => got[k] = FileByte(req.offset + k)
      <4>1. ReadTypes /\ GotBytes /\ x \in Nat /\ AtByte(x, 0) /\ x < Spc
        BY <1>0
      <4> QED
        BY <3>1, <3>2, <4>1, StoresSectors
    <3> HIDE DEF got
    <3>4. rd'.got = got /\ rd'.dest = rd.dest + BytePerSect
      BY <2>1 DEF got
    <3>5. PICK d : d = rd.dest + BytePerSect
      OBVIOUS
    <3>6. /\ DOMAIN rd'.got = 0..d - 1 /\ rd'.dest = d
          /\ \A k \in 0..d - 1 : InFile(k) => rd'.got[k] = FileByte(req.offset + k)
      <4>1. rd.dest + BytePerSect - 1 = d - 1
        BY <1>0, <3>5
      <4> QED
        BY <3>3, <3>4, <3>5, <4>1, Zenon
    <3> QED
      BY <3>6, MoreStored
  <2>5. Left(0)'
    BY <1>0, <2>1 DEF Left
  <2>6. PICK y : y = x + 1
    OBVIOUS
  <2>7. y \in 0..Spc /\ rd'.at = Part(y, rd'.size)
    BY <1>0, <2>1, <2>2, <2>6
  <2>8. y \in {0, Spc} => AtByte(0, 0)'
    BY <1>0, <2>2, <2>6
  <2>9. y \in 1..Spc - 1 => rd'.off = y /\ AtByte(y, 0)'
    BY <1>0, <2>1, <2>2, <2>6
  <2> QED
    BY <2>1, <2>3, <2>4, <2>5, <2>7, <2>8, <2>9, GoesOn
<1> QED
  BY <1>0, <1>2, <1>3 DEF PartRead

(* A cluster is a whole number of transfers. *)
LEMMA TransfersFit ==
    ASSUME req \in Requests, NEW i \in Nat, i < Spc, i % Transfers = 0
    PROVE  /\ Transfers \in Nat /\ i + Transfers \in Nat
           /\ i + Transfers <= Spc /\ (i + Transfers) % Transfers = 0
<1>1. Spc \in Nat
  BY VolumeFacts
<1>2. CASE Spc % 8 = 0
  <2>1. Transfers = 8
    BY <1>2 DEF Transfers
  <2>2. i % 8 = 0
    BY <2>1
  <2>3. i + 8 <= Spc /\ (i + 8) % 8 = 0
    BY <1>1, <1>2, <2>2
  <2> QED
    BY <2>1, <2>3
<1>3. CASE Spc % 8 # 0 /\ req.vol.sd /\ Spc % 2 = 0
  <2>1. Transfers = 2
    BY <1>3 DEF Transfers
  <2>2. i % 2 = 0
    BY <2>1
  <2>3. i + 2 <= Spc /\ (i + 2) % 2 = 0
    BY <1>1, <1>3, <2>2
  <2> QED
    BY <2>1, <2>3
<1>4. CASE ~(Spc % 8 = 0) /\ ~(req.vol.sd /\ Spc % 8 # 0 /\ Spc % 2 = 0)
  <2>1. Transfers = 1
    BY <1>4 DEF Transfers
  <2>2. i + 1 <= Spc /\ (i + 1) % 1 = 0
    BY <1>1
  <2> QED
    BY <2>1, <2>2
<1> QED
  BY <1>2, <1>3, <1>4

LEMMA Products ==
    ASSUME NEW a \in Nat, NEW b \in Nat, NEW d \in Nat, a <= b
    PROVE  a * d \in Nat /\ b * d \in Nat /\ a * d <= b * d
<1>1. (b - a) * d >= 0 /\ a * d \in Nat /\ b * d \in Nat
  OBVIOUS
<1> QED
  BY <1>1

(* What a transfer writes *)
LEMMA WholeGoesOn ==
    ASSUME ReadTypes, req' = req, NEW g, NEW d \in Nat, NEW j \in Nat, rd.at = "whole",
           rd' = [rd EXCEPT !.got = g, !.dest = d, !.i = j]
    PROVE  /\ ReadTypes' /\ rd'.got = g /\ rd'.dest = d /\ rd'.i = j /\ rd'.at = "whole"
           /\ rd'.size = rd.size /\ rd'.cluster = rd.cluster
<1>1. /\ rd'.got = g /\ rd'.dest = d /\ rd'.i = j /\ rd'.at = "whole"
           /\ rd'.size = rd.size /\ rd'.cluster = rd.cluster
  BY DEF ReadTypes, Reader
<1>2. ReadTypes'
  BY DEF ReadTypes, Reader
<1> QED
  BY <1>1, <1>2, Zenon

LEMMA WholePasses ==
    ASSUME ReadTypes, req' = req, NEW g, NEW d \in Nat, 
           rd' = [rd EXCEPT !.got = g, !.dest = d, !.i = 0, !.size = 0, !.at = "pass"]
    PROVE  /\ ReadTypes' /\ rd'.got = g /\ rd'.dest = d /\ rd'.i = 0 /\ rd'.at = "pass"
<1>1. /\ rd'.got = g /\ rd'.dest = d /\ rd'.i = 0 /\ rd'.at = "pass"
  BY DEF ReadTypes, Reader
<1>2. ReadTypes'
  BY DEF ReadTypes, Reader
<1> QED
  BY <1>1, <1>2, Zenon

LEMMA WholeStep ==
    ASSUME ReadInv, WholeRead, req' = req
    PROVE  ReadInv'
<1> PICK x : x = rd.i
  OBVIOUS
<1> PICK n : n = Transfers * BytePerSect
  OBVIOUS
<1> PICK j : j = x + Transfers
  OBVIOUS
<1> PICK d : d = rd.dest + n
  OBVIOUS
<1> PICK left : left = rd.size - BytesPerClus
  OBVIOUS
<1> DEFINE got == Stored(SectorOf(rd.cluster, x), 0, n)
<1>0. /\ ReadTypes /\ GotBytes /\ rd.dest + rd.size = req.length + x * BytePerSect
      /\ rd.at = "whole" /\ x \in Nat /\ x < Spc /\ x % Transfers = 0 /\ AtByte(x, 0) /\ x = rd.i
      /\ rd.size >= BytesPerClus
      /\ req \in Requests /\ rd.cluster \in Nat /\ rd.size \in Nat /\ rd.dest \in Nat /\ rd.off \in Nat
      /\ Spc \in Nat \ {0} /\ BytePerSect \in Nat \ {0} /\ req.length \in Nat /\ req.offset \in Nat
      /\ BytesPerClus \in Nat /\ BytesPerClus = Spc * BytePerSect
  <2>0. rd.at = "whole"
    BY Zenon DEF WholeRead
  <2>1. /\ ReadTypes /\ GotBytes /\ Left(x * BytePerSect) /\ rd.at = "whole"
        /\ AtByte(x, 0) /\ x < Spc /\ x % Transfers = 0 /\ rd.size >= BytesPerClus
    BY <2>0 DEF ReadInv, PlaceInv, BytesInv
  <2>2. /\ req \in Requests /\ rd.cluster \in Nat /\ rd.off \in Nat /\ rd.size \in Nat
        /\ rd.dest \in Nat /\ rd.i \in Nat
        /\ Spc \in Nat \ {0} /\ BytePerSect \in Nat \ {0} /\ req.length \in Nat /\ req.offset \in Nat
        /\ BytesPerClus \in Nat /\ BytesPerClus = Spc * BytePerSect
    BY <2>1, Fields, VolumeFacts
  <2> QED
    BY <2>1, <2>2 DEF Left
<1>1. /\ Transfers \in Nat /\ j \in Nat /\ j <= Spc /\ j % Transfers = 0
  BY <1>0, TransfersFit
<1>2. /\ n \in Nat /\ n <= (Spc - x) * BytePerSect /\ d \in Nat
      /\ j * BytePerSect = x * BytePerSect + n
  <2>1. Spc - x \in Nat /\ Transfers <= Spc - x
    BY <1>0, <1>1
  <2>2. n \in Nat /\ n <= (Spc - x) * BytePerSect
    BY <1>0, <1>1, <2>1, Products
  <2>3. j * BytePerSect = x * BytePerSect + n
    BY <1>0, <1>1
  <2> QED
    BY <1>0, <2>2, <2>3
<1>3. /\ DOMAIN got = 0..d - 1
      /\ \A k \in 0..d - 1 : InFile(k) => got[k] = FileByte(req.offset + k)
  <2>1. /\ DOMAIN got = 0..rd.dest + n - 1
        /\ \A k \in 0..rd.dest + n - 1 : InFile(k) => got[k] = FileByte(req.offset + k)
    <3>1. n \in Nat /\ n <= (Spc - x) * BytePerSect
      BY <1>2
    <3>2. ReadTypes /\ GotBytes /\ x \in Nat /\ AtByte(x, 0) /\ x < Spc
      BY <1>0
    <3> QED
      BY <3>1, <3>2, StoresSectors
  <2>2. rd.dest + n - 1 = d - 1
    BY <1>0, <1>2
  <2> QED
    BY <2>1, <2>2, Zenon
<1>4. PICK m \in Nat : InCluster(m) /\ (m * Spc + x) * BytePerSect + 0 = req.offset + rd.dest
  BY <1>0 DEF AtByte
<1>5. (m * Spc + j) * BytePerSect + 0 = req.offset + d
  <2> DEFINE p == (m * Spc + x) * BytePerSect
  <2>1. p \in Int /\ p + 0 = req.offset + rd.dest
    BY <1>0, <1>4
  <2>2. (m * Spc + j) * BytePerSect + 0 = p + n
    BY <1>0, <1>1
  <2> HIDE DEF p
  <2> QED
    BY <1>0, <1>2, <2>1, <2>2
<1>6. CASE j < Spc /\ rd' = [rd EXCEPT !.got = got, !.dest = d, !.i = j]
  <2>1. /\ rd'.got = got /\ rd'.dest = d /\ rd'.i = j /\ rd'.at = "whole"
        /\ rd'.size = rd.size /\ rd'.cluster = rd.cluster /\ ReadTypes'
    <3> HIDE DEF got
    <3> QED
      <4>1. ReadTypes /\ rd.at = "whole" /\ d \in Nat /\ j \in Nat
        BY <1>0, <1>1, <1>2
      <4>2. rd' = [rd EXCEPT !.got = got, !.dest = d, !.i = j]
        BY <1>6, Zenon
      <4> QED
        BY <4>1, <4>2, WholeGoesOn, Zenon
  <2>2. GotBytes'
    BY <1>3, <2>1, MoreStored
  <2>3. AtByte(j, 0)'
    BY <1>4, <1>5, <2>1, VolumeStays DEF AtByte, InCluster
  <2>4. AtByte(rd.i, 0)'
    BY <2>1, <2>3 DEF AtByte
  <2>5. Left(rd.i * BytePerSect)'
    <3>1. rd'.dest + rd'.size = req.length + j * BytePerSect
      <4>1. d + rd.size = req.length + (x * BytePerSect + n)
        <5>1. x * BytePerSect \in Int
          BY <1>0
        <5>2. rd.dest + rd.size = req.length + x * BytePerSect
          BY <1>0
        <5>3. rd.dest \in Int /\ rd.size \in Int /\ req.length \in Int /\ n \in Int
          BY <1>0, <1>2
        <5> DEFINE p == x * BytePerSect
        <5> HIDE DEF p
        <5>4. d + rd.size = req.length + (p + n)
          BY <5>1, <5>2, <5>3, SMTT(30) DEF p
        <5> QED
          BY <5>4 DEF p
      <4> QED
        BY <1>2, <2>1, <4>1
    <3> QED
      BY <2>1, <3>1 DEF Left
  <2>6. rd'.i < Spc' /\ rd'.size >= BytesPerClus' /\ rd'.i % Transfers' = 0
    BY <1>0, <1>1, <1>6, <2>1, VolumeStays
  <2>7. PlaceInv'
    BY <2>1, <2>4, <2>5, <2>6 DEF PlaceInv
  <2> QED
    BY <2>1, <2>2, <2>7 DEF ReadInv, BytesInv, PassInv, FillInv
<1>7. ASSUME ~(j < Spc) PROVE j = Spc /\ left \in Nat /\ d + left = req.length
  <2>1. j = Spc
    BY <1>0, <1>1, <1>7
  <2>2. left \in Nat
    BY <1>0
  <2>3. BytesPerClus = x * BytePerSect + n
    BY <1>0, <1>2, <2>1
  <2>4. x * BytePerSect \in Int
    BY <1>0
  <2>5. d + left = req.length
    BY <1>0, <1>2, <2>3, <2>4
  <2> QED
    BY <2>1, <2>2, <2>5
<1>8. CASE ~(j < Spc) /\ left = 0 /\ rd' = [rd EXCEPT !.got = got, !.dest = d, !.i = 0, !.size = 0, !.at = "pass"]
  <2>1. rd'.got = got /\ rd'.at = "pass" /\ ReadTypes'
    <3> HIDE DEF got
    <3> QED
      BY <1>0, <1>2, <1>8, WholePasses
  <2>2. d = req.length
    BY <1>0, <1>2, <1>7, <1>8
  <2> HIDE DEF got
  <2> QED
    BY <1>3, <2>1, <2>2, Passes
<1>9. ASSUME ~(j < Spc), left # 0, NEW c \in NextOf(rd.cluster), NEW e,
             e = IF left < BytesPerClus /\ c >= TOP THEN rd.cluster + 1 ELSE c,
             rd' = [rd EXCEPT !.got = got, !.dest = d, !.i = 0, !.size = left, !.at = Part(0, left), !.cluster = e]
      PROVE  ReadInv'
  <2>0. /\ ~(j < Spc) /\ left # 0
        /\ e = IF left < BytesPerClus /\ c >= TOP THEN rd.cluster + 1 ELSE c
    BY <1>9
  <2>1. c \in Nat /\ (m + 1 < Len(Chain) => c = Chain[m + 2] /\ c < TOP)
    BY <1>0, <1>4, ClusterAfter
  <2>2. e \in Nat /\ (m + 1 < Len(Chain) => e = Chain[m + 2])
    <3>1. CASE left < BytesPerClus /\ c >= TOP
      <4>1. e = rd.cluster + 1
        BY <2>0, <3>1
      <4>2. ~(c < TOP)
        BY <2>1, <3>1, SMTT(30) DEF TOP
      <4>3. rd.cluster + 1 \in Nat
        BY <1>0
      <4> QED
        BY <2>1, <4>1, <4>2, <4>3
    <3>2. CASE ~(left < BytesPerClus /\ c >= TOP)
      BY <2>0, <2>1, <3>2
    <3> QED
      BY <3>1, <3>2
  <2>3. PICK a : a = Part(0, left)
    OBVIOUS
  <2>4. /\ ReadTypes' /\ rd'.got = got /\ rd'.dest = d /\ rd'.i = 0 /\ rd'.at = Part(0, left)
        /\ rd'.size = left /\ rd'.cluster = e
    <3>1. a \in {"part", "whole", "rest"}
      BY <2>3 DEF Part
    <3>2. left \in Nat
      BY <1>7, <2>0
    <3> HIDE DEF got
    <3>3. rd' = [rd EXCEPT !.got = got, !.dest = d, !.i = 0, !.size = left, !.at = a, !.cluster = e]
      BY <1>9, <2>3
    <3>4. /\ ReadTypes' /\ rd'.got = got /\ rd'.dest = d /\ rd'.i = 0 /\ rd'.at = a
          /\ rd'.size = left /\ rd'.cluster = e
      <4>1. ReadTypes /\ d \in Nat /\ e \in Nat
        BY <1>0, <1>2, <2>2
      <4> QED
        BY <4>1, <3>1, <3>2, <3>3 DEF ReadTypes, Reader
    <3> QED
      BY <2>3, <3>4
  <2>5. GotBytes'
    BY <1>3, <2>4, MoreStored
  <2>6. Left(0)'
    BY <1>0, <1>7, <2>0, <2>4 DEF Left
  <2>7. AtByte(0, 0)'
    <3>1. InCluster(m + 1)'
      BY <2>2, <2>4, VolumeStays DEF InCluster
    <3>2. (m + 1) * Spc + 0 = m * Spc + j /\ m + 1 \in Nat
      BY <1>0, <1>7, <2>0
    <3> QED
      BY <1>5, <2>4, <3>1, <3>2, VolumeStays DEF AtByte
  <2>8. 0 \in 0..Spc /\ ~(0 \in 1..Spc - 1) /\ rd'.at = Part(0, rd'.size)
    BY <1>0, <2>4
  <2> QED
    BY <2>4, <2>5, <2>6, <2>7, <2>8, GoesOn
<1> QED
  <2>1. j >= Spc <=> ~(j < Spc)
    BY <1>0, <1>1
  <2> QED
    BY <1>6, <1>8, <1>9, <2>1 DEF WholeRead

LEMMA RestStep ==
    ASSUME ReadInv, RestRead, req' = req
    PROVE  ReadInv'
<1> PICK x : x = rd.i
  OBVIOUS
<1> DEFINE s == SectorOf(rd.cluster, x)
<1>0. /\ ReadTypes /\ GotBytes /\ rd.dest + rd.size = req.length /\ rd.at = "rest"
      /\ x * BytePerSect + rd.size < BytesPerClus
      /\ x \in Nat /\ AtByte(x, 0) /\ x = rd.i
      /\ req \in Requests /\ rd.cluster \in Nat /\ rd.size \in Nat /\ rd.dest \in Nat
      /\ Spc \in Nat \ {0} /\ BytePerSect \in Nat \ {0} /\ req.length \in Nat /\ req.offset \in Nat
      /\ BytesPerClus \in Nat /\ BytesPerClus = Spc * BytePerSect /\ x * BytePerSect \in Nat
  <2>1. /\ ReadTypes /\ GotBytes /\ Left(0) /\ rd.at = "rest"
        /\ AtByte(x, 0) /\ x * BytePerSect + rd.size < BytesPerClus
    BY DEF RestRead, ReadInv, PlaceInv, BytesInv
  <2>2. /\ req \in Requests /\ rd.cluster \in Nat /\ rd.size \in Nat
        /\ rd.dest \in Nat /\ rd.i \in Nat
        /\ Spc \in Nat \ {0} /\ BytePerSect \in Nat \ {0} /\ req.length \in Nat /\ req.offset \in Nat
        /\ BytesPerClus \in Nat /\ BytesPerClus = Spc * BytePerSect
    BY <2>1, Fields, VolumeFacts
  <2> QED
    BY <2>1, <2>2 DEF Left
<1>1. x < Spc
  <2>1. x * BytePerSect < Spc * BytePerSect
    BY <1>0
  <2> QED
    BY <1>0, <2>1, FewerMultiples
<1>2. /\ BytePerSect <= (Spc - x) * BytePerSect
      /\ (Spc - x) * BytePerSect = BytesPerClus - x * BytePerSect
  BY <1>0, <1>1, RoomLeft
<1>3. CASE rd.size < BytePerSect /\ rd' = [rd EXCEPT !.got = Stored(s, 0, rd.size), !.at = "pass"]
  <2>1. rd'.at = "pass" /\ rd'.got = Stored(s, 0, rd.size) /\ ReadTypes'
    BY <1>0, <1>3 DEF ReadTypes, Reader
  <2>2. rd.size <= (Spc - x) * BytePerSect
    BY <1>0, <1>2
  <2> DEFINE got == Stored(SectorOf(rd.cluster, x), 0, rd.size)
  <2>3. /\ DOMAIN got = 0..rd.dest + rd.size - 1
        /\ \A k \in 0..rd.dest + rd.size - 1 : InFile(k) => got[k] = FileByte(req.offset + k)
    <3>1. ReadTypes /\ GotBytes /\ x \in Nat /\ AtByte(x, 0) /\ x < Spc /\ rd.size \in Nat
      BY <1>0, <1>1
    <3> QED
      BY <2>2, <3>1, StoresSectors
  <2> HIDE DEF got
  <2>4. rd'.got = got /\ rd'.at = "pass"
    BY <2>1 DEF got
  <2>5. rd.dest + rd.size - 1 = req.length - 1
    BY <1>0
  <2>6. /\ DOMAIN rd'.got = 0..req.length - 1
        /\ \A k \in 0..req.length - 1 : InFile(k) => rd'.got[k] = FileByte(req.offset + k)
    BY <2>3, <2>4, <2>5, Zenon
  <2> QED
    BY <2>1, <2>6, Passes
<1>4. CASE /\ rd.size >= BytePerSect
           /\ rd' = [rd EXCEPT !.got = Stored(s, 0, BytePerSect), !.dest = @ + BytePerSect,
                               !.size = @ - BytePerSect, !.i = @ + 1]
  <2> PICK d : d = rd.dest + BytePerSect
    OBVIOUS
  <2> PICK n : n = rd.size - BytePerSect
    OBVIOUS
  <2> PICK y : y = x + 1
    OBVIOUS
  <2> DEFINE got == Stored(SectorOf(rd.cluster, x), 0, BytePerSect)
  <2>0. d \in Nat /\ n \in Nat /\ y \in Nat /\ d = rd.dest + BytePerSect /\ y = x + 1 /\ d + n = req.length
    BY <1>0, <1>4
  <2>1. /\ rd'.got = got /\ rd'.dest = d /\ rd'.size = n /\ rd'.i = y /\ rd'.at = "rest"
        /\ rd'.cluster = rd.cluster
    BY <1>0, <1>4 DEF ReadTypes, Reader
  <2>2. ReadTypes'
    <3>1. rd' = [rd EXCEPT !.got = got, !.dest = d, !.size = n, !.i = y]
      BY <1>0, <1>4
    <3> HIDE DEF got
    <3> QED
      BY <1>0, <2>0, <3>1 DEF ReadTypes, Reader
  <2>3. GotBytes'
    <3>1. ReadTypes /\ GotBytes /\ x \in Nat /\ AtByte(x, 0) /\ x < Spc
      BY <1>0, <1>1
    <3>2. BytePerSect \in Nat /\ BytePerSect <= (Spc - x) * BytePerSect
      BY <1>0, <1>2
    <3>3. /\ DOMAIN got = 0..rd.dest + BytePerSect - 1
          /\ \A k \in 0..rd.dest + BytePerSect - 1 :
                InFile(k) => got[k] = FileByte(req.offset + k)
      BY <3>1, <3>2, StoresSectors
    <3> HIDE DEF got
    <3>4. rd.dest + BytePerSect - 1 = d - 1
      BY <1>0, <2>0
    <3>5. /\ DOMAIN rd'.got = 0..d - 1
          /\ \A k \in 0..d - 1 : InFile(k) => rd'.got[k] = FileByte(req.offset + k)
      BY <2>1, <3>3, <3>4, Zenon
    <3> QED
      BY <2>1, <3>5, MoreStored
  <2>4. AtByte(rd.i, 0)'
    <3>1. PICK m \in Nat : InCluster(m) /\ (m * Spc + x) * BytePerSect + 0 = req.offset + rd.dest
      BY <1>0 DEF AtByte
    <3>2. (m * Spc + y) * BytePerSect + 0 = req.offset + d
      <4> DEFINE p == (m * Spc + x) * BytePerSect
      <4>1. p \in Int /\ p + 0 = req.offset + rd.dest
        BY <1>0, <3>1
      <4>2. (m * Spc + y) * BytePerSect + 0 = p + BytePerSect
        BY <1>0, <2>0
      <4> HIDE DEF p
      <4> QED
        BY <1>0, <2>0, <4>1, <4>2
    <3>3. AtByte(y, 0)'
      BY <2>1, <3>1, <3>2, VolumeStays DEF AtByte, InCluster
    <3> QED
      BY <2>1, <3>3 DEF AtByte
  <2>5. Left(0)'
    BY <1>0, <2>0, <2>1 DEF Left
  <2>6. rd'.i * BytePerSect + rd'.size < BytesPerClus'
    <3>1. y * BytePerSect + n < BytesPerClus
      <4>1. y * BytePerSect = x * BytePerSect + BytePerSect
        BY <1>0, <2>0
      <4>2. n = rd.size - BytePerSect
        OBVIOUS
      <4> QED
        BY <1>0, <4>1, <4>2
    <3> QED
      BY <2>1, <3>1, VolumeStays
  <2>7. PlaceInv'
    BY <2>1, <2>4, <2>5, <2>6 DEF PlaceInv
  <2> QED
    BY <2>1, <2>2, <2>3, <2>7 DEF ReadInv, BytesInv, PassInv, FillInv
<1>5. rd.size < BytePerSect <=> ~(rd.size >= BytePerSect)
  BY <1>0
<1> QED
  BY <1>0, <1>3, <1>4, <1>5 DEF RestRead

LEMMA Commutes ==
    ASSUME NEW i \in Nat, NEW n \in Nat, NEW o \in Nat
    PROVE  i + n - 1 - o = i + n - o - 1
OBVIOUS

LEMMA PlaceInCluster ==
    ASSUME NEW i \in Nat, NEW n \in Nat, NEW o \in Nat, NEW spc \in Nat, n <= spc,
           NEW k \in 0..i + n - o - 1, ~(k < i - o)
    PROVE  k + o - i \in 0..spc - 1 /\ o + k = i + (k + o - i)
OBVIOUS

LEMMA RoomInTable ==
    ASSUME NEW i \in Nat, NEW o \in Nat, NEW max \in Nat, NEW spc \in Nat \ {0}, i < max + o,
           NEW room, room = max + o - i, NEW n, n = IF room < spc THEN room ELSE spc
    PROVE  /\ n \in Nat /\ n <= spc /\ i + n \in Nat
           /\ n = room => i + n = max + o
           /\ n # room => n = spc /\ i + n < max + o
OBVIOUS

(* What one cluster puts into the table *)
LEMMA TakesTheFile ==
    ASSUME ReadTypes, GotSectors, NEW m \in Nat, InCluster(m), rd.i = m * Spc,
           NEW n \in Nat, n <= Spc
    PROVE  /\ DOMAIN Take(n) = 0..rd.i + n - req.offset - 1
           /\ \A k \in 0..rd.i + n - req.offset - 1 :
                 req.offset + k < FileSects => Take(n)[k] = FileSect(req.offset + k)
<1>0. /\ req \in Requests /\ rd.i \in Nat /\ rd.cluster \in Nat /\ Spc \in Nat \ {0}
      /\ req.offset \in Nat /\ Len(Chain) \in Nat /\ FileSects = Len(Chain) * Spc
  BY VolumeFacts DEF ReadTypes, Reader
<1>1. rd.i + n - 1 - req.offset = rd.i + n - req.offset - 1
  <2>1. rd.i \in Nat /\ req.offset \in Nat
    BY <1>0
  <2> QED
    BY <2>1, Commutes, Zenon
<1>2. DOMAIN Take(n) = 0..rd.i + n - req.offset - 1
  BY <1>1, Zenon DEF Take
<1>3. ASSUME NEW k \in 0..rd.i + n - req.offset - 1, req.offset + k < FileSects
      PROVE  Take(n)[k] = FileSect(req.offset + k)
  <2>0. k \in 0..rd.i + n - 1 - req.offset
    BY <1>1, Zenon
  <2>1. CASE k < rd.i - req.offset
    <3>1. Take(n)[k] = rd.got[k]
      BY <2>0, <2>1 DEF Take
    <3>2. k \in 0..rd.i - req.offset - 1
      BY <1>0, <2>1
    <3> QED
      BY <1>3, <3>1, <3>2 DEF GotSectors
  <2>2. CASE ~(k < rd.i - req.offset)
    <3> PICK r : r = k + req.offset - rd.i
      OBVIOUS
    <3>1. Take(n)[k] = SectorOf(rd.cluster, r)
      BY <2>0, <2>2, Zenon DEF Take
    <3>2. r \in 0..Spc - 1 /\ req.offset + k = rd.i + r
      <4>1. rd.i \in Nat /\ req.offset \in Nat /\ Spc \in Nat
        BY <1>0
      <4> QED
        BY <2>2, <4>1, PlaceInCluster
    <3>3. req.offset + k = m * Spc + r
      BY <3>2
    <3>4. (m * Spc + r) \div Spc = m /\ (m * Spc + r) % Spc = r
      <4>1. Spc \in Nat \ {0}
        BY <1>0
      <4> QED
        BY <3>2, <4>1, SectorOfCluster, Zenon
    <3>5. m < Len(Chain)
      <4>1. m * Spc < Len(Chain) * Spc
        <5>1. rd.i < FileSects
          <6>1. FileSects \in Nat
            BY <1>0
          <6> QED
            BY <1>0, <1>3, <3>2, <6>1
        <5> QED
          BY <1>0, <5>1
      <4> QED
        BY <1>0, <4>1, FewerMultiples
    <3>6. FileSect(m * Spc + r) = SectorOf(rd.cluster, r)
      BY <3>4, <3>5 DEF FileSect, InCluster, Chain
    <3> QED
      BY <3>1, <3>3, <3>6
  <2> QED
    BY <2>1, <2>2
<1> QED
  BY <1>2, <1>3

LEMMA FillGoesOn ==
    ASSUME ReadTypes, req' = req, NEW g, NEW y \in Nat, NEW c \in Nat,
           NEW a \in {"trained", "fill"},
           rd' = [rd EXCEPT !.got = g, !.i = y, !.cluster = c, !.at = a]
    PROVE  ReadTypes'
BY DEF ReadTypes, Reader

LEMMA FillStep ==
    ASSUME ReadInv, Fill, req' = req
    PROVE  ReadInv'
<1> PICK room : room = MaxTable + req.offset - rd.i
  OBVIOUS
<1> PICK n : n = IF room < Spc THEN room ELSE Spc
  OBVIOUS
<1> PICK y : y = rd.i + n
  OBVIOUS
<1> PICK got : got = Take(n)
  OBVIOUS
<1>0. /\ ReadTypes /\ GotSectors /\ rd.i < MaxTable + req.offset /\ rd.at = "fill"
      /\ req \in Requests /\ rd.cluster \in Nat /\ rd.i \in Nat
      /\ Spc \in Nat \ {0} /\ req.offset \in Nat /\ MaxTable \in Nat \ {0}
      /\ Len(Chain) \in Nat /\ FileSects = Len(Chain) * Spc /\ FileSects \in Nat
  <2>1. ReadTypes /\ GotSectors /\ rd.i < MaxTable + req.offset /\ rd.at = "fill"
    BY DEF Fill, ReadInv, FillInv
  <2> QED
    BY <2>1, Fields, VolumeFacts
<1>1. PICK m \in Nat : InCluster(m) /\ rd.i = m * Spc
  BY <1>0 DEF ReadInv, FillInv
<1>2. /\ n \in Nat /\ n <= Spc /\ y \in Nat /\ y = rd.i + n
      /\ (n = room => y = MaxTable + req.offset)
      /\ (n # room => n = Spc /\ y < MaxTable + req.offset)
  <2>1. rd.i \in Nat /\ req.offset \in Nat /\ MaxTable \in Nat /\ Spc \in Nat \ {0}
    BY <1>0
  <2>2. rd.i < MaxTable + req.offset
    BY <1>0
  <2>3. /\ n \in Nat /\ n <= Spc /\ rd.i + n \in Nat
        /\ n = room => rd.i + n = MaxTable + req.offset
        /\ n # room => n = Spc /\ rd.i + n < MaxTable + req.offset
    <3>1. room = MaxTable + req.offset - rd.i /\ n = IF room < Spc THEN room ELSE Spc
      OBVIOUS
    <3> QED
      BY <2>1, <2>2, <3>1, RoomInTable
  <2>4. y = rd.i + n
    OBVIOUS
  <2>5. y \in Nat
    BY <2>3, <2>4, Zenon
  <2>6. n = room => y = MaxTable + req.offset
    BY <2>3, <2>4, Zenon
  <2>7. n # room => n = Spc /\ y < MaxTable + req.offset
    BY <2>3, <2>4, SMT
  <2> QED
    BY <2>3, <2>4, <2>5, <2>6, <2>7, Zenon
<1>3. /\ DOMAIN got = 0..y - req.offset - 1
      /\ \A k \in 0..y - req.offset - 1 :
            req.offset + k < FileSects => got[k] = FileSect(req.offset + k)
  <2> DEFINE t == Take(n)
  <2>1. /\ DOMAIN t = 0..rd.i + n - req.offset - 1
        /\ \A k \in 0..rd.i + n - req.offset - 1 :
              req.offset + k < FileSects => t[k] = FileSect(req.offset + k)
    <3>1. ReadTypes /\ GotSectors /\ n \in Nat /\ n <= Spc
      BY <1>0, <1>2
    <3> QED
      BY <1>1, <3>1, TakesTheFile
  <2>2. got = t /\ y = rd.i + n
    BY <1>2
  <2> HIDE DEF t
  <2>3. rd.i + n - req.offset - 1 = y - req.offset - 1
    <3>1. rd.i \in Nat /\ req.offset \in Nat /\ n \in Nat /\ y = rd.i + n
      BY <1>0, <1>2
    <3> QED
      BY <3>1
  <2> QED
    BY <2>1, <2>2, <2>3, Zenon
<1>4. ASSUME rd'.got = got, rd'.i = y PROVE GotSectors'
  <2>1. req' = req /\ FileSects' = FileSects /\ \A k : FileSect(k)' = FileSect(k)
    BY VolumeStays
  <2> QED
    BY <1>3, <1>4, <2>1 DEF GotSectors
<1>5. CASE n = room /\ rd' = [rd EXCEPT !.got = got, !.i = y, !.at = "trained"]
  <2>1. rd'.got = got /\ rd'.i = y /\ rd'.at = "trained" /\ ReadTypes'
    BY <1>0, <1>2, <1>5 DEF ReadTypes, Reader
  <2>2. rd'.i = MaxTable + req'.offset
    BY <1>2, <1>5, <2>1
  <2> QED
    BY <1>4, <2>1, <2>2 DEF ReadInv, PlaceInv, BytesInv, PassInv, FillInv
<1>6. ASSUME n # room, NEW c \in NextOf(rd.cluster),
             rd' = [rd EXCEPT !.got = got, !.i = y, !.cluster = c,
                              !.at = IF c = END THEN "trained" ELSE "fill"]
      PROVE  ReadInv'
  <2>1. c \in Nat /\ (m + 1 < Len(Chain) => c = Chain[m + 2] /\ c < TOP)
    BY <1>0, <1>1, ClusterAfter
  <2>2. /\ rd'.got = got /\ rd'.i = y /\ rd'.cluster = c /\ ReadTypes'
        /\ rd'.at = IF c = END THEN "trained" ELSE "fill"
    <3> PICK a : a = IF c = END THEN "trained" ELSE "fill"
      OBVIOUS
    <3>1. a \in {"trained", "fill"} /\ rd' = [rd EXCEPT !.got = got, !.i = y, !.cluster = c, !.at = a]
      BY <1>6
    <3>2. /\ rd'.got = got /\ rd'.i = y /\ rd'.cluster = c /\ rd'.at = a
      BY <1>0, <3>1 DEF ReadTypes, Reader
    <3>3. ReadTypes'
      <4>1. ReadTypes /\ y \in Nat /\ c \in Nat
        BY <1>0, <1>2, <2>1
      <4> QED
        BY <3>1, <4>1, FillGoesOn, Zenon
    <3> QED
      BY <3>2, <3>3
  <2>3. y = (m + 1) * Spc /\ m + 1 \in Nat
    <3>1. n = Spc /\ y = m * Spc + Spc
      BY <1>1, <1>2, <1>6
    <3>2. (m + 1) * Spc = m * Spc + Spc
      BY <1>0
    <3> QED
      BY <3>1, <3>2
  <2>4. InCluster(m + 1)'
    BY <2>1, <2>2, VolumeStays DEF InCluster
  <2>5. CASE c = END
    <3>1. ~(c < TOP)
      BY <2>5, SMTT(30) DEF END, TOP
    <3>2. Len(Chain) <= m + 1
      BY <1>0, <2>1, <3>1
    <3>3. y >= FileSects
      <4>1. Len(Chain) * Spc <= (m + 1) * Spc
        BY <1>0, <2>3, <3>2, Products
      <4> QED
        BY <1>0, <2>3, <4>1
    <3>4. rd'.i >= FileSects' /\ rd'.at = "trained"
      BY <2>2, <2>5, <3>3, VolumeStays
    <3> QED
      BY <1>4, <2>2, <3>4 DEF ReadInv, PlaceInv, BytesInv, PassInv, FillInv
  <2>6. CASE c # END
    <3>1. rd'.at = "fill" /\ rd'.i < MaxTable + req'.offset
      BY <1>2, <1>6, <2>2, <2>6
    <3>2. rd'.i = (m + 1) * Spc'
      BY <2>2, <2>3, VolumeStays
    <3>3. \E k \in Nat : InCluster(k)' /\ rd'.i = k * Spc'
      BY <2>3, <2>4, <3>2
    <3> QED
      BY <1>4, <2>2, <3>1, <3>3 DEF ReadInv, PlaceInv, BytesInv, PassInv, FillInv
  <2> QED
    BY <2>5, <2>6
<1> QED
  BY <1>5, <1>6 DEF Fill

LEMMA CallStarts ==
    ASSUME req \in Requests, rd = Locals(req)
    PROVE  ReadInv
<1>1. /\ req.offset \in Nat /\ req.length \in Nat /\ req.op \in {"none", "read", "train"}
      /\ Spc \in Nat \ {0} /\ BytePerSect \in Nat \ {0} /\ MaxTable \in Nat \ {0}
      /\ Chain \in Seq(Nat) /\ Len(Chain) \in Nat \ {0}
  BY VolumeFacts
<1> PICK a : a = CASE req.op = "none" -> "idle" [] req.op = "read" -> "walk" [] OTHER -> "fill"
  OBVIOUS
<1> PICK o : o = req.offset \div BytePerSect
  OBVIOUS
<1> PICK h : h = Head(Chain)
  OBVIOUS
<1>2. rd = [at |-> a, cluster |-> h, off |-> o, size |-> req.length, dest |-> 0, i |-> 0, got |-> <<>>]
  BY DEF Locals, Chain
<1>3. a \in {"idle", "walk", "fill"}
  BY <1>1
<1>4. o \in Nat /\ Remain = req.offset - o * BytePerSect
  BY <1>1, Division DEF Remain
<1>5. h \in Nat /\ h = Chain[1]
  BY <1>1
<1>6. /\ rd.at = a /\ rd.cluster = h /\ rd.off = o /\ rd.size = req.length /\ rd.dest = 0
      /\ rd.i = 0 /\ rd.got = <<>>
  BY <1>2
<1>7. ReadTypes
  BY <1>1, <1>2, <1>3, <1>4, <1>5 DEF ReadTypes, Reader
<1>8. InCluster(0)
  BY <1>5, <1>6 DEF InCluster
<1>9. AtByte(rd.off, Remain)
  <2>1. (0 * Spc + o) * BytePerSect + Remain = req.offset + 0
    <3>1. o * BytePerSect \in Int /\ 0 * Spc + o = o
      BY <1>1, <1>4
    <3> QED
      BY <1>1, <1>4, <3>1
  <2> QED
    BY <1>6, <1>8, <2>1 DEF AtByte
<1>10. DOMAIN rd.got = {} /\ 0..-1 = {}
  BY <1>6
<1>11. Left(0)
  BY <1>1, <1>6 DEF Left
<1>12. GotBytes
  <2>1. 0..rd.dest - 1 = {}
    BY <1>6
  <2> QED
    BY <1>10, <2>1 DEF GotBytes
<1>13. GotSectors
  <2>1. 0..rd.i - req.offset - 1 = {}
    BY <1>1, <1>6
  <2> QED
    BY <1>10, <2>1 DEF GotSectors
<1>14. rd.i < MaxTable + req.offset /\ \E m \in Nat : InCluster(m) /\ rd.i = m * Spc
  <2>1. rd.i = 0 * Spc
    BY <1>1, <1>6
  <2>2. rd.i < MaxTable + req.offset
    BY <1>1, <1>6
  <2>3. 0 \in Nat
    OBVIOUS
  <2> QED
    BY <1>8, <2>1, <2>2, <2>3, Zenon
<1> QED
  BY <1>3, <1>6, <1>7, <1>9, <1>11, <1>12, <1>13, <1>14 DEF ReadInv, PlaceInv, BytesInv, PassInv, FillInv

LEMMA NextCallStarts == (req \in Requests /\ rd = Locals(req))' => ReadInv'
<1>1. (req \in Requests /\ rd = Locals(req)) => ReadInv
  BY CallStarts
<1> QED
  BY <1>1, PTL

LEMMA ReadStep ==
    ASSUME ReadInv, [ReadNext]_reader
    PROVE  ReadInv'
<1>1. CASE Read /\ UNCHANGED req
  BY <1>1, WalkStep, HeadStep, PartStep, WholeStep, RestStep, FillStep DEF Read
<1>2. CASE Return
  <2>1. NoCall \in Requests
    BY RequestAssumption DEF NoCall
  <2>2. (req \in Requests /\ rd = Locals(req))'
    BY <1>2, <2>1 DEF Return, Locals
  <2> QED
    BY <2>2, NextCallStarts
<1>3. CASE UNCHANGED reader
  BY <1>3, VolumeStays DEF reader, ReadInv, ReadTypes, Reader, PlaceInv, BytesInv, PassInv, FillInv,
     GotBytes, GotSectors, AtByte, InCluster, Left
<1> QED
  BY <1>1, <1>2, <1>3 DEF ReadNext

(* The invariant of a read holds for every volume and chain of clusters, every
   size of a sector and of a cluster, and every call: where fat_read_file and
   fat_read_fat_for_training_fw are in the file, and what they have stored
   (fat/fat_boot.c:28-317). *)
THEOREM ReadInvariance == ReadSpec => []ReadInv
<1>1. ReadInit => ReadInv
  BY CallStarts DEF ReadInit
<1>2. ReadInv /\ [ReadNext]_reader => ReadInv'
  BY ReadStep
<1> QED
  BY <1>1, <1>2, PTL DEF ReadSpec

(* A read that passes has stored the bytes of the file, and the table for the
   training firmware leads to its sectors, for a file of any length wherever
   its clusters lie (fat/fat_boot.c:73-317). *)
THEOREM FileAlwaysFound == ReadSpec => []FileIsFound
<1>1. ReadInv => ReadsTheFile
  <2> SUFFICES ASSUME ReadInv, rd.at = "pass" PROVE ReadsTheFile
    BY DEF ReadsTheFile
  <2> QED
    BY DEF ReadInv, PassInv, ReadsTheFile, InFile
<1>2. ReadInv => TableIsTheFile
  <2> SUFFICES ASSUME ReadInv, rd.at = "trained", NEW lba \in 0..MaxTable - 1,
                      req.offset + lba < FileSects
               PROVE  lba2sec_for_training_fw(lba) = FileSect(req.offset + lba)
    BY DEF TableIsTheFile
  <2>0. /\ GotSectors /\ (rd.i >= FileSects \/ rd.i = MaxTable + req.offset)
        /\ req.offset \in Nat /\ MaxTable \in Nat /\ FileSects \in Nat /\ rd.i \in Nat
    BY Fields, VolumeFacts DEF ReadInv, FillInv
  <2>1. rd.i >= req.offset + 1 /\ lba <= rd.i - req.offset - 1
    BY <2>0
  <2>2. lba2sec_for_training_fw(lba) = IF lba \in DOMAIN rd.got THEN rd.got[lba] ELSE 0
    <3>1. ~(lba > rd.i - req.offset - 1)
      BY <2>0, <2>1
    <3> QED
      BY <2>1, <3>1, Zenon DEF lba2sec_for_training_fw
  <2>3. lba \in 0..rd.i - req.offset - 1
    BY <2>0, <2>1
  <2> QED
    BY <2>0, <2>2, <2>3 DEF GotSectors
<1> QED
  BY <1>1, <1>2, ReadInvariance, PTL DEF FileIsFound
=============================================================================
