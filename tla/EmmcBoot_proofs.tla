--------------------------- MODULE EmmcBoot_proofs ---------------------------
(***************************************************************************)
(* Proofs about EmmcBoot for every set of disks, every sector and image    *)
(* size and every number of failing device operations.                     *)
(***************************************************************************)
EXTENDS EmmcBoot, TLAPS

Parts == {disk.part[n] : n \in Entry}
Good(l) == Whole(disk.img[l], "uboot", UbootMax)
Headed(l) == HeaderOk(disk.img[l], "uboot") /\ disk.img[l].size > 0
Loading == pc \in {"read_hdr", "read_body"}
NoFault == TotalFaults = 0

(* The partition table in g_boothead names partitions of the disk, and only
   those when nothing has failed; behind the signature test there is a GPT. *)
GptInv ==
    /\ disk.img[Mbr] = NotAnImage /\ disk.img[BackupGpt] = NotAnImage
    /\ head.sig => disk.gpt
    /\ pc \in {"read_gpt_ent", "scan", "read_hdr", "read_body", "fip",
               "boot_uboot"} => disk.gpt
    /\ \A n \in Entry : head.ent[n] \in Parts \union {Mbr, BackupGpt}
    /\ (pc \in {"scan", "fip"} \/ Loading) /\ NoFault => head.ent = disk.part
    /\ blk_start1 # None => blk_start1 \in Parts \union {Mbr, BackupGpt}

(* Which image a running load is about *)
CallInv ==
    /\ pc \in {"initDriver_SD", "SetMMCPartitionNum", "read_gpt_hdr",
              "read_gpt_ent"} => i = 0 /\ blk_start1 = None /\ blk_start2 = None
    /\ pc = "scan" => blk_start2 = None
    /\ Loading /\ call.name = "fip" => call.blk = FipLba /\ ~call.only_load_hdr
    /\ Loading /\ call.name = "uboot" /\ call.only_load_hdr =>
           /\ i \in Entry /\ blk_start2 = None
           /\ call.blk = head.ent[i] /\ blk_start1 = call.blk
    /\ Loading /\ ForUboot2 =>
           /\ i \in Entry /\ blk_start1 # None
           /\ call.blk = head.ent[i]
    /\ Loading /\ call.name = "uboot" /\ ~call.only_load_hdr /\ blk_start2 = None =>
           i = 4 /\ call.blk = blk_start1
    /\ pc = "read_body" =>
           LET im == disk.img[call.blk]
           IN  /\ buf[call.name] = [src |-> call.blk, upto |-> BlockSize]
               /\ ~call.only_load_hdr
               /\ HeaderOk(im, call.name)
               /\ im.size > 0 /\ im.size + HdrSize < Limit
               /\ Remaining(im) > 0

(* a load buffer with a whole image and its signature *)
Loaded(b, name, limit) ==
    /\ b.src # None
    /\ Whole(disk.img[b.src], name, limit)
    /\ b.upto >= HdrSize + disk.img[b.src].size + SignSize

(* What has been loaded when *)
LoadedInv ==
    /\ pc \in {"fip", "boot_uboot"} \/ (Loading /\ call.name = "fip") =>
           /\ Loaded(buf["uboot"], "uboot", UbootMax)
           /\ buf["uboot"].src \in Parts
    /\ pc = "boot_uboot" =>
           /\ Loaded(buf["fip"], "fip", FipMax)
           /\ buf["fip"].src = FipLba

(* While nothing fails, the loop has missed no whole u-boot: the partitions it
   has passed hold none, but for the one that blk_start1 remembers. *)
ScanInv ==
    NoFault /\ (pc = "scan" \/ (Loading /\ call.name = "uboot")) =>
        /\ blk_start1 = None \/ (Loading /\ call.only_load_hdr) =>
               \A n \in Entry : n < i => ~Headed(disk.part[n])
        /\ blk_start1 # None /\ ~(Loading /\ call.only_load_hdr) =>
               \A n \in Entry : n < i /\ Good(disk.part[n])
                                    => disk.part[n] = blk_start1

(* why emmc_boot returned *)
CauseInv ==
    pc = "return" /\ NoFault /\ disk.gpt =>
        ~WholeFip \/ \A n \in Entry : ~Good(disk.part[n])

IInv == TypeOK /\ GptInv /\ CallInv /\ LoadedInv /\ ScanInv /\ CauseInv

(* Reading Blocks(units) sectors brings at least `units' units. *)
LEMMA BlocksCover ==
    ASSUME NEW units \in Int
    PROVE  /\ Blocks(units) \in Int
           /\ units > 0 => Blocks(units) * BlockSize >= units
                          /\ Blocks(units) * BlockSize \in Nat
  BY SizeAssumption DEF Blocks, HdrSize

THEOREM InitIInv == Init => IInv
  <1> SUFFICES ASSUME Init PROVE IInv
    OBVIOUS
  <1> USE DisksAssumption, LbaAssumption DEF Init, Disk
  <1>1. disk \in Disk
    BY DEF Disk
  <1>2. TypeOK
    BY <1>1 DEF TypeOK, Operation, Sector, Buffer, Empty, Call
  <1>3. GptInv /\ CallInv /\ LoadedInv /\ ScanInv /\ CauseInv
    BY DEF GptInv, CallInv, LoadedInv, ScanInv, CauseInv, Loading, ForUboot2
  <1> QED
    BY <1>2, <1>3 DEF IInv

-----------------------------------------------------------------------------
(* Every action preserves the invariant.  The actions that neither load an
   image nor return from a load come first. *)

LEMMA CardStep == IInv /\ (initDriver_SD \/ SetMMCPartitionNum) => IInv'
  <1> SUFFICES ASSUME IInv, initDriver_SD \/ SetMMCPartitionNum PROVE IInv'
    OBVIOUS
  <1> USE DEF IInv, initDriver_SD, SetMMCPartitionNum, Works, Fails
  <1>1. TypeOK'
    BY DEF TypeOK, Operation
  <1>2. TotalFaults \in Nat /\ TotalFaults' \in Nat /\ (pc' = "return" => TotalFaults' # 0)
    BY DEF TypeOK, Operation, TotalFaults
  <1>3. GptInv'
    BY <1>2 DEF GptInv, Loading, Parts, NoFault
  <1>4. CallInv' /\ LoadedInv' /\ ScanInv' /\ CauseInv'
    BY <1>2 DEF CallInv, LoadedInv, ScanInv, CauseInv, Loading, NoFault, ForUboot2
  <1> QED
    BY <1>1, <1>3, <1>4

LEMMA ReadGptHeaderStep == IInv /\ ReadGptHeader => IInv'
  <1> SUFFICES ASSUME IInv, ReadGptHeader PROVE IInv'
    OBVIOUS
  <1> USE DEF IInv, ReadGptHeader, Works, Fails
  <1>1. head' \in Sector /\ (head'.sig => disk.gpt)
        /\ \A n \in Entry : head'.ent[n] \in Parts \union {Mbr, BackupGpt}
    BY LbaAssumption DEF TypeOK, GptInv, Torn, Lba1, Sector, Disk, Entry
  <1>2. TypeOK'
    BY <1>1 DEF TypeOK, Operation
  <1>3. TotalFaults \in Nat /\ TotalFaults' \in Nat
    BY <1>2 DEF TypeOK, Operation, TotalFaults
  <1>4. (NoFault)' => head'.sig = disk.gpt
    BY <1>3 DEF TypeOK, Operation, TotalFaults, NoFault, Lba1
  <1>5. GptInv'
    BY <1>1 DEF GptInv, Loading, Parts
  <1>6. CallInv' /\ LoadedInv' /\ ScanInv' /\ CauseInv'
    BY <1>4, <1>1 DEF CallInv, LoadedInv, ScanInv, CauseInv, Loading, ForUboot2, Entry
  <1> QED
    BY <1>2, <1>5, <1>6

LEMMA ReadGptEntriesStep == IInv /\ ReadGptEntries => IInv'
  <1> SUFFICES ASSUME IInv, ReadGptEntries PROVE IInv'
    OBVIOUS
  <1> USE DEF IInv, ReadGptEntries, Works, Fails
  <1>1. head' \in Sector /\ (head'.sig => disk.gpt)
        /\ \A n \in Entry : head'.ent[n] \in Parts \union {Mbr, BackupGpt}
    <2>1. Lba2 \in Sector /\ Lba2.sig = FALSE
          /\ \A n \in Entry : Lba2.ent[n] \in Parts
      BY DEF Lba2, TypeOK, Sector, Disk, Parts
    <2>2. CASE head' = Lba2
      BY <2>1, <2>2
    <2>3. CASE Torn(Lba2)
      BY <2>1, <2>3 DEF Torn, TypeOK, GptInv, Sector
    <2> QED
      BY <2>2, <2>3
  <1>2. TypeOK'
    BY <1>1 DEF TypeOK, Operation
  <1>3. (NoFault)' => head'.ent = disk.part
    BY DEF TypeOK, Operation, TotalFaults, NoFault, Lba2
  <1>4. GptInv'
    BY <1>1, <1>3 DEF GptInv, Loading, Parts
  <1>5. CallInv' /\ LoadedInv' /\ ScanInv' /\ CauseInv'
    BY DEF CallInv, LoadedInv, ScanInv, CauseInv, Loading, ForUboot2, Entry
  <1> QED
    BY <1>2, <1>4, <1>5

LEMMA CallStep ==
    IInv /\ (LookForUboot1 \/ LookForUboot2 \/ FallbackToUboot1 \/ BadUboot
              \/ LoadFip) => IInv'
  <1> USE DEF IInv, CallLoad
  <1>1. ASSUME IInv, LookForUboot1 PROVE IInv'
    <2> USE <1>1 DEF LookForUboot1
    <2>1. i \in Entry /\ head.ent[i] \in Lba /\ head.ent[i] # None
      BY LbaAssumption DEF TypeOK, Sector, Entry
    <2>2. TypeOK' /\ (NoFault' <=> NoFault)
      BY <2>1 DEF TypeOK, Call, NoFault, TotalFaults
    <2>3. GptInv'
      BY <2>1, <2>2 DEF GptInv, Loading, Parts
    <2>4. CallInv' /\ LoadedInv' /\ CauseInv'
      BY <2>1, <2>2 DEF CallInv, LoadedInv, CauseInv, Loading, ForUboot2
    <2>5. ScanInv'
      BY <2>2 DEF ScanInv, Loading, Headed
    <2> QED
      BY <2>2, <2>3, <2>4, <2>5
  <1>2. ASSUME IInv, LookForUboot2 PROVE IInv'
    <2> USE <1>2 DEF LookForUboot2
    <2>1. i \in Entry /\ head.ent[i] \in Lba /\ head.ent[i] # None
      BY LbaAssumption DEF TypeOK, Sector, Entry
    <2>2. TypeOK' /\ (NoFault' <=> NoFault)
      BY <2>1 DEF TypeOK, Call, NoFault, TotalFaults
    <2>3. GptInv'
      BY <2>1, <2>2 DEF GptInv, Loading, Parts
    <2>4. CallInv' /\ LoadedInv' /\ CauseInv'
      BY <2>1, <2>2 DEF CallInv, LoadedInv, CauseInv, Loading, ForUboot2
    <2>5. ScanInv'
      BY <2>2 DEF ScanInv, Loading, Good
    <2> QED
      BY <2>2, <2>3, <2>4, <2>5
  <1>3. ASSUME IInv, FallbackToUboot1 PROVE IInv'
    <2> USE <1>3 DEF FallbackToUboot1
    <2>1. TypeOK' /\ (NoFault' <=> NoFault)
      BY DEF TypeOK, Call, NoFault, TotalFaults
    <2>2. GptInv'
      BY <2>1 DEF GptInv, Loading, Parts
    <2>3. CallInv' /\ LoadedInv' /\ CauseInv'
      BY <2>1 DEF CallInv, LoadedInv, CauseInv, Loading, ForUboot2
    <2>4. ScanInv'
      BY <2>1 DEF ScanInv, Loading, Good
    <2> QED
      BY <2>1, <2>2, <2>3, <2>4
  <1>4. ASSUME IInv, BadUboot PROVE IInv'
    <2> USE <1>4 DEF BadUboot
    <2>1. TypeOK' /\ (NoFault' <=> NoFault)
      BY DEF TypeOK, NoFault, TotalFaults
    <2>2. GptInv' /\ CallInv' /\ LoadedInv' /\ ScanInv'
      BY <2>1 DEF GptInv, Loading, Parts, CallInv, LoadedInv, ScanInv, ForUboot2
    <2>3. CauseInv'
      <3>1. blk_start1 = None
        BY DEF CallInv
      <3>2. NoFault => \A n \in Entry : ~Headed(disk.part[n])
        BY <3>1 DEF ScanInv, Entry
      <3>3. \A n \in Entry : Good(disk.part[n]) => Headed(disk.part[n])
        BY DEF Good, Headed, Whole
      <3> QED
        BY <2>1, <3>2, <3>3 DEF CauseInv, Good
    <2> QED
      BY <2>1, <2>2, <2>3
  <1>5. ASSUME IInv, LoadFip PROVE IInv'
    <2> USE <1>5 DEF LoadFip
    <2>1. TypeOK' /\ (NoFault' <=> NoFault)
      BY LbaAssumption DEF TypeOK, Call, NoFault, TotalFaults
    <2>2. GptInv'
      BY <2>1 DEF GptInv, Loading, Parts
    <2>3. CallInv' /\ ScanInv' /\ CauseInv'
      BY <2>1 DEF Loading, CallInv, ScanInv, CauseInv, ForUboot2
    <2>4. Parts' = Parts
      BY DEF Parts
    <2>5. LoadedInv'
      BY <2>4 DEF LoadedInv, Loaded
    <2> QED
      BY <2>1, <2>2, <2>3, <2>5
  <1> QED
    BY <1>1, <1>2, <1>3, <1>4, <1>5

(* How the result of a load changes the state, given that the loaded image is
   good when the result is ok, and that it is not when nothing has failed and
   the result is not ok. *)
LEMMA ReturnStep ==
    ASSUME IInv, Loading, NEW ok \in BOOLEAN, Return(ok),
           UNCHANGED <<disk, head, call>>,
           faults' \in [Operation -> Nat],
           NoFault' => NoFault,
           buf' \in [{"uboot", "fip"} -> Buffer],
           \A n \in {"uboot", "fip"} : n # call.name => buf'[n] = buf[n],
           ok /\ ~call.only_load_hdr =>
               /\ buf'[call.name].src = call.blk
               /\ Loaded(buf'[call.name], call.name, Limit),
           ok /\ call.only_load_hdr => Headed(call.blk),
           ~ok /\ NoFault' /\ call.only_load_hdr => ~Headed(call.blk),
           ~ok /\ NoFault' /\ ~call.only_load_hdr =>
               ~Whole(disk.img[call.blk], call.name, Limit)
    PROVE  IInv'
  <1> USE DEF IInv
  <1>1. TypeOK'
    BY DEF TypeOK, Return, NextEntry, KeepStart1, KeepStart2, ForUboot1Header,
           ForUboot2, ForFip, CallInv, Entry, Call
  <1>2. Parts' = Parts
    BY DEF Parts
  <1>3. GptInv'
    BY <1>2 DEF GptInv, Loading, Return, KeepStart1
  <1>4. CallInv'
    BY DEF CallInv, Return, KeepStart1, KeepStart2, ForUboot1Header, ForUboot2,
           ForFip, Loading, TypeOK, Call
  <1>5. LoadedInv'
    <2>1. ok /\ ~call.only_load_hdr /\ call.name = "uboot" =>
              call.blk \in Parts /\ Limit = UbootMax
      BY DEF GptInv, CallInv, Loading, Loaded, Whole, HeaderOk, NotAnImage,
             image_check_magic, Limit, ForUboot2
    <2>2. ok /\ call.name = "fip" => call.blk = FipLba /\ Limit = FipMax
      BY DEF CallInv, Limit
    <2>3. pc' = "fip" => ok /\ ~call.only_load_hdr /\ call.name = "uboot"
      BY DEF Return, ForUboot1Header, ForFip, TypeOK, Call
    <2>4. pc' = "boot_uboot" => ok /\ ~call.only_load_hdr /\ call.name = "fip"
      BY DEF Return, ForUboot1Header, ForFip
    <2>5. call.name = "fip" => buf'["uboot"] = buf["uboot"]
      OBVIOUS
    <2>6. pc' \notin {"read_hdr", "read_body"}
      BY DEF Return
    <2> QED
      BY <1>2, <2>1, <2>2, <2>3, <2>4, <2>5, <2>6 DEF LoadedInv, Loaded, Loading
  <1>6. ScanInv'
    <2> SUFFICES ASSUME NoFault', pc' = "scan" PROVE ScanInv'
      BY DEF ScanInv, Loading, Return
    <2>1. (call.name = "uboot" /\ ForUboot1Header) \/ (ForUboot2 /\ ~ok)
      BY DEF Return, CallInv, ForUboot1Header, TypeOK, Call
    <2>2. i \in Entry /\ i' = i + 1 /\ call.blk = disk.part[i]
      BY <2>1 DEF Return, CallInv, GptInv, NextEntry, ForUboot1Header, TypeOK, Call
    <2>3. \A n \in Entry : n < i' <=> n < i \/ n = i
      BY <2>2 DEF Entry
    <2>4. CASE call.name = "uboot" /\ ForUboot1Header
      <3>1. \A n \in Entry : n < i => ~Headed(disk.part[n])
        BY <2>4 DEF ScanInv, ForUboot1Header
      <3>2. CASE ok
        <4>1. blk_start1' = disk.part[i] /\ blk_start1' # None
          BY <2>2, <2>4, <3>2, LbaAssumption
             DEF Return, KeepStart1, CallInv, ForUboot1Header, TypeOK, Disk
        <4>2. \A n \in Entry : Good(disk.part[n]) => Headed(disk.part[n])
          BY DEF Good, Headed, Whole
        <4>3. \A n \in Entry : n < i' /\ Good(disk.part[n])
                                   => disk.part[n] = blk_start1'
          BY <2>3, <3>1, <4>1, <4>2
        <4> QED
          BY <4>1, <4>3 DEF ScanInv, Good, Loading
      <3>3. CASE ~ok
        BY <2>2, <2>3, <2>4, <3>1, <3>3
           DEF ScanInv, Return, KeepStart1, Headed, Loading, ForUboot1Header
      <3> QED
        BY <3>2, <3>3
    <2>5. CASE ForUboot2 /\ ~ok
      <3>1. blk_start1 # None /\ blk_start1' = blk_start1
        BY <2>5 DEF CallInv, Return, KeepStart1, ForUboot1Header, ForUboot2
      <3>2. ~Good(disk.part[i])
        BY <2>2, <2>5 DEF Good, Limit, ForUboot2
      <3>3. \A n \in Entry : n < i /\ Good(disk.part[n])
                                   => disk.part[n] = blk_start1
        BY <2>5, <3>1 DEF ScanInv, ForUboot2
      <3> QED
        BY <2>3, <3>1, <3>2, <3>3 DEF ScanInv, Good, Headed, Loading
    <2> QED
      BY <2>1, <2>4, <2>5
  <1>7. CauseInv'
    <2> SUFFICES ASSUME NoFault', pc' = "return"
                 PROVE  ~WholeFip \/ \A n \in Entry : ~Good(disk.part[n])
      BY DEF CauseInv, WholeFip, Good
    <2>1. ~ok /\ ~call.only_load_hdr /\ ~ForUboot2
      BY DEF Return, ForUboot1Header, ForUboot2
    <2>2. CASE call.name = "fip"
      BY <2>1, <2>2 DEF CallInv, WholeFip, Limit
    <2>3. CASE call.name = "uboot"
      <3>1. i = 4 /\ call.blk = blk_start1 /\ blk_start1 # None
        BY <2>1, <2>3, LbaAssumption DEF CallInv, ForUboot2, TypeOK, Call
      <3>2. \A n \in Entry : Good(disk.part[n]) => disk.part[n] = blk_start1
        BY <2>1, <2>3, <3>1 DEF ScanInv, Entry
      <3> QED
        BY <2>1, <2>3, <3>1, <3>2 DEF Good, Limit
    <2> QED
      BY <2>2, <2>3 DEF TypeOK, Call
  <1> QED
    BY <1>1, <1>3, <1>4, <1>5, <1>6, <1>7

(* A failing operation is counted. *)
LEMMA FaultCounted ==
    ASSUME TypeOK, NEW op \in Operation, Fails(op)
    PROVE  faults' \in [Operation -> Nat] /\ ~NoFault'
  <1>1. faults' \in [Operation -> Nat] /\ faults'[op] = faults[op] + 1
    BY DEF TypeOK, Fails
  <1>2. \A o \in Operation : o # op => faults'[o] = faults[o]
    BY DEF TypeOK, Fails
  <1> QED
    BY <1>1, <1>2 DEF TypeOK, NoFault, TotalFaults, Operation

LEMMA ReadFailsStep == IInv /\ ReadFails => IInv'
  <1> SUFFICES ASSUME IInv, ReadFails PROVE IInv'
    OBVIOUS
  <1> USE DEF IInv, ReadFails
  <1>1. Loading /\ call.name \in {"uboot", "fip"} /\ call.name \in Operation
        /\ (call.only_load_hdr => call.name = "uboot")
    BY DEF Loading, TypeOK, Call, Operation, CallInv
  <1>2. faults' \in [Operation -> Nat] /\ ~NoFault'
    BY <1>1, FaultCounted
  <1>3. buf' \in [{"uboot", "fip"} -> Buffer]
        /\ \A n \in {"uboot", "fip"} : n # call.name => buf'[n] = buf[n]
    BY DEF TypeOK, Buffer, Empty
  <1> HIDE DEF IInv
  <1> QED
    BY <1>1, <1>2, <1>3, ReturnStep

LEMMA ReadHeaderStep == IInv /\ ReadHeader => IInv'
  <1> SUFFICES ASSUME IInv, ReadHeader PROVE IInv'
    OBVIOUS
  <1> DEFINE im == disk.img[call.blk]
             full == ~call.only_load_hdr
             small == im.size > 0 /\ im.size + HdrSize < Limit
             loaded == /\ HeaderOk(im, call.name) /\ small
                       /\ Remaining(im) <= 0 /\ image_check_dcrc(im, BlockSize)
             Returns(ok) ==
                 /\ Return(ok)
                 /\ call.only_load_hdr =>
                        (ok <=> HeaderOk(im, call.name) /\ im.size > 0)
                 /\ full => (ok <=> loaded)
                 /\ full /\ ~ok => ~Whole(im, call.name, Limit)
             GoesOn == /\ pc' = "read_body" /\ full /\ HeaderOk(im, call.name)
                       /\ small /\ Remaining(im) > 0
                       /\ UNCHANGED <<i, blk_start1, blk_start2>>
  <1> USE DEF IInv
  <1>1. /\ Loading /\ UNCHANGED <<disk, head, call>>
        /\ call.name \in {"uboot", "fip"} /\ call.blk \in Lba
        /\ im \in Image /\ im.size \in Nat /\ call.only_load_hdr \in BOOLEAN
        /\ (call.only_load_hdr => call.name = "uboot")
        /\ Remaining(im) \in Int
    BY SizeAssumption
       DEF ReadHeader, Loading, TypeOK, Call, Disk, Image, CallInv, Remaining, HdrSize
  <1>2. /\ faults' \in [Operation -> Nat]
        /\ NoFault' <=> NoFault
        /\ buf' \in [{"uboot", "fip"} -> Buffer]
        /\ buf'[call.name] = [src |-> call.blk, upto |-> BlockSize]
        /\ \A n \in {"uboot", "fip"} : n # call.name => buf'[n] = buf[n]
    BY <1>1, SizeAssumption
       DEF ReadHeader, Works, TypeOK, Buffer, NoFault, TotalFaults
  <1>3. ASSUME NEW ok \in BOOLEAN, Returns(ok) PROVE IInv'
    <2>1. ok /\ full => Loaded(buf'[call.name], call.name, Limit)
      BY <1>1, <1>2, <1>3, SizeAssumption, LbaAssumption
         DEF Loaded, Whole, Remaining, image_check_dcrc, HdrSize
    <2>2. call.only_load_hdr => (ok <=> Headed(call.blk))
      BY <1>1, <1>3 DEF Headed
    <2> HIDE DEF IInv
    <2> QED
      BY <1>1, <1>2, <1>3, <2>1, <2>2, ReturnStep
  <1>4. CASE GoesOn
    <2>1. TypeOK' /\ GptInv'
      BY <1>1, <1>2, <1>4 DEF TypeOK, GptInv, Loading, Parts
    <2>2. CallInv'
      BY <1>1, <1>2, <1>4 DEF CallInv, Loading, ForUboot2, Limit, Remaining
    <2>3. Parts' = Parts
      BY <1>1 DEF Parts
    <2>4. LoadedInv' /\ CauseInv'
      BY <1>1, <1>2, <1>4, <2>3 DEF LoadedInv, Loaded, Loading, CauseInv
    <2>5. ScanInv'
      BY <1>1, <1>2, <1>4 DEF ScanInv, Loading, Good, Headed
    <2> QED
      BY <2>1, <2>2, <2>4, <2>5
  <1>5. \/ ~HeaderOk(im, call.name) /\ Return(FALSE)
        \/ HeaderOk(im, call.name) /\ ~full /\ Return(im.size > 0)
        \/ full /\ ~small /\ Return(FALSE)
        \/ /\ HeaderOk(im, call.name) /\ full /\ small /\ Remaining(im) <= 0
           /\ Return(image_check_dcrc(im, BlockSize))
        \/ GoesOn
    BY DEF ReadHeader
  <1>6. FALSE \in BOOLEAN /\ (im.size > 0) \in BOOLEAN
        /\ image_check_dcrc(im, BlockSize) \in BOOLEAN
    BY <1>1 DEF image_check_dcrc, Image
  <1> HIDE DEF IInv
  <1>7. CASE ~HeaderOk(im, call.name) /\ Return(FALSE)
    <2>1. Returns(FALSE)
      BY <1>7 DEF Whole
    <2> HIDE DEF Returns
    <2> QED
      BY <1>3, <1>6, <2>1
  <1>8. CASE HeaderOk(im, call.name) /\ ~full /\ Return(im.size > 0)
    <2>1. Returns(im.size > 0)
      BY <1>8
    <2> HIDE DEF Returns
    <2> QED
      BY <1>3, <1>6, <2>1
  <1>9. CASE full /\ ~small /\ Return(FALSE)
    <2>1. ~Whole(im, call.name, Limit)
      BY <1>1, <1>9, SizeAssumption DEF Whole, Limit, HdrSize
    <2>2. Returns(FALSE)
      BY <1>9, <2>1
    <2> HIDE DEF Returns
    <2> QED
      BY <1>3, <1>6, <2>2
  <1>10. CASE /\ HeaderOk(im, call.name) /\ full /\ small /\ Remaining(im) <= 0
              /\ Return(image_check_dcrc(im, BlockSize))
    <2>1. Whole(im, call.name, Limit) => image_check_dcrc(im, BlockSize)
      BY <1>1, <1>10, SizeAssumption DEF Whole, Remaining, image_check_dcrc, HdrSize
    <2>2. image_check_dcrc(im, BlockSize) <=> loaded
      BY <1>10
    <2>3. Returns(image_check_dcrc(im, BlockSize))
      BY <1>10, <2>1, <2>2
    <2> HIDE DEF Returns
    <2> QED
      BY <1>3, <1>6, <2>3
  <1> QED
    BY <1>4, <1>5, <1>7, <1>8, <1>9, <1>10

LEMMA ReadBodyStep == IInv /\ ReadBody => IInv'
  <1> SUFFICES ASSUME IInv, ReadBody PROVE IInv'
    OBVIOUS
  <1> DEFINE im == disk.img[call.blk]
             upto == BlockSize + Blocks(Remaining(im)) * BlockSize
             ok == image_check_dcrc(im, upto)
  <1> USE DEF IInv
  <1>1. /\ Loading /\ UNCHANGED <<disk, head, call>>
        /\ call.name \in {"uboot", "fip"} /\ call.blk \in Lba
        /\ im \in Image /\ im.size \in Nat /\ ~call.only_load_hdr
        /\ buf[call.name] = [src |-> call.blk, upto |-> BlockSize]
        /\ HeaderOk(im, call.name)
        /\ im.size > 0 /\ im.size + HdrSize < Limit
        /\ Remaining(im) > 0 /\ Remaining(im) \in Int
    BY SizeAssumption
       DEF ReadBody, Loading, TypeOK, Call, Disk, Image, CallInv, Remaining, HdrSize
  <1>2. upto \in Nat /\ upto >= HdrSize + im.size + SignSize
    BY <1>1, BlocksCover, SizeAssumption DEF Remaining, HdrSize
  <1>3. /\ faults' \in [Operation -> Nat]
        /\ NoFault' <=> NoFault
        /\ buf' = [buf EXCEPT ![call.name].upto = upto]
        /\ Return(ok)
    BY <1>1 DEF ReadBody, Works, TypeOK, NoFault, TotalFaults
  <1>4. /\ buf' \in [{"uboot", "fip"} -> Buffer]
        /\ buf'[call.name] = [src |-> call.blk, upto |-> upto]
        /\ \A n \in {"uboot", "fip"} : n # call.name => buf'[n] = buf[n]
    BY <1>1, <1>2, <1>3 DEF TypeOK, Buffer
  <1>5. ok \in BOOLEAN /\ (ok <=> Whole(im, call.name, Limit))
    BY <1>1, <1>2, SizeAssumption DEF Whole, image_check_dcrc, Image, HdrSize
  <1>6. ok => Loaded(buf'[call.name], call.name, Limit)
    BY <1>1, <1>2, <1>4, <1>5, LbaAssumption DEF Loaded
  <1> HIDE DEF IInv
  <1> QED
    BY <1>1, <1>3, <1>4, <1>5, <1>6, ReturnStep

-----------------------------------------------------------------------------
(* The invariant holds in every reachable state. *)
THEOREM Invariance == Spec => []IInv
  <1>1. IInv /\ [Next]_vars => IInv'
    <2> SUFFICES ASSUME IInv, [Next]_vars PROVE IInv'
      OBVIOUS
    <2>1. CASE UNCHANGED vars
      BY <2>1 DEF vars, IInv, TypeOK, GptInv, CallInv, LoadedInv, ScanInv,
                  CauseInv, Loading, Loaded, NoFault, TotalFaults, Parts, Good,
                  Headed, WholeFip, Limit, ForUboot2
    <2>2. CASE Terminated
      BY <2>1, <2>2 DEF Terminated
    <2> QED
      BY <2>1, <2>2, CardStep, ReadGptHeaderStep, ReadGptEntriesStep, CallStep,
         ReadHeaderStep, ReadBodyStep, ReadFailsStep DEF Next
  <1> QED
    BY InitIInv, <1>1, PTL DEF Spec

(* Every variable keeps its type: no index, block address or buffer size ever
   leaves its range. *)
THEOREM TypeCorrect == Spec => []TypeOK
  BY Invariance, PTL DEF IInv

(* A buffer handed to boot_uboot holds header, data and signature of one image,
   for every disk, sector size, image size and number of failures. *)
THEOREM SignatureIsLoaded == Spec => []SignatureLoaded
  <1>1. IInv => SignatureLoaded
    BY DEF IInv, LoadedInv, Loaded, SignatureLoaded
  <1> QED
    BY <1>1, Invariance, PTL

-----------------------------------------------------------------------------
(* Which u-boot runs, and what one failing read can hide *)

(* Only reads of a u-boot have failed, and one at most. *)
OnlyUboot == /\ faults["card"] = 0 /\ faults["gpt"] = 0 /\ faults["fip"] = 0
             /\ faults["uboot"] <= 1

(* The partitions the loop has passed by because a read failed *)
MayMiss == IF faults["uboot"] = 0 THEN {{}} ELSE {{m} : m \in Entry}

(* the loop looks for the first header, or for an update behind it *)
HeaderPhase == (pc = "scan" /\ blk_start1 = None) \/ (Loading /\ call.only_load_hdr)
UpdatePhase == \/ pc = "scan" /\ blk_start1 # None
               \/ Loading /\ call.name = "uboot" /\ ~call.only_load_hdr

(* u has the first header but for those missed *)
First(u, missed) ==
    /\ Headed(disk.part[u])
    /\ \A n \in Entry : n < u /\ Headed(disk.part[n]) => n \in missed

(* the result that UpdatePreferred asks for *)
Preferred ==
    \E u \in Entry :
        /\ First(u, {})
        /\ \/ /\ buf["uboot"].src = disk.part[u]
              /\ \A n \in Entry : n > u => ~Good(disk.part[n])
           \/ \E n \in Entry :
                 /\ n > u /\ Good(disk.part[n]) /\ buf["uboot"].src = disk.part[n]
                 /\ \A m \in Entry : u < m /\ m < n => ~Good(disk.part[m])

(* What the loop has passed, it has missed because of a failure, or it was
   nothing to load. *)
PassInv ==
    OnlyUboot =>
        /\ pc \in {"scan", "fip"} \/ Loading => head.ent = disk.part
        /\ HeaderPhase =>
               \E missed \in MayMiss :
                   \A n \in Entry : n < i /\ Headed(disk.part[n]) => n \in missed
        /\ UpdatePhase =>
               \E missed \in MayMiss, u \in Entry :
                   /\ First(u, missed) /\ u < i /\ blk_start1 = disk.part[u]
                   /\ \A n \in Entry : u < n /\ n < i /\ Good(disk.part[n]) => n \in missed
        /\ pc = "return" /\ disk.gpt /\ WholeFip =>
               \E missed \in MayMiss : \A n \in Entry : Good(disk.part[n]) => n \in missed
        /\ NoFault /\ (pc \in {"fip", "boot_uboot"} \/ (Loading /\ call.name = "fip")) =>
               Preferred

(* What a load says: of the header alone, or of all of the image. *)
LoadSays(ok) ==
    IF call.only_load_hdr
    THEN ok <=> Headed(call.blk)
    ELSE /\ ok <=> Whole(disk.img[call.blk], call.name, Limit)
         /\ buf'[call.name].src = call.blk

LoadEnds ==
    \/ /\ pc' = "read_body" /\ ~call.only_load_hdr
       /\ faults' = faults /\ UNCHANGED <<i, blk_start1, blk_start2>>
    \/ /\ faults' = faults
       /\ \E ok \in BOOLEAN : Return(ok) /\ LoadSays(ok)
    \/ Return(FALSE) /\ Fails(call.name)

LEMMA LoadResult ==
    ASSUME IInv, ReadHeader \/ ReadBody \/ ReadFails
    PROVE  /\ Loading /\ UNCHANGED <<disk, head, call>>
           /\ \A n \in {"uboot", "fip"} : n # call.name => buf'[n] = buf[n]
           /\ LoadEnds
  <1> DEFINE im == disk.img[call.blk]
             full == ~call.only_load_hdr
             small == im.size > 0 /\ im.size + HdrSize < Limit
  <1>1. CASE ReadFails
    <2>1. buf' = buf \/ buf' = [buf EXCEPT ![call.name] = Empty]
      BY <1>1 DEF ReadFails
    <2>2. \A n \in {"uboot", "fip"} : n # call.name => buf'[n] = buf[n]
      BY <2>1 DEF IInv, TypeOK
    <2>3. Loading /\ UNCHANGED <<disk, head, call>> /\ Fails(call.name) /\ Return(FALSE)
      BY <1>1 DEF ReadFails, Loading
    <2> QED
      BY <2>2, <2>3 DEF LoadEnds
  <1>2. CASE ReadBody
    <2> DEFINE upto == BlockSize + Blocks(Remaining(im)) * BlockSize
               ok == image_check_dcrc(im, upto)
    <2>1. /\ Loading /\ UNCHANGED <<disk, head, call>>
          /\ call.name \in {"uboot", "fip"}
          /\ im \in Image /\ im.size \in Nat /\ full
          /\ buf[call.name] = [src |-> call.blk, upto |-> BlockSize]
          /\ HeaderOk(im, call.name)
          /\ small /\ Remaining(im) > 0 /\ Remaining(im) \in Int
      <3>1. /\ Loading /\ UNCHANGED <<disk, head, call>> /\ call.name \in {"uboot", "fip"}
        BY <1>2 DEF ReadBody, Loading, IInv, TypeOK, Call
      <3>2. /\ im \in Image /\ im.size \in Nat
        BY <1>2, <3>1 DEF IInv, TypeOK, Call, Disk, Image
      <3>3. Remaining(im) \in Int
        BY <3>2, SizeAssumption DEF Remaining, HdrSize
      <3> QED
        BY <1>2, <3>1, <3>2, <3>3 DEF ReadBody, IInv, CallInv
    <2>2. upto \in Nat /\ upto >= HdrSize + im.size + SignSize
      BY <2>1, BlocksCover, SizeAssumption DEF Remaining, HdrSize
    <2>3. /\ faults' = faults /\ Return(ok)
          /\ buf' = [buf EXCEPT ![call.name].upto = upto]
      BY <1>2, <2>1 DEF ReadBody, Works
    <2>4. /\ buf'[call.name].src = call.blk
          /\ \A n \in {"uboot", "fip"} : n # call.name => buf'[n] = buf[n]
      BY <2>1, <2>3 DEF IInv, TypeOK, Buffer
    <2>5. ok \in BOOLEAN /\ (ok <=> Whole(im, call.name, Limit))
      BY <2>1, <2>2, SizeAssumption DEF Whole, image_check_dcrc, Image, HdrSize
    <2> HIDE DEF ok, upto
    <2>6. LoadSays(ok)
      BY <2>1, <2>4, <2>5 DEF LoadSays
    <2> QED
      BY <2>1, <2>3, <2>4, <2>5, <2>6 DEF LoadEnds
  <1>3. CASE ReadHeader
    <2>1. /\ Loading /\ UNCHANGED <<disk, head, call>>
          /\ call.name \in {"uboot", "fip"}
          /\ im \in Image /\ im.size \in Nat
          /\ Remaining(im) \in Int /\ faults' = faults
          /\ (call.only_load_hdr => call.name = "uboot")
      BY <1>3, SizeAssumption
         DEF ReadHeader, Works, Loading, IInv, TypeOK, Call, Disk, Image, CallInv, Remaining,
             HdrSize
    <2>2. /\ buf'[call.name].src = call.blk
          /\ \A n \in {"uboot", "fip"} : n # call.name => buf'[n] = buf[n]
      BY <1>3, <2>1 DEF ReadHeader, IInv, TypeOK
    <2>3. \/ ~HeaderOk(im, call.name) /\ Return(FALSE)
          \/ HeaderOk(im, call.name) /\ ~full /\ Return(im.size > 0)
          \/ full /\ ~small /\ Return(FALSE)
          \/ /\ HeaderOk(im, call.name) /\ full /\ small /\ Remaining(im) <= 0
             /\ Return(image_check_dcrc(im, BlockSize))
          \/ /\ pc' = "read_body" /\ full /\ UNCHANGED <<i, blk_start1, blk_start2>>
      BY <1>3 DEF ReadHeader
    <2>4. ASSUME NEW ok \in BOOLEAN, Return(ok), LoadSays(ok)
          PROVE  LoadEnds
      BY <2>1, <2>4 DEF LoadEnds
    <2>5. CASE ~HeaderOk(im, call.name) /\ Return(FALSE)
      <3>1. LoadSays(FALSE)
        BY <2>1, <2>2, <2>5 DEF LoadSays, Headed, Whole
      <3> QED
        BY <2>1, <2>2, <2>4, <2>5, <3>1
    <2>6. CASE HeaderOk(im, call.name) /\ ~full /\ Return(im.size > 0)
      <3>1. LoadSays(im.size > 0) /\ (im.size > 0) \in BOOLEAN
        BY <2>1, <2>6 DEF LoadSays, Headed
      <3> QED
        BY <2>1, <2>2, <2>4, <2>6, <3>1
    <2>7. CASE full /\ ~small /\ Return(FALSE)
      <3>1. ~Whole(im, call.name, Limit)
        BY <2>1, <2>7, SizeAssumption DEF Whole, Limit, HdrSize
      <3>2. LoadSays(FALSE)
        BY <2>2, <2>7, <3>1 DEF LoadSays
      <3> QED
        BY <2>1, <2>2, <2>4, <2>7, <3>2
    <2>8. CASE /\ HeaderOk(im, call.name) /\ full /\ small /\ Remaining(im) <= 0
               /\ Return(image_check_dcrc(im, BlockSize))
      <3> DEFINE ok == image_check_dcrc(im, BlockSize)
      <3>1. ok \in BOOLEAN /\ (ok <=> Whole(im, call.name, Limit))
        BY <2>1, <2>8, SizeAssumption
           DEF Whole, Remaining, image_check_dcrc, Image, HdrSize
      <3> HIDE DEF ok
      <3>2. LoadSays(ok)
        BY <2>2, <2>8, <3>1 DEF LoadSays
      <3> QED
        BY <2>1, <2>2, <2>4, <2>8, <3>1, <3>2 DEF ok
    <2>9. CASE pc' = "read_body" /\ full /\ UNCHANGED <<i, blk_start1, blk_start2>>
      BY <2>1, <2>2, <2>9 DEF LoadEnds
    <2> QED
      BY <2>3, <2>5, <2>6, <2>7, <2>8, <2>9
  <1> QED
    BY <1>1, <1>2, <1>3

(* a further failure can only be that of the one u-boot read *)
LEMMA OneFailure ==
    ASSUME TypeOK, NEW op \in Operation, Fails(op), OnlyUboot'
    PROVE  /\ op = "uboot" /\ OnlyUboot /\ NoFault
           /\ MayMiss = {{}} /\ MayMiss' = {{m} : m \in Entry}
  <1>1. faults'[op] = faults[op] + 1 /\ \A o \in Operation : faults[o] \in Nat
    BY DEF TypeOK, Fails
  <1>2. \A o \in Operation : o # op => faults'[o] = faults[o]
    BY DEF TypeOK, Fails
  <1>3. op = "uboot"
    BY <1>1, <1>2 DEF OnlyUboot, Operation
  <1>4. faults["uboot"] = 0 /\ faults'["uboot"] = 1
    BY <1>1, <1>3 DEF OnlyUboot, Operation
  <1>5. faults["card"] = 0 /\ faults["gpt"] = 0 /\ faults["fip"] = 0
    BY <1>2, <1>3 DEF OnlyUboot, Operation
  <1> QED
    BY <1>3, <1>4, <1>5 DEF OnlyUboot, NoFault, TotalFaults, MayMiss

LEMMA NothingMissed ==
    ASSUME TypeOK, OnlyUboot, NoFault
    PROVE  MayMiss = {{}}
  <1>1. \A o \in Operation : faults[o] \in Nat
    BY DEF TypeOK
  <1>2. faults["uboot"] = 0
    BY <1>1 DEF OnlyUboot, NoFault, TotalFaults, Operation
  <1> QED
    BY <1>2 DEF MayMiss

LEMMA MayMissSet == \A missed \in MayMiss : missed \subseteq Entry
  BY DEF MayMiss

(* what the operations before the loop and the calls leave *)
LEMMA PassBefore ==
    ASSUME IInv, PassInv, initDriver_SD \/ SetMMCPartitionNum \/ ReadGptHeader \/ ReadGptEntries
    PROVE  PassInv'
  <1>1. pc' \notin {"fip", "boot_uboot", "read_hdr", "read_body"} /\ disk' = disk
        /\ i = 0 /\ i' = 0 /\ blk_start1 = None /\ blk_start1' = None
    BY DEF initDriver_SD, SetMMCPartitionNum, ReadGptHeader, ReadGptEntries, IInv, CallInv
  <1> SUFFICES ASSUME OnlyUboot' PROVE PassInv'
    BY DEF PassInv
  <1>2. Works \/ \E op \in {"card", "gpt"} : Fails(op)
    BY DEF initDriver_SD, SetMMCPartitionNum, ReadGptHeader, ReadGptEntries
  <1>3. Works
    BY <1>2, OneFailure DEF IInv, Operation
  <1>4. pc' = "scan" => head' = Lba2
    BY <1>3, OneFailure
       DEF initDriver_SD, SetMMCPartitionNum, ReadGptHeader, ReadGptEntries, IInv, Operation
  <1>5. pc' = "return" => ~disk.gpt
    <2>1. CASE initDriver_SD \/ SetMMCPartitionNum
      BY <2>1, OneFailure DEF initDriver_SD, SetMMCPartitionNum, IInv, Operation
    <2>2. CASE ReadGptHeader
      <3>1. head' = Lba1
        BY <2>2, OneFailure DEF ReadGptHeader, IInv, Operation
      <3> QED
        BY <2>2, <3>1 DEF ReadGptHeader, Lba1
    <2>3. CASE ReadGptEntries
      BY <2>3 DEF ReadGptEntries
    <2> QED
      BY <2>1, <2>2, <2>3
  <1>6. \A n \in Entry : ~(n < i')
    BY <1>1 DEF Entry
  <1>7. \E missed : missed \in MayMiss'
    <2>1. CASE faults'["uboot"] = 0
      BY <2>1 DEF MayMiss
    <2>2. CASE faults'["uboot"] # 0
      <3>1. {0} \in {{m} : m \in Entry}
        BY DEF Entry
      <3> QED
        BY <2>2, <3>1 DEF MayMiss
    <2> QED
      BY <2>1, <2>2
  <1> QED
    BY <1>1, <1>4, <1>5, <1>6, <1>7 DEF PassInv, HeaderPhase, UpdatePhase, Loading, Lba2

LEMMA PassCall ==
    ASSUME IInv, PassInv,
           LookForUboot1 \/ LookForUboot2 \/ FallbackToUboot1 \/ BadUboot \/ LoadFip
    PROVE  PassInv'
  <1> SUFFICES ASSUME OnlyUboot' PROVE PassInv'
    BY DEF PassInv
  <1>1. disk' = disk /\ faults' = faults /\ head' = head /\ buf' = buf /\ i' = i
    BY DEF LookForUboot1, LookForUboot2, FallbackToUboot1, BadUboot, LoadFip
  <1>2. OnlyUboot /\ MayMiss' = MayMiss /\ (NoFault' <=> NoFault)
        /\ (Preferred' <=> Preferred) /\ WholeFip' = WholeFip
    BY <1>1 DEF OnlyUboot, MayMiss, NoFault, TotalFaults, Preferred, First, Headed, Good, WholeFip
  <1>3. \A n \in Entry : Headed(disk.part[n])' = Headed(disk.part[n])
                         /\ Good(disk.part[n])' = Good(disk.part[n])
    BY <1>1 DEF Headed, Good
  <1>4. CASE LookForUboot1
    <2>1. HeaderPhase /\ pc' = "read_hdr" /\ call'.only_load_hdr /\ call'.name = "uboot"
      BY <1>4 DEF LookForUboot1, CallLoad, HeaderPhase
    <2>2. head.ent = disk.part
      BY <1>2, <1>4 DEF PassInv, LookForUboot1
    <2>3. \E missed \in MayMiss :
             \A n \in Entry : n < i /\ Headed(disk.part[n]) => n \in missed
      BY <1>2, <2>1 DEF PassInv
    <2> QED
      BY <1>1, <1>2, <1>3, <2>1, <2>2, <2>3 DEF PassInv, HeaderPhase, UpdatePhase, Loading
  <1>5. CASE LookForUboot2 \/ FallbackToUboot1
    <2>1. UpdatePhase /\ pc' = "read_hdr" /\ ~call'.only_load_hdr /\ call'.name = "uboot"
          /\ blk_start1' = blk_start1
      BY <1>5 DEF LookForUboot2, FallbackToUboot1, CallLoad, UpdatePhase
    <2>2. head.ent = disk.part
      BY <1>2, <1>5 DEF PassInv, LookForUboot2, FallbackToUboot1
    <2>3. PICK missed \in MayMiss, u \in Entry :
             /\ First(u, missed) /\ u < i /\ blk_start1 = disk.part[u]
             /\ \A n \in Entry : u < n /\ n < i /\ Good(disk.part[n]) => n \in missed
      BY <1>2, <2>1 DEF PassInv
    <2>4. First(u, missed)'
      BY <1>1, <2>3 DEF First, Headed
    <2>5. \E missed1 \in MayMiss', u1 \in Entry :
             /\ First(u1, missed1)' /\ u1 < i' /\ blk_start1' = disk'.part[u1]
             /\ \A n \in Entry : u1 < n /\ n < i' /\ Good(disk.part[n])' => n \in missed1
      BY <1>1, <1>2, <1>3, <2>1, <2>3, <2>4
    <2> QED
      BY <1>1, <1>2, <2>1, <2>2, <2>5 DEF PassInv, HeaderPhase, UpdatePhase, Loading
  <1>6. CASE BadUboot
    <2>1. HeaderPhase /\ pc' = "return" /\ i = 4
      BY <1>6 DEF BadUboot, HeaderPhase, IInv, CallInv
    <2>2. \E missed \in MayMiss :
             \A n \in Entry : n < i /\ Headed(disk.part[n]) => n \in missed
      BY <1>2, <2>1 DEF PassInv
    <2>3. \E missed \in MayMiss : \A n \in Entry : Good(disk.part[n]) => n \in missed
      BY <2>1, <2>2 DEF Good, Headed, Whole, Entry
    <2> QED
      BY <1>1, <1>2, <1>3, <2>1, <2>3 DEF PassInv, HeaderPhase, UpdatePhase, Loading
  <1>7. CASE LoadFip
    <2>1. pc = "fip" /\ pc' = "read_hdr" /\ call'.name = "fip" /\ ~call'.only_load_hdr
      BY <1>7 DEF LoadFip, CallLoad
    <2> QED
      BY <1>1, <1>2, <2>1 DEF PassInv, HeaderPhase, UpdatePhase, Loading
  <1> QED
    BY <1>4, <1>5, <1>6, <1>7

(* which load is running, and where *)
LEMMA Running ==
    ASSUME IInv, PassInv, Loading, OnlyUboot
    PROVE  /\ head.ent = disk.part
           /\ \/ /\ ForUboot1Header /\ call.name = "uboot" /\ i \in Entry
                 /\ call.blk = disk.part[i] /\ blk_start1 = call.blk /\ blk_start1 # None
              \/ /\ ForUboot2 /\ ~ForUboot1Header /\ i \in Entry
                 /\ call.blk = disk.part[i] /\ Limit = UbootMax
              \/ /\ call.name = "uboot" /\ ~ForUboot1Header /\ ~ForUboot2 /\ i = 4
                 /\ call.blk = blk_start1 /\ Limit = UbootMax
              \/ /\ ForFip /\ ~ForUboot1Header /\ ~ForUboot2
                 /\ call.blk = FipLba /\ Limit = FipMax
  <1>1. head.ent = disk.part
    BY DEF PassInv
  <1>2. call.blk \in Lba /\ call.name \in {"uboot", "fip"} /\ call.blk # None
    BY LbaAssumption DEF IInv, TypeOK, Call
  <1> QED
    BY <1>1, <1>2 DEF IInv, CallInv, ForUboot1Header, ForUboot2, ForFip, Limit

(* A load that worked: what it has passed, it has looked at. *)
LEMMA PassLoadWorks ==
    ASSUME IInv, PassInv, Loading, UNCHANGED <<disk, head, call, faults>>,
           \A n \in {"uboot", "fip"} : n # call.name => buf'[n] = buf[n],
           NEW ok \in BOOLEAN, Return(ok), LoadSays(ok)
    PROVE  PassInv'
  <1> SUFFICES ASSUME OnlyUboot' PROVE PassInv'
    BY DEF PassInv
  <1>1. OnlyUboot /\ MayMiss' = MayMiss /\ (NoFault' <=> NoFault) /\ WholeFip' = WholeFip
    BY DEF OnlyUboot, MayMiss, NoFault, TotalFaults, WholeFip
  <1>2. \A n \in Entry : /\ Headed(disk.part[n])' = Headed(disk.part[n])
                         /\ Good(disk.part[n])' = Good(disk.part[n])
                         /\ \A missed : First(n, missed)' <=> First(n, missed)
    BY DEF Headed, Good, First
  <1>3. head.ent = disk.part /\ head'.ent = disk'.part
    BY <1>1, Running
  <1>4. pc' \notin {"read_hdr", "read_body"}
    BY DEF Return
  <1>5. CASE /\ ForUboot1Header /\ call.name = "uboot" /\ i \in Entry
             /\ call.blk = disk.part[i] /\ blk_start1 = call.blk /\ blk_start1 # None
    <2>1. HeaderPhase /\ pc' = "scan" /\ i' = i + 1 /\ (ok <=> Headed(disk.part[i]))
          /\ blk_start1' = IF ok THEN disk.part[i] ELSE None
      BY <1>5 DEF HeaderPhase, Return, NextEntry, KeepStart1, ForUboot1Header, LoadSays
    <2>2. PICK missed \in MayMiss :
             \A n \in Entry : n < i /\ Headed(disk.part[n]) => n \in missed
      BY <1>1, <2>1 DEF PassInv
    <2>3. CASE ok
      <3>1. First(i, missed) /\ i < i' /\ \A n \in Entry : ~(i < n /\ n < i')
        BY <1>5, <2>1, <2>2, <2>3 DEF First, Entry
      <3>2. \E missed1 \in MayMiss', u \in Entry :
               /\ First(u, missed1)' /\ u < i' /\ blk_start1' = disk'.part[u]
               /\ \A n \in Entry : u < n /\ n < i' /\ Good(disk.part[n])' => n \in missed1
        BY <1>1, <1>2, <1>5, <2>1, <2>3, <3>1
      <3>3. ~HeaderPhase'
        BY <1>5, <2>1, <2>3, <1>4 DEF HeaderPhase, Loading
      <3> QED
        BY <1>3, <1>4, <2>1, <3>2, <3>3 DEF PassInv, Loading
    <2>4. CASE ~ok
      <3>1. \A n \in Entry : n < i' /\ Headed(disk.part[n]) => n \in missed
        BY <1>5, <2>1, <2>2, <2>4 DEF Entry
      <3>2. ~UpdatePhase'
        BY <2>1, <2>4, <1>4 DEF UpdatePhase, Loading
      <3> QED
        BY <1>1, <1>2, <1>3, <1>4, <2>1, <3>1, <3>2 DEF PassInv, Loading
    <2> QED
      BY <2>3, <2>4
  <1>6. CASE /\ ForUboot2 /\ ~ForUboot1Header /\ i \in Entry
             /\ call.blk = disk.part[i] /\ Limit = UbootMax
    <2>1. UpdatePhase /\ call.name = "uboot" /\ (ok <=> Good(disk.part[i]))
          /\ buf'["uboot"].src = disk.part[i] /\ blk_start1' = blk_start1
          /\ pc' = (IF ok THEN "fip" ELSE "scan") /\ i' = (IF ok THEN i ELSE i + 1)
      BY <1>6 DEF UpdatePhase, Return, NextEntry, KeepStart1, ForUboot1Header, ForUboot2,
                  ForFip, LoadSays, Good
    <2>2. PICK missed \in MayMiss, u \in Entry :
             /\ First(u, missed) /\ u < i /\ blk_start1 = disk.part[u]
             /\ \A n \in Entry : u < n /\ n < i /\ Good(disk.part[n]) => n \in missed
      BY <1>1, <2>1 DEF PassInv
    <2>3. CASE ok
      <3>1. ASSUME NoFault PROVE Preferred'
        <4>1. missed = {}
          BY <1>1, <3>1, NothingMissed DEF IInv
        <4>2. PICK e \in Entry : e = i
          BY <1>6
        <4>3. \A m \in Entry : u < m /\ m < e => ~Good(disk.part[m])'
          BY <1>2, <2>2, <4>1, <4>2
        <4>4. Good(disk.part[e])' /\ First(u, {})' /\ buf'["uboot"].src = disk'.part[e]
              /\ e > u
          BY <1>2, <2>1, <2>2, <2>3, <4>1, <4>2
        <4> QED
          BY <4>3, <4>4 DEF Preferred
      <3> QED
        BY <1>1, <1>3, <1>4, <2>1, <2>3, <3>1 DEF PassInv, HeaderPhase, UpdatePhase, Loading
    <2>4. CASE ~ok
      <3>1. \A n \in Entry : u < n /\ n < i' /\ Good(disk.part[n]) => n \in missed
        BY <1>6, <2>1, <2>2, <2>4 DEF Entry
      <3>2. u < i'
        BY <1>6, <2>1, <2>2, <2>4 DEF Entry
      <3>3. \E missed1 \in MayMiss', u1 \in Entry :
               /\ First(u1, missed1)' /\ u1 < i' /\ blk_start1' = disk'.part[u1]
               /\ \A n \in Entry : u1 < n /\ n < i' /\ Good(disk.part[n])' => n \in missed1
        BY <1>1, <1>2, <2>1, <2>2, <3>1, <3>2
      <3>4. ~HeaderPhase'
        <4>1. blk_start1 # None
          BY LbaAssumption, <2>2 DEF IInv, TypeOK, Disk
        <4> QED
          BY <1>4, <2>1, <4>1 DEF HeaderPhase, Loading
      <3> QED
        BY <1>3, <1>4, <2>1, <2>4, <3>3, <3>4 DEF PassInv, Loading
    <2> QED
      BY <2>3, <2>4
  <1>7. CASE /\ call.name = "uboot" /\ ~ForUboot1Header /\ ~ForUboot2 /\ i = 4
             /\ call.blk = blk_start1 /\ Limit = UbootMax
    <2>1. UpdatePhase /\ (ok <=> Good(blk_start1)) /\ buf'["uboot"].src = blk_start1
          /\ pc' = (IF ok THEN "fip" ELSE "return")
      BY <1>7 DEF UpdatePhase, Return, ForUboot1Header, ForFip, LoadSays, Good
    <2>2. PICK missed \in MayMiss, u \in Entry :
             /\ First(u, missed) /\ u < i /\ blk_start1 = disk.part[u]
             /\ \A n \in Entry : u < n /\ n < i /\ Good(disk.part[n]) => n \in missed
      BY <1>1, <2>1 DEF PassInv
    <2>3. \A n \in Entry : n > u /\ Good(disk.part[n]) => n \in missed
      BY <1>7, <2>2 DEF Entry
    <2>4. CASE ok
      <3>1. ASSUME NoFault PROVE Preferred'
        <4>1. missed = {}
          BY <1>1, <3>1, NothingMissed DEF IInv
        <4>2. \A n \in Entry : n > u => ~Good(disk.part[n])'
          BY <1>2, <2>3, <4>1
        <4>3. First(u, {})' /\ buf'["uboot"].src = disk'.part[u]
          BY <1>2, <2>1, <2>2, <4>1
        <4> QED
          BY <4>2, <4>3 DEF Preferred
      <3> QED
        BY <1>1, <1>3, <1>4, <2>1, <2>4, <3>1 DEF PassInv, HeaderPhase, UpdatePhase, Loading
    <2>5. CASE ~ok
      <3>1. \A n \in Entry : Good(disk.part[n]) => n \in missed
        <4>1. ASSUME NEW n \in Entry, Good(disk.part[n]) PROVE n \in missed
          <5>1. n < u \/ n = u \/ n > u
            BY DEF Entry
          <5>2. CASE n < u
            BY <2>2, <4>1, <5>2 DEF First, Good, Headed, Whole
          <5> QED
            BY <2>1, <2>2, <2>3, <2>5, <4>1, <5>1, <5>2
        <4> QED
          BY <4>1
      <3> QED
        BY <1>1, <1>2, <1>4, <2>1, <2>5, <3>1 DEF PassInv, HeaderPhase, UpdatePhase, Loading
    <2> QED
      BY <2>4, <2>5
  <1>8. CASE /\ ForFip /\ ~ForUboot1Header /\ ~ForUboot2
             /\ call.blk = FipLba /\ Limit = FipMax
    <2>1. (ok <=> WholeFip) /\ buf'["uboot"] = buf["uboot"] /\ call.name = "fip"
          /\ pc' = (IF ok THEN "boot_uboot" ELSE "return")
      BY <1>8 DEF Return, ForUboot1Header, ForFip, LoadSays, WholeFip
    <2>2. NoFault => Preferred
      BY <1>1, <2>1 DEF PassInv
    <2>3. Preferred => Preferred'
      BY <1>2, <2>1 DEF Preferred
    <2> QED
      BY <1>1, <1>4, <2>1, <2>2, <2>3 DEF PassInv, HeaderPhase, UpdatePhase, Loading
  <1> QED
    BY <1>1, <1>5, <1>6, <1>7, <1>8, Running

(* A load that failed: the one partition it was about may be missed. *)
LEMMA PassLoadFails ==
    ASSUME IInv, PassInv, Loading, UNCHANGED <<disk, head, call>>,
           Return(FALSE), Fails(call.name)
    PROVE  PassInv'
  <1> SUFFICES ASSUME OnlyUboot' PROVE PassInv'
    BY DEF PassInv
  <1>1. /\ call.name = "uboot" /\ OnlyUboot /\ NoFault /\ ~NoFault'
        /\ MayMiss = {{}} /\ MayMiss' = {{m} : m \in Entry}
    <2>1. call.name \in Operation
      BY DEF IInv, TypeOK, Call, Operation
    <2> QED
      BY <2>1, OneFailure, FaultCounted DEF IInv
  <1>2. \A n \in Entry : /\ Headed(disk.part[n])' = Headed(disk.part[n])
                         /\ Good(disk.part[n])' = Good(disk.part[n])
                         /\ \A missed : First(n, missed)' <=> First(n, missed)
    BY DEF Headed, Good, First
  <1>3. head.ent = disk.part /\ head'.ent = disk'.part
    BY <1>1, Running
  <1>4. pc' \notin {"read_hdr", "read_body"}
    BY DEF Return
  <1>5. CASE /\ ForUboot1Header /\ call.name = "uboot" /\ i \in Entry
             /\ call.blk = disk.part[i] /\ blk_start1 = call.blk /\ blk_start1 # None
    <2>1. HeaderPhase /\ pc' = "scan" /\ i' = i + 1 /\ blk_start1' = None
      BY <1>5 DEF HeaderPhase, Return, NextEntry, KeepStart1, ForUboot1Header
    <2>2. \A n \in Entry : n < i => ~Headed(disk.part[n])
      BY <1>1, <2>1 DEF PassInv
    <2>3. \A n \in Entry : n < i' /\ Headed(disk.part[n]) => n \in {i}
      BY <1>5, <2>1, <2>2 DEF Entry
    <2>4. {i} \in MayMiss'
      BY <1>1, <1>5
    <2>5. ~UpdatePhase'
      BY <2>1, <1>4 DEF UpdatePhase, Loading
    <2> QED
      BY <1>1, <1>2, <1>3, <1>4, <2>1, <2>3, <2>4, <2>5 DEF PassInv, Loading
  <1>6. CASE /\ ForUboot2 /\ ~ForUboot1Header /\ i \in Entry
             /\ call.blk = disk.part[i] /\ Limit = UbootMax
    <2>1. UpdatePhase /\ blk_start1' = blk_start1 /\ pc' = "scan" /\ i' = i + 1
      BY <1>6 DEF UpdatePhase, Return, NextEntry, KeepStart1, ForUboot1Header, ForUboot2
    <2>2. PICK u \in Entry :
             /\ First(u, {}) /\ u < i /\ blk_start1 = disk.part[u]
             /\ \A n \in Entry : u < n /\ n < i => ~Good(disk.part[n])
      BY <1>1, <2>1 DEF PassInv
    <2>3. \A n \in Entry : u < n /\ n < i' /\ Good(disk.part[n]) => n \in {i}
      BY <1>6, <2>1, <2>2 DEF Entry
    <2>4. u < i' /\ First(u, {i}) /\ {i} \in MayMiss'
      BY <1>1, <1>6, <2>1, <2>2 DEF Entry, First
    <2>5. \E missed1 \in MayMiss', u1 \in Entry :
             /\ First(u1, missed1)' /\ u1 < i' /\ blk_start1' = disk'.part[u1]
             /\ \A n \in Entry : u1 < n /\ n < i' /\ Good(disk.part[n])' => n \in missed1
      BY <1>2, <2>1, <2>2, <2>3, <2>4
    <2>6. ~HeaderPhase'
      <3>1. blk_start1 # None
        BY LbaAssumption, <2>2 DEF IInv, TypeOK, Disk
      <3> QED
        BY <1>4, <2>1, <3>1 DEF HeaderPhase, Loading
    <2> QED
      BY <1>1, <1>3, <1>4, <2>1, <2>5, <2>6 DEF PassInv, Loading
  <1>7. CASE /\ call.name = "uboot" /\ ~ForUboot1Header /\ ~ForUboot2 /\ i = 4
             /\ call.blk = blk_start1 /\ Limit = UbootMax
    <2>1. UpdatePhase /\ pc' = "return"
      BY <1>7 DEF UpdatePhase, Return, ForUboot1Header
    <2>2. PICK u \in Entry :
             /\ First(u, {})
             /\ \A n \in Entry : u < n /\ n < i => ~Good(disk.part[n])
      BY <1>1, <2>1 DEF PassInv
    <2>3. \A n \in Entry : Good(disk.part[n]) => n \in {u}
      <3>1. ASSUME NEW n \in Entry, Good(disk.part[n]) PROVE n = u
        <4>1. (n < u \/ n = u \/ u < n) /\ n < i
          BY <1>7 DEF Entry
        <4>2. ~(n < u)
          BY <2>2, <3>1 DEF First, Good, Headed, Whole
        <4> QED
          BY <2>2, <3>1, <4>1, <4>2
      <3> QED
        BY <3>1
    <2>4. {u} \in MayMiss'
      BY <1>1
    <2> QED
      BY <1>1, <1>2, <1>4, <2>1, <2>3, <2>4 DEF PassInv, HeaderPhase, UpdatePhase, Loading
  <1> QED
    BY <1>1, <1>5, <1>6, <1>7, Running DEF ForFip

LEMMA PassInit == Init => PassInv
  BY DEF Init, PassInv, HeaderPhase, UpdatePhase, Loading

LEMMA PassStep == IInv /\ PassInv /\ [Next]_vars => PassInv'
  <1> SUFFICES ASSUME IInv, PassInv, [Next]_vars PROVE PassInv'
    OBVIOUS
  <1>1. CASE UNCHANGED vars \/ Terminated
    <2>1. UNCHANGED <<disk, faults, pc, head, buf, i, blk_start1, blk_start2, call>>
      BY <1>1 DEF vars, Terminated
    <2> QED
      BY <2>1 DEF PassInv, OnlyUboot, MayMiss, HeaderPhase, UpdatePhase, First, Preferred,
                  Headed, Good, Loading, NoFault, TotalFaults, WholeFip
  <1>2. CASE ReadHeader \/ ReadBody \/ ReadFails
    <2>1. /\ Loading /\ UNCHANGED <<disk, head, call>>
          /\ \A n \in {"uboot", "fip"} : n # call.name => buf'[n] = buf[n]
          /\ LoadEnds
      BY <1>2, LoadResult
    <2>2. CASE /\ pc' = "read_body" /\ ~call.only_load_hdr
               /\ faults' = faults /\ UNCHANGED <<i, blk_start1, blk_start2>>
      <3>1. call.name # "uboot" => call.name = "fip" /\ buf'["uboot"] = buf["uboot"]
        BY <2>1 DEF IInv, TypeOK, Call
      <3> QED
        BY <2>1, <2>2, <3>1 DEF PassInv, OnlyUboot, MayMiss, HeaderPhase, UpdatePhase, First,
           Preferred, Headed, Good, Loading, NoFault, TotalFaults, WholeFip
    <2>3. CASE faults' = faults /\ \E ok \in BOOLEAN : Return(ok) /\ LoadSays(ok)
      BY <2>1, <2>3, PassLoadWorks
    <2>4. CASE Return(FALSE) /\ Fails(call.name)
      BY <2>1, <2>4, PassLoadFails
    <2> QED
      BY <2>1, <2>2, <2>3, <2>4 DEF LoadEnds
  <1> QED
    BY <1>1, <1>2, PassBefore, PassCall DEF Next

LEMMA PassAlways == Spec => []PassInv
  <1>1. IInv /\ PassInv /\ [Next]_vars => PassInv'
    BY PassStep
  <1> QED
    BY <1>1, PassInit, Invariance, PTL DEF Spec

(* When nothing fails the first whole u-boot behind the first partition with a
   u-boot header runs, and when there is none the one in that partition. *)
THEOREM UpdateIsPreferred == Spec => []UpdatePreferred
  <1>1. ASSUME IInv, PassInv PROVE UpdatePreferred
    <2> DEFINE headers == PartitionOf(LAMBDA im : HeaderOk(im, "uboot") /\ im.size > 0)
               uboot1 == CHOOSE n \in headers : \A m \in headers : n <= m
               updates == {n \in PartitionOf(WholeUboot) : n > uboot1}
               uboot2 == CHOOSE n \in updates : \A m \in updates : n <= m
    <2> SUFFICES ASSUME pc = "boot_uboot", NoFault
                 PROVE  buf["uboot"].src = disk.part[IF updates = {} THEN uboot1 ELSE uboot2]
      BY DEF UpdatePreferred, NoFault
    <2>1. Preferred
      <3>1. /\ faults["card"] \in Nat /\ faults["gpt"] \in Nat
            /\ faults["uboot"] \in Nat /\ faults["fip"] \in Nat
        BY <1>1 DEF IInv, TypeOK, Operation
      <3>2. faults["card"] + faults["gpt"] + faults["uboot"] + faults["fip"] = 0
        BY DEF NoFault, TotalFaults
      <3>3. OnlyUboot
        <4>1. \A a, b, c, d \in Nat : a + b + c + d = 0 => a = 0 /\ b = 0 /\ c = 0 /\ d = 0
          OBVIOUS
        <4>2. /\ faults["card"] = 0 /\ faults["gpt"] = 0
              /\ faults["uboot"] = 0 /\ faults["fip"] = 0
          BY <3>1, <3>2, <4>1
        <4> QED
          BY <4>2 DEF OnlyUboot
      <3> QED
        BY <1>1, <3>3 DEF PassInv
    <2>2. PICK u \in Entry :
              /\ First(u, {})
              /\ \/ /\ buf["uboot"].src = disk.part[u]
                    /\ \A n \in Entry : n > u => ~Good(disk.part[n])
                 \/ \E n \in Entry :
                       /\ n > u /\ Good(disk.part[n]) /\ buf["uboot"].src = disk.part[n]
                       /\ \A m \in Entry : u < m /\ m < n => ~Good(disk.part[m])
      BY <2>1 DEF Preferred
    <2>3. \A n \in Entry : n \in headers <=> Headed(disk.part[n])
      BY DEF PartitionOf, Headed
    <2>4. headers \subseteq Entry
      BY DEF PartitionOf
    <2> HIDE DEF headers
    <2>5. u \in headers /\ \A m \in headers : u <= m
      BY <2>2, <2>3, <2>4 DEF First, Entry
    <2>6. \A n \in headers : (\A m \in headers : n <= m) => n = u
      BY <2>4, <2>5 DEF Entry
    <2>7. uboot1 = u
      BY <2>5, <2>6
    <2> HIDE DEF uboot1
    <2>8. \A n : n \in updates <=> n \in Entry /\ Good(disk.part[n]) /\ n > u
      BY <2>7 DEF PartitionOf, WholeUboot, Good
    <2> HIDE DEF updates
    <2>9. CASE /\ buf["uboot"].src = disk.part[u]
               /\ \A n \in Entry : n > u => ~Good(disk.part[n])
      <3>1. updates = {}
        BY <2>8, <2>9
      <3> QED
        BY <2>7, <2>9, <3>1
    <2>10. ASSUME NEW e \in Entry,
                  e > u, Good(disk.part[e]), buf["uboot"].src = disk.part[e],
                  \A m \in Entry : u < m /\ m < e => ~Good(disk.part[m])
           PROVE  buf["uboot"].src = disk.part[IF updates = {} THEN uboot1 ELSE uboot2]
      <3>1. e \in updates /\ \A m \in updates : e <= m
        BY <2>8, <2>10 DEF Entry
      <3>2. \A n \in updates : (\A m \in updates : n <= m) => n = e
        BY <2>8, <3>1 DEF Entry
      <3>3. uboot2 = e
        BY <3>1, <3>2
      <3> QED
        BY <2>10, <3>1, <3>3
    <2> QED
      BY <2>2, <2>9, <2>10
  <1> QED
    BY <1>1, Invariance, PassAlways, PTL

(* With two whole u-boots on the disk and a whole fip, one failing read of a
   u-boot does not stop the boot, whichever read it is. *)
THEOREM OneCopyIsEnough == Spec => []OneCopyIsSpare
  <1>1. ASSUME IInv, PassInv PROVE OneCopyIsSpare
    <2> SUFFICES ASSUME pc = "return", faults["uboot"] <= 1,
                        \A op \in Operation \ {"uboot"} : faults[op] = 0,
                        disk.gpt, WholeFip
                 PROVE  \A m, n \in PartitionOf(WholeUboot) : m = n /\ faults["uboot"] = 1
      BY DEF OneCopyIsSpare
    <2>1. OnlyUboot
      BY DEF OnlyUboot, Operation
    <2>2. PICK missed \in MayMiss : \A n \in Entry : Good(disk.part[n]) => n \in missed
      BY <1>1, <2>1 DEF PassInv
    <2>3. \A n \in PartitionOf(WholeUboot) : n \in missed
      BY <2>2 DEF PartitionOf, WholeUboot, Good
    <2>4. faults["uboot"] \in Nat
      BY <1>1 DEF IInv, TypeOK, Operation
    <2>5. CASE faults["uboot"] = 0
      BY <2>3, <2>5 DEF MayMiss
    <2>6. CASE faults["uboot"] = 1
      <3>1. \A m, n \in missed : m = n
        BY <2>6 DEF MayMiss
      <3> QED
        BY <2>3, <2>6, <3>1
    <2> QED
      BY <2>4, <2>5, <2>6
  <1> QED
    BY <1>1, Invariance, PassAlways, PTL

-----------------------------------------------------------------------------
(* Every step of emmc_boot is a step of the promise, or none. *)

(* what the steps have in common, as far as the promise sees it *)
LEMMA PromiseSees ==
    ASSUME IInv, Next
    PROVE  /\ disk' = disk
           /\ TotalFaults \in Nat /\ TotalFaults' \in Nat
           /\ TotalFaults > 0 => TotalFaults' > 0
           /\ pc' = "boot_uboot" => TotalFaults' = TotalFaults
           /\ pc \in {"return", "boot_uboot"} => UNCHANGED vars
  <1> USE DEF Next, Terminated, vars
  <1>1. disk' = disk
    BY DEF initDriver_SD, SetMMCPartitionNum, ReadGptHeader, ReadGptEntries,
           LookForUboot1, LookForUboot2, FallbackToUboot1, BadUboot, LoadFip,
           ReadHeader, ReadBody, ReadFails
  <1>2. pc \in {"return", "boot_uboot"} => UNCHANGED vars
    BY DEF initDriver_SD, SetMMCPartitionNum, ReadGptHeader, ReadGptEntries,
           LookForUboot1, LookForUboot2, FallbackToUboot1, BadUboot, LoadFip,
           ReadHeader, ReadBody, ReadFails
  <1>3. \/ faults' = faults
        \/ /\ pc' # "boot_uboot"
           /\ \E op \in Operation : Fails(op)
    BY DEF initDriver_SD, SetMMCPartitionNum, ReadGptHeader, ReadGptEntries,
           LookForUboot1, LookForUboot2, FallbackToUboot1, BadUboot, LoadFip,
           ReadHeader, ReadBody, ReadFails, Return, Works, Operation, IInv,
           TypeOK, Call
  <1>4. TotalFaults \in Nat
    BY DEF IInv, TypeOK, TotalFaults, Operation
  <1>5. CASE faults' = faults
    BY <1>1, <1>2, <1>4, <1>5 DEF TotalFaults
  <1>6. CASE pc' # "boot_uboot" /\ \E op \in Operation : Fails(op)
    <2>1. faults' \in [Operation -> Nat] /\ ~NoFault'
      BY <1>6, FaultCounted DEF IInv
    <2>2. TotalFaults' \in Nat /\ TotalFaults' > 0
      <3> HIDE DEF Next, Terminated, vars
      <3>1. \A op \in Operation : faults'[op] \in Nat
        BY <2>1
      <3>2. /\ faults'["card"] \in Nat /\ faults'["gpt"] \in Nat
            /\ faults'["uboot"] \in Nat /\ faults'["fip"] \in Nat
        BY <3>1 DEF Operation
      <3>3. TotalFaults' # 0
        BY <2>1 DEF NoFault
      <3>4. TotalFaults' \in Nat
        BY <3>2 DEF TotalFaults
      <3> QED
        BY <3>3, <3>4
    <2> QED
      BY <1>1, <1>2, <1>4, <1>6, <2>2
  <1> QED
    BY <1>3, <1>5, <1>6

LEMMA PromiseStep == IInv /\ IInv' /\ Next => [Promise!Next]_(Promise!vars)
  <1> SUFFICES ASSUME IInv, IInv', Next
               PROVE  Promise!Next \/ UNCHANGED Promise!vars
    OBVIOUS
  <1> USE PromiseSees DEF Promise!vars, UsedPlaces
  <1>1. CASE pc \in {"return", "boot_uboot"}
    BY <1>1 DEF vars, TotalFaults
  <1>2. CASE pc \notin {"return", "boot_uboot"} /\ pc' \notin {"return", "boot_uboot"}
    BY <1>2 DEF Promise!Next, Promise!Fault
  <1>3. CASE pc \notin {"return", "boot_uboot"} /\ pc' = "return"
    <2>1. CASE TotalFaults' > 0
      BY <1>3, <2>1 DEF Promise!Next, Promise!Fault
    <2>2. CASE ~(TotalFaults' > 0)
      <3>1. disk.gpt => ~WholeFip \/ \A n \in Entry : ~Good(disk.part[n])
        BY <1>3, <2>2 DEF IInv, CauseInv, NoFault, Good, WholeFip
      <3>2. Promise!WholeUboots(UsedPlaces.uboot) = {}
            \/ Promise!WholeFips(UsedPlaces.fip) = {}
        BY <3>1 DEF UsedPlaces, Promise!WholeUboots, Promise!WholeFips, Promise!Whole,
           Promise!HeaderOk, Promise!HdrSize, Promise!image_check_magic,
           Promise!image_check_hcrc, Good, WholeFip, Whole, HeaderOk, HdrSize,
           image_check_magic, image_check_hcrc
      <3> QED
        BY <1>3, <2>2, <3>2 DEF Promise!Next, Promise!Refuse, Promise!WholeUboots,
           Promise!WholeFips
    <2> QED
      BY <2>1, <2>2
  <1>4. CASE pc \notin {"return", "boot_uboot"} /\ pc' = "boot_uboot"
    <2>1. /\ disk.gpt
          /\ buf'["uboot"].src \in Parts /\ buf'["fip"].src = FipLba
          /\ Good(buf'["uboot"].src) /\ WholeFip
      BY <1>4 DEF IInv, GptInv, LoadedInv, Loaded, Parts, Good, WholeFip
    <2>2. buf'["uboot"].src \in Promise!WholeUboots(UsedPlaces.uboot)
      BY <2>1 DEF UsedPlaces, Promise!WholeUboots, Promise!Whole, Promise!HeaderOk,
         Promise!HdrSize, Promise!image_check_magic, Promise!image_check_hcrc,
         Good, Whole, HeaderOk, HdrSize, image_check_magic, image_check_hcrc, Parts
    <2>3. buf'["fip"].src \in Promise!WholeFips(UsedPlaces.fip)
      BY <2>1 DEF UsedPlaces, Promise!WholeFips, Promise!Whole, Promise!HeaderOk,
         Promise!HdrSize, Promise!image_check_magic, Promise!image_check_hcrc,
         WholeFip, Whole, HeaderOk, HdrSize, image_check_magic, image_check_hcrc
    <2> QED
      BY <1>4, <2>2, <2>3 DEF Promise!Next, Promise!HandOver
  <1> QED
    BY <1>1, <1>2, <1>3, <1>4 DEF IInv, TypeOK

(* emmc_boot implements the promise of a loader: it hands over whole images
   from the places the disk names, or refuses for a reason. *)
THEOREM ImplementsPromise == Spec => KeepsPromise
  <1>1. Init => Promise!Init
    BY DisksAssumption, LbaAssumption
       DEF Init, Disk, UsedPlaces, Promise!Init, Promise!Nothing, TotalFaults, Operation,
           Image, Promise!Image, ImageName, Promise!ImageName
  <1>2. IInv /\ IInv' /\ [Next]_vars => [Promise!Next]_(Promise!vars)
    BY PromiseStep DEF vars, Promise!vars, TotalFaults, UsedPlaces
  <1> QED
    BY <1>1, <1>2, Invariance, PTL DEF Spec, KeepsPromise, Promise!Spec
=============================================================================
