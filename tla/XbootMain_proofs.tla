-------------------------- MODULE XbootMain_proofs --------------------------
(***************************************************************************)
(* Proofs about XbootMain for any set of boards, any number of faults, and *)
(* all limits of polls, packages and rounds.  Each part of xboot_main()    *)
(* has an invariant of its own, which the steps of the other parts leave   *)
(* alone.                                                                  *)
(***************************************************************************)
EXTENDS XbootMain, SequenceTheorems, TLAPS

(* Where the program is before boot_flow(), and inside it. *)
BusPc == {"i2c_fill", "i2c_write", "i2c_drain", "i2c_collect"}
BackPc == {"rt_wrote", "rt_read", "rt_set", "sti_id1", "sti_id2", "sti_set"}
EarlyPc == {"xboot_main", "init_hw", "i2c_error", "pllc", "pllc_set", "plll3_set",
            "npu", "video", "video_off", "init_done", "otp_handshake", "otp_rw",
            "otp_burn", "otp_burn_early", "otp_endless", "ldo_13", "ldo_14", "boot_flow"}
           \union BusPc \union BackPc
LoadPc == {"load_fip", "copy_fip", "load_uboot", "copy_uboot", "load"}
EntryPc == {"verify_uboot", "verify_fip", "run_bl31"}
FlowPc == {"round", "halt", "find_file", "init_device", "draminit", "cpio", "stopped",
           "check_mode", "boot_uboot", "reset"} \union LoadPc \union EntryPc \union Shells

-----------------------------------------------------------------------------
(* I2C: what a transfer has still to send *)

Script == CASE xfer.then = "rt_wrote" -> <<buf>>
            [] xfer.then = "rt_read"  -> <<READ>>
            [] xfer.then = "rt_set"   -> <<RT_VID>>
            [] xfer.then = "sti_id1"  -> <<3, READ>>
            [] xfer.then = "sti_id2"  -> <<4, READ>>
            [] xfer.then = "sti_set"  -> <<STI_VSEL0, 135>>

(* Only the controller of a running transfer is on.  What it has not sent is
   a rest of the transfer, and its first byte is where the chip's pointer is. *)
BusInv ==
    /\ pc \in BackPc => xfer.then = pc
    /\ pc \notin BusPc => bus = Quiet
    /\ pc \in BusPc => bus.on /\ xfer.then \in BackPc
    /\ bus.on /\ ~bus.abort =>
          \/ bus.first /\ <<bus.shift, bus.tx>> \in
                {<< <<>>, Script>>, << <<Script[1]>>, Tail(Script)>>}
          \/ ~bus.first /\ bus.shift = <<>> /\ bus.tx = <<>>
          \/ /\ ~bus.first /\ Len(Script) = 2
             /\ <<bus.shift, bus.tx>> \in {<< <<>>, Tail(Script)>>, <<Tail(Script), <<>> >>}
             /\ Script[1] # READ => chip.pointer = Script[1]
    /\ bus.on /\ bus.abort => bus.shift = <<>> /\ bus.tx = <<>>

(* The last ID that was read tells the chip, and the voltage is only written
   to that one. *)
Telling == {v \in Int : v = STI_ID2 => chip.kind = "STI8070X"}
ChipInv ==
    /\ chip.kind \in Chips
    /\ DOMAIN chip.regs = DOMAIN Regs(chip.kind)
    /\ bus.rx \in Seq(Int) /\ xfer.got \in Seq(Int)
    /\ xfer.then = "sti_id2" => bus.rx \in Seq(Telling) /\ xfer.got \in Seq(Telling)
    /\ xfer.then = "sti_set" => chip.kind = "STI8070X"
I2cInv == BusInv /\ ChipInv /\ OnlyVoltageWritten

-----------------------------------------------------------------------------
(* OTP: the bytes that have been taken off the list are burnt. *)
OtpInv ==
    /\ fuse \in [Addr -> BOOLEAN] /\ pkg \in Packages \union {None}
    /\ pc \in {"otp_burn", "otp_burn_early"} =>
           /\ pkg.cmd = "write" /\ todo \subseteq DOMAIN pkg.data
           /\ rlt => \A a \in DOMAIN pkg.data \ todo : pkg.data[a] => fuse[a]

-----------------------------------------------------------------------------
(* The link: the slave never starts anew, and the master not before the slave
   has released its PHY. *)
Waiting == {"wait", "analog", "phy", "done"}
TogetherInv ==
    /\ CpioTypeOK
    /\ line["slave"] => step["slave"] \in Waiting
    /\ phy["slave"] # "held" => step["slave"] \in {"phy", "done"}
    /\ step["master"] \in {"analog", "phy", "done"} => step["slave"] \in Waiting
    /\ phy["slave"] = "held" =>
           /\ phy["master"] \in {"held", "released"} /\ step["master"] # "done"
           /\ line["master"] => step["master"] \in {"analog", "phy"}
           /\ step["slave"] \in {"analog", "phy", "done"} => step["master"] \in {"analog", "phy"}
    /\ step["master"] = "off" => phy["master"] = "held"
    /\ step["master"] = "done" => phy["master"] \in {"passed", "failed"}
    /\ phy["master"] \in {"passed", "failed"} => phy["slave"] \in {"passed", "failed"}
LinkInv ==
    /\ TogetherInv
    /\ Mine = "slave" /\ pc \notin {"cpio", "stopped"} => step["slave"] = "off" /\ phy["slave"] = "held"
    /\ Mine = "master" /\ pc # "cpio" => step["master"] \in {"off", "done"}
    /\ pc = "cpio" => LinkBuilt
    /\ ~LinkBuilt => step["master"] = "off"

-----------------------------------------------------------------------------
(* boot_flow() *)

(* A loader other than the one of the flash finds the pins of the flash free. *)
DevicePins == CASE board.mode = "EMMC_BOOT" -> {"emmc"}
                [] board.mode = "SPINAND_BOOT" -> {SpiNand}
                [] board.mode = "PARA_NAND_BOOT" -> {"para"}
                [] OTHER -> {}
FatBooted == board.mode \in {"USB_ISP", "SDCARD_ISP"} /\ mode \in {"USB_BOOT", "SDCARD_BOOT"}
PinsInv ==
    /\ board \in Boards /\ pc \in EarlyPc \union FlowPc
    /\ mode = board.mode \/ FatBooted
    /\ pc \in EarlyPc => pins = {"nor"} /\ mode = board.mode
    /\ pins \subseteq {"nor"} \union DevicePins
    /\ pc \in FlowPc /\ board.int_boot /\ board.mode # "SPI_NOR_BOOT" => "nor" \notin pins

(* Behind the test of the memory it is sound, except in a FAT boot. *)
DramInv ==
    /\ pc = "check_mode" => FatMode
    /\ pc \in {"cpio", "boot_uboot"} \union LoadPc \union EntryPc =>
           FatMode \/ mode # board.mode \/ dram = Sound

(* Behind the look at a signature the image was signed, and is decrypted. *)
Verified(n) == /\ mem[n].signed
               /\ mem[n].form = IF board.encryption THEN "plain" ELSE "cipher"
SignInv ==
    /\ DOMAIN mem = Name
    /\ ~board.encryption => \A n \in Name : mem[n].form = "cipher"
    /\ board.secure /\ pc = "verify_fip" => Verified("uboot")
    /\ board.secure /\ pc = "run_bl31" => Verified("uboot") /\ Verified("fip")

(* The SPI NOR loader: what has been loaded when, and why a round failed. *)
Loaded(n) == mem[n].src = n /\ Whole(nor.img[n], n, FlashSize)
Copying(n) == /\ mem[n].src = n /\ HeaderOk(nor.img[n], n)
              /\ mem[n].got \in Nat /\ HdrSize <= mem[n].got
Refusable == faults > 0 \/ \E n \in Name : ~Whole(nor.img[n], n, FlashSize)
NorInv ==
    /\ faults \in Nat
    /\ nor.img \in [Name -> NorImages]
    /\ (board.secure => \A n \in Name : nor.img[n].size > 0 \/ nor.img[n] = NotAnImage)
    /\ retry \in 0..Retries /\ (pc \in EarlyPc => retry = Retries)
    /\ entered => pc \in EntryPc \union {"verify_shell", "halt", "reset"}
    /\ pc \in EntryPc \union {"verify_shell"} => entered
    /\ IsNor =>
          /\ pc \notin {"uart_shell", "find_file", "init_device", "check_mode", "load"}
          /\ pc = "copy_fip" => Copying("fip")
          /\ pc \in {"load_uboot", "copy_uboot", "boot_uboot"} \/ entered => Loaded("fip")
          /\ pc = "copy_uboot" => Copying("uboot")
          /\ pc = "boot_uboot" \/ entered => Loaded("uboot")
          /\ \/ pc \in {"nor_shell", "shell", "dram_shell"}
             \/ pc = "halt" /\ ~entered
             \/ pc = "round" /\ retry # Retries
             => Refusable

IInv == I2cInv /\ OtpInv /\ LinkInv /\ PinsInv /\ DramInv /\ SignInv /\ NorInv

-----------------------------------------------------------------------------
(* Which steps concern which part *)

(* A step of the driver of the I2C bus ends its transfer, or it goes on. *)
LEMMA DriverPc ==
    ASSUME BusInv, Driver
    PROVE  pc \in BusPc /\ pc' \in BusPc \union BackPc \union {"i2c_error"}
<1>1. pc \in BusPc => xfer.then \in BackPc
  BY DEF BusInv
<1>2. CASE WaitActive
  BY <1>1, <1>2 DEF WaitActive, Done, BusPc
<1>3. CASE WriteEnds
  BY <1>1, <1>3 DEF WriteEnds, Done, BusPc
<1>4. CASE DrainEnds
  BY <1>1, <1>4 DEF DrainEnds, Done, BusPc
<1>5. CASE Collect
  BY <1>1, <1>5 DEF Collect, Done, BusPc
<1> QED
  BY <1>2, <1>3, <1>4, <1>5 DEF Driver

LEMMA HwPc ==
    ASSUME HwStep
    PROVE  /\ pc \in EarlyPc \ {"xboot_main", "init_done", "boot_flow"} /\ pc \notin BusPc
           /\ pc' \in EarlyPc \ {"xboot_main", "boot_flow", "i2c_error"} /\ pc' \notin BackPc
           /\ pc' \notin {"otp_burn", "otp_burn_early"}
           /\ pc' \in BusPc => pc \in BackPc \union {"i2c_error", "init_hw"}
           /\ UNCHANGED <<board, faults>>
<1> USE DEF EarlyPc, BusPc, BackPc
<1>1. CASE Regulator
  BY <1>1 DEF Regulator, sp_i2c_write, sp_i2c_restart_one, Transfer, SetUpDone, Fine
<1>2. CASE RtWrote
  BY <1>2 DEF RtWrote, Returned, sp_i2c_read, RtNext, sp_i2c_write, Transfer, SetUpDone, Fine
<1>3. CASE RtRead
  BY <1>3 DEF RtRead, Returned, sp_i2c_write, Transfer, Fine
<1>4. CASE RtSet
  BY <1>4 DEF RtSet, Returned, RtNext, sp_i2c_write, Transfer, SetUpDone, Fine
<1>5. CASE StiId1
  BY <1>5 DEF StiId1, Returned, sp_i2c_restart_one, Transfer, Fine
<1>6. CASE StiId2
  BY <1>6 DEF StiId2, Returned, sp_i2c_write, Transfer, SetUpDone, Fine
<1>7. CASE StiSet
  BY <1>7 DEF StiSet, Returned, SetUpDone, Fine
<1>8. CASE SwitchClocks \/ NpuOff \/ VideoOff \/ VideoOn
  BY <1>8 DEF SwitchClocks, NpuOff, VideoOff, VideoOn, Fine
<1> QED
  BY <1>1, <1>2, <1>3, <1>4, <1>5, <1>6, <1>7, <1>8 DEF HwStep

LEMMA OtpPc ==
    ASSUME OtpNext
    PROVE  /\ pc \in EarlyPc \ {"boot_flow"} /\ pc \notin BusPc \union BackPc
           /\ pc' \in EarlyPc /\ pc' \notin BusPc \union BackPc
           /\ pc' \in {"otp_burn", "otp_burn_early"} =>
                  pc \in {"otp_handshake", "otp_rw", "otp_burn", "otp_burn_early"}
           /\ UNCHANGED board
<1> USE DEF EarlyPc, BusPc, BackPc
<1>1. CASE ReadMpBit
  BY <1>1 DEF ReadMpBit
<1>2. CASE MonRwOtp
  BY <1>2 DEF MonRwOtp
<1>3. CASE Parse
  BY <1>3 DEF Parse, Parsed
<1>4. CASE StartWrite
  BY <1>4 DEF StartWrite
<1>5. CASE Burn
  BY <1>5 DEF Burn
<1>6. CASE Written
  BY <1>6 DEF Written, Parsed
<1>7. CASE HandshakeExpires \/ Receive
  BY <1>7 DEF HandshakeExpires, Receive
<1>8. CASE CheckLdo13 \/ CheckLdo14
  BY <1>8 DEF CheckLdo13, CheckLdo14, CheckLdo
<1>9. CASE StartEndless \/ Endless
  BY <1>9 DEF StartEndless, Endless
<1> QED
  BY <1>1, <1>2, <1>3, <1>4, <1>5, <1>6, <1>7, <1>8, <1>9 DEF OtpNext, OtpStep

(* Before boot_flow() the program leaves the link, the memory and the loaders
   alone, and what goes on beside the program never moves it. *)
LEMMA EarlyStep ==
    ASSUME BusInv, HardwareInit \/ I2cTransfer \/ OneTime
    PROVE  /\ pc \in EarlyPc \ {"boot_flow"} /\ pc' \in EarlyPc
           /\ UNCHANGED <<board, cpio, flow>>
<1>1. CASE HardwareInit
  BY <1>1, HwPc DEF HardwareInit
<1>2. CASE I2cTransfer
  BY <1>2, DriverPc DEF I2cTransfer, EarlyPc, BusPc
<1>3. CASE OneTime
  BY <1>3, OtpPc DEF OneTime
<1> QED
  BY <1>1, <1>2, <1>3

LEMMA BusStep ==
    ASSUME Controller
    PROVE  UNCHANGED <<xfer, pc>>
BY DEF Controller, Begin, Shift, MoveByte, Nack, Stop, Hang

LEMMA PeerPc ==
    ASSUME PeerStep
    PROVE  UNCHANGED <<pc, board, faults>>
BY DEF PeerStep, Function, PinLow, Wait, Release, Status, At, Fine

LEMMA SideStep ==
    ASSUME I2cBus \/ Phys \/ OtherChip
    PROVE  UNCHANGED <<board, pc, flow>>
<1>1. CASE I2cBus
  BY <1>1, BusStep DEF I2cBus
<1>2. CASE Phys
  BY <1>2 DEF Phys, Train
<1>3. CASE OtherChip
  BY <1>3, PeerPc DEF OtherChip
<1> QED
  BY <1>1, <1>2, <1>3

LEMMA LinkPc ==
    ASSUME CpioStep
    PROVE  pc = "cpio" /\ UNCHANGED <<pc, board, faults>>
BY DEF CpioStep, Function, PinLow, Wait, Release, Status, At, Fine

(* Inside boot_flow() the rest is over. *)
LEMMA FlowPcs ==
    ASSUME Boot \/ Operator
    PROVE  /\ pc \in FlowPc \union {"boot_flow"} /\ pc' \in FlowPc
           /\ UNCHANGED <<board, i2c, hw, otp>>
<1> USE DEF FlowPc, LoadPc, EntryPc, Shells, Goto, Quietly, Fine
<1>1. CASE EnterFlow \/ Round \/ Halt
  BY <1>1 DEF EnterFlow, Round, Halt, Boot, Operator
<1>2. CASE OpenDevice \/ CpioReturns \/ CheckMode \/ Load
  BY <1>2 DEF OpenDevice, CpioReturns, CheckMode, Load, Loader, Boot, Operator
<1>3. CASE RunDramInit
  BY <1>3 DEF RunDramInit, cpio_call, Loader, Boot, Operator
<1>4. CASE NorHeader \/ NorCopy
  BY <1>4 DEF NorHeader, NorCopy, Loading, Boot, Operator
<1>5. CASE BootUboot \/ VerifyUboot \/ VerifyFip
  BY <1>5 DEF BootUboot, VerifyUboot, VerifyFip, Verify, NextImage, Boot, Operator
<1>6. CASE Quit \/ BootReset
  BY <1>6 DEF Quit, BootReset, AfterBadDram, Loader, Boot, Operator
<1> QED
  BY <1>1, <1>2, <1>3, <1>4, <1>5, <1>6 DEF Boot, Operator, FlowStep

-----------------------------------------------------------------------------
(* boot_flow(): pins, memory, signatures *)

LEMMA PcFacts == EarlyPc \cap FlowPc = {} /\ "boot_flow" \in EarlyPc /\ "round" \in FlowPc
BY DEF EarlyPc, FlowPc, BusPc, BackPc, LoadPc, EntryPc, Shells

LEMMA PinsInit == Init => PinsInv
BY DEF Init, BoardInit, FlowInit, PinsInv, EarlyPc, FlowPc, LoadPc, EntryPc, Shells, BusPc, BackPc

LEMMA PinsStep ==
    ASSUME PinsInv, DramInv, BusInv, Next
    PROVE  PinsInv'
<1>1. CASE HardwareInit \/ I2cTransfer \/ OneTime
  BY <1>1, EarlyStep, PcFacts DEF PinsInv, flow, DevicePins, FatBooted, SpiNand
<1>2. CASE I2cBus \/ Phys \/ OtherChip
  BY <1>2, SideStep DEF PinsInv, flow, DevicePins, FatBooted, SpiNand
<1>3. CASE Link
  BY <1>3, LinkPc DEF Link, PinsInv, flow, DevicePins, FatBooted, SpiNand
<1>4. CASE Boot \/ Operator
  <2>1. pc' \in FlowPc /\ UNCHANGED board /\ pc' \notin EarlyPc
    BY <1>4, FlowPcs, PcFacts
  <2>2. board.mode \in Mode /\ board.int_boot \in BOOLEAN
    BY BoardAssumption DEF PinsInv
  <2>3. CASE EnterFlow
    BY <2>1, <2>2, <2>3, PcFacts DEF EnterFlow, Released, PinsInv, DevicePins, FatBooted, SpiNand
  <2>4. CASE Round
    <3>1. pc = "round" /\ pins' = SetBootDev(mode) /\ mode' = mode
      BY <2>4 DEF Round
    <3>2. pc \in FlowPc /\ pc \notin EarlyPc
      BY <3>1, PcFacts
    <3>3. pins' \subseteq pins \union DevicePins
      BY <2>2, <3>1 DEF SetBootDev, PinsInv, DevicePins, FatBooted, SpiNand
    <3>4. "nor" \notin DevicePins
      BY DEF DevicePins, SpiNand
    <3>5. UNCHANGED <<DevicePins, FatBooted>>
      BY <2>1, <3>1 DEF DevicePins, FatBooted, SpiNand
    <3> QED
      BY <2>1, <3>1, <3>2, <3>3, <3>4, <3>5 DEF PinsInv
  <2>5. CASE CheckMode
    <3>1. pins' = pins /\ pc = "check_mode" /\ mode' \in {mode, "USB_BOOT", "SDCARD_BOOT"}
      BY <2>5 DEF CheckMode
    <3>2. FatMode /\ pc \in FlowPc
      BY <3>1 DEF DramInv, FlowPc
    <3>3. board.mode \in {"USB_ISP", "SDCARD_ISP"}
      BY <3>2 DEF PinsInv, FatMode, FatBooted
    <3> QED
      BY <2>1, <3>1, <3>2, <3>3 DEF PinsInv, DevicePins, FatBooted, FatMode, SpiNand
  <2>6. CASE Halt \/ OpenDevice \/ RunDramInit \/ CpioReturns \/ Load \/ NorHeader
             \/ NorCopy \/ BootUboot \/ VerifyUboot \/ VerifyFip \/ Quit \/ BootReset
    <3>1. UNCHANGED <<pins, mode>> /\ pc \in FlowPc
      BY <2>6 DEF Halt, OpenDevice, RunDramInit, CpioReturns, Load, NorHeader, NorCopy, BootUboot,
                  VerifyUboot, VerifyFip, Verify, Quit, BootReset, flow, FlowPc, LoadPc, EntryPc,
                  Shells
    <3> QED
      BY <2>1, <3>1 DEF PinsInv, DevicePins, FatBooted, SpiNand
  <2> QED
    BY <1>4, <2>3, <2>4, <2>5, <2>6 DEF Boot, Operator, FlowStep
<1> QED
  BY <1>1, <1>2, <1>3, <1>4 DEF Next

LEMMA DramInit == Init => DramInv
BY DEF Init, BoardInit, DramInv, LoadPc, EntryPc

(* The test finds every defect of the memory, and no other. *)
LEMMA DramTestFindsAll ==
    ASSUME NEW d \in Defects
    PROVE  dram_test(d) <=> d # Sound
<1>1. dram_test(Sound) = FALSE
  BY DEF dram_test, ReadBack, Sound, Expect
<1>2. ASSUME d \in Stuck PROVE dram_test(d)
  <2>1. /\ d.what = "stuck" /\ d.addr \in Word /\ d.bit \in 0..1 /\ d.at \in 0..1
    BY <1>2 DEF Stuck
  <2>2. \A w \in Word, b \in 0..1 : Bit(w, b) \in 0..1 /\ Bit(3 - w, b) = 1 - Bit(w, b)
    BY DEF Bit, Weight, Word
  <2>3. ASSUME NEW flip \in 1..2, Bit(Expect(flip)[d.addr], d.bit) # d.at,
               Expect(flip)[d.addr] \in Word
        PROVE  ReadBack(d, Expect(flip)) # Expect(flip)
    <3>1. ReadBack(d, Expect(flip))[d.addr] =
              Expect(flip)[d.addr] + (d.at - Bit(Expect(flip)[d.addr], d.bit)) * Weight(d.bit)
      BY <2>1 DEF ReadBack
    <3> DEFINE v == Expect(flip)[d.addr]
    <3>2. v \in Word /\ Bit(v, d.bit) \in 0..1 /\ Bit(v, d.bit) # d.at
      BY <2>1, <2>2, <2>3
    <3>3. (d.at - Bit(v, d.bit)) * Weight(d.bit) \in {-2, -1, 1, 2}
      BY <2>1, <3>2 DEF Weight
    <3> HIDE DEF v
    <3>4. v + (d.at - Bit(v, d.bit)) * Weight(d.bit) # v
      BY <3>2, <3>3 DEF Word
    <3> QED
      BY <3>1, <3>4 DEF v
  <2>4. /\ Expect(1)[d.addr] = 3 - d.addr /\ Expect(2)[d.addr] = d.addr
        /\ 3 - d.addr \in Word
    BY <2>1 DEF Expect, Word
  <2>5. Bit(d.addr, d.bit) # d.at \/ Bit(3 - d.addr, d.bit) # d.at
    BY <2>1, <2>2
  <2> QED
    BY <2>1, <2>3, <2>4, <2>5 DEF dram_test
<1>3. ASSUME d \in Alias PROVE dram_test(d)
  <2>1. d.what = "alias" /\ d.addr \in Word /\ d.as \in Word /\ d.addr # d.as
    BY <1>3 DEF Alias
  <2>2. Expect(2) = [a \in Word |-> a]
    BY DEF Expect
  <2>3. ReadBack(d, Expect(2))[d.addr] = ReadBack(d, Expect(2))[d.as]
    BY <2>1 DEF ReadBack
  <2>4. Expect(2)[d.addr] # Expect(2)[d.as]
    BY <2>1, <2>2
  <2> QED
    BY <2>3, <2>4 DEF dram_test
<1> QED
  BY <1>1, <1>2, <1>3 DEF Defects, Sound, Stuck, Alias

LEMMA DramStep ==
    ASSUME PinsInv, DramInv, BusInv, Next
    PROVE  DramInv'
<1> USE DEF LoadPc, EntryPc
<1>1. CASE HardwareInit \/ I2cTransfer \/ OneTime
  BY <1>1, EarlyStep DEF DramInv, EarlyPc, BusPc, BackPc
<1>2. CASE I2cBus \/ Phys \/ OtherChip
  BY <1>2, SideStep DEF DramInv, flow, FatMode
<1>3. CASE Link
  BY <1>3, LinkPc DEF Link, DramInv, flow, FatMode
<1>4. CASE Boot \/ Operator
  <2>1. UNCHANGED board
    BY <1>4, FlowPcs
  <2>2. CASE EnterFlow \/ Round \/ Halt \/ OpenDevice
    BY <2>1, <2>2 DEF DramInv, EnterFlow, Round, Halt, OpenDevice, Goto, flow, FatMode
  <2>3. CASE RunDramInit
    <3>1. dram' \in Defects /\ UNCHANGED mode /\ pc = "draminit"
      BY <2>3 DEF RunDramInit
    <3>2. CASE dram_test(dram')
      BY <2>3, <3>2 DEF DramInv, RunDramInit, Goto
    <3>3. CASE ~dram_test(dram')
      <4>1. dram' = Sound
        BY <3>1, <3>3, DramTestFindsAll
      <4>2. pc' \in {"cpio", Loader}
        BY <2>3, <3>3 DEF RunDramInit, cpio_call
      <4> QED
        BY <3>1, <4>1, <4>2 DEF DramInv, Loader, FatMode
    <3> QED
      BY <3>2, <3>3
  <2>4. CASE CpioReturns
    BY <2>1, <2>4 DEF DramInv, CpioReturns, Goto, flow, FatMode, Loader
  <2>5. CASE CheckMode
    <3>1. FatMode /\ mode' \in {mode, "USB_BOOT", "SDCARD_BOOT"} /\ pc' = "load"
      BY <2>5 DEF DramInv, CheckMode, Goto
    <3>2. board.mode \in Mode
      BY BoardAssumption DEF PinsInv
    <3> QED
      BY <2>1, <3>1, <3>2 DEF DramInv, FatMode, Mode
  <2>6. CASE Load \/ NorHeader \/ NorCopy
    BY <2>1, <2>6 DEF DramInv, Load, NorHeader, NorCopy, Loading, Goto, FatMode
  <2>7. CASE BootUboot \/ VerifyUboot \/ VerifyFip
    BY <2>1, <2>7 DEF DramInv, BootUboot, VerifyUboot, VerifyFip, Verify, NextImage, ToVerify, Goto,
                      FatMode
  <2>8. CASE Quit \/ BootReset
    BY <2>1, <2>8 DEF DramInv, Quit, BootReset, AfterBadDram, Loader, Goto, flow, FatMode, Shells
  <2> QED
    BY <1>4, <2>2, <2>3, <2>4, <2>5, <2>6, <2>7, <2>8 DEF Boot, Operator, FlowStep
<1> QED
  BY <1>1, <1>2, <1>3, <1>4 DEF Next

LEMMA SignInit == Init => SignInv
BY DEF Init, BoardInit, FlowInit, SignInv, Unloaded

LEMMA SignStep ==
    ASSUME SignInv, BusInv, Next
    PROVE  SignInv'
<1>1. CASE HardwareInit \/ I2cTransfer \/ OneTime
  BY <1>1, EarlyStep DEF SignInv, flow, Verified, EarlyPc, BusPc, BackPc
<1>2. CASE I2cBus \/ Phys \/ OtherChip
  BY <1>2, SideStep DEF SignInv, flow, Verified
<1>3. CASE Link
  BY <1>3, LinkPc DEF Link, SignInv, flow, Verified
<1>4. CASE Boot \/ Operator
  <2>1. UNCHANGED board
    BY <1>4, FlowPcs
  <2>2. CASE EnterFlow \/ Round \/ Halt \/ OpenDevice \/ RunDramInit \/ CpioReturns \/ CheckMode
             \/ Quit \/ BootReset
    <3>1. UNCHANGED mem /\ pc' \notin EntryPc
      BY <2>2 DEF EnterFlow, Round, Halt, OpenDevice, RunDramInit, CpioReturns, CheckMode, Quit,
                  BootReset, cpio_call, AfterBadDram, Loader, Goto, flow, EntryPc
    <3> QED
      BY <2>1, <3>1 DEF SignInv, EntryPc
  <2>3. CASE Load
    <3>1. pc' \notin EntryPc
      BY <2>3 DEF Load, Goto, EntryPc
    <3>2. DOMAIN mem' = Name
      BY <2>3 DEF Load, SignInv
    <3>3. ASSUME ~board.encryption, NEW n \in Name PROVE mem'[n].form = "cipher"
      BY <2>3, <3>3 DEF Load, SignInv, Unloaded
    <3> QED
      BY <2>1, <3>1, <3>2, <3>3 DEF SignInv, EntryPc
  <2>4. CASE NorHeader \/ NorCopy
    <3>1. pc' \notin EntryPc
      BY <2>4 DEF NorHeader, NorCopy, Loading, Goto, EntryPc
    <3>2. DOMAIN mem' = Name
      BY <2>4 DEF NorHeader, NorCopy, SignInv
    <3>3. ASSUME ~board.encryption, NEW n \in Name PROVE mem'[n].form = "cipher"
      <4>1. mem[n].form = "cipher"
        BY <3>3 DEF SignInv
      <4>2. CASE NorHeader
        <5>1. \/ mem'[n].form = Unloaded.form
              \/ mem'[n] = mem[n]
          BY <4>2 DEF NorHeader, SignInv, Unloaded
        <5> QED
          BY <4>1, <5>1 DEF Unloaded
      <4>3. CASE NorCopy
        <5>1. \/ UNCHANGED mem
              \/ \E g : mem' = [mem EXCEPT ![Loading].got = g]
          BY <4>3 DEF NorCopy
        <5>2. mem'[n].form = mem[n].form
          <6>1. CASE UNCHANGED mem
            BY <6>1
          <6>2. ASSUME NEW g, mem' = [mem EXCEPT ![Loading].got = g]
                PROVE  mem'[n].form = mem[n].form
            <7>1. mem' = [mem EXCEPT ![Loading] = [mem[Loading] EXCEPT !.got = g]]
              BY <6>2
            <7>2. mem'[n] = IF n = Loading THEN [mem[Loading] EXCEPT !.got = g] ELSE mem[n]
              BY <7>1 DEF SignInv
            <7> QED
              BY <7>2
          <6> QED
            BY <5>1, <6>1, <6>2
        <5> QED
          BY <4>1, <5>2
      <4> QED
        BY <2>4, <4>2, <4>3
    <3> QED
      BY <2>1, <3>1, <3>2, <3>3 DEF SignInv, EntryPc
  <2>5. CASE BootUboot
    <3>1. UNCHANGED mem /\ pc' \in {"verify_uboot", "run_bl31"}
          /\ (board.secure => pc' = "verify_uboot")
      BY <2>5 DEF BootUboot, NextImage, ToVerify, Goto
    <3> QED
      BY <2>1, <3>1 DEF SignInv
  <2>6. ASSUME NEW n \in Name, Verify(n)
        PROVE  /\ DOMAIN mem' = Name
               /\ ~board.encryption => \A m \in Name : mem'[m].form = "cipher"
               /\ mem[n].signed => Verified(n)'
               /\ \A m \in Name : Verified(m) => Verified(m)'
    <3>1. mem' = [mem EXCEPT ![n].form = IF board.encryption THEN "plain" ELSE @]
      BY <2>6 DEF Verify
    <3>2. DOMAIN mem' = Name
      BY <3>1 DEF SignInv
    <3>3. mem'[n].signed = mem[n].signed
          /\ mem'[n].form = IF board.encryption THEN "plain" ELSE mem[n].form
      BY <3>1 DEF SignInv
    <3>4. \A m \in Name : m # n => mem'[m] = mem[m]
      BY <3>1 DEF SignInv
    <3> QED
      BY <2>1, <3>2, <3>3, <3>4 DEF SignInv, Verified
  <2>7. CASE VerifyUboot
    <3>1. Verify("uboot") /\ "uboot" \in Name
      BY <2>7 DEF VerifyUboot, Name
    <3>2. pc' = IF mem["uboot"].signed THEN "verify_fip" ELSE "verify_shell"
      BY <3>1 DEF Verify, NextImage, ToVerify, Goto
    <3> QED
      BY <2>1, <2>6, <3>1, <3>2 DEF SignInv
  <2>8. CASE VerifyFip
    <3>1. Verify("fip") /\ "fip" \in Name /\ "uboot" \in Name /\ pc = "verify_fip"
      BY <2>8 DEF VerifyFip, Name
    <3>2. pc' = IF mem["fip"].signed THEN "run_bl31" ELSE "verify_shell"
      BY <3>1 DEF Verify, NextImage, ToVerify, Goto
    <3> QED
      BY <2>1, <2>6, <3>1, <3>2 DEF SignInv
  <2> QED
    BY <1>4, <2>2, <2>3, <2>4, <2>5, <2>7, <2>8 DEF Boot, Operator, FlowStep
<1> QED
  BY <1>1, <1>2, <1>3, <1>4 DEF Next

-----------------------------------------------------------------------------
(* OTP *)

LEMMA OtpInvInit == Init => OtpInv
BY DEF Init, BoardInit, OtpInit, OtpInv

LEMMA OtpInvStep ==
    ASSUME OtpInv, BusInv, Next
    PROVE  OtpInv'
<1>1. CASE HardwareInit \/ I2cTransfer
  <2>1. pc' \notin {"otp_burn", "otp_burn_early"} /\ UNCHANGED otp
    BY <1>1, HwPc, DriverPc DEF HardwareInit, I2cTransfer, BusPc, BackPc
  <2> QED
    BY <2>1 DEF OtpInv, otp
<1>2. CASE I2cBus \/ Phys \/ OtherChip
  BY <1>2, SideStep DEF OtpInv, otp, I2cBus, Phys, OtherChip
<1>3. CASE Link
  BY <1>3, LinkPc DEF Link, OtpInv, otp
<1>4. CASE Boot \/ Operator
  BY <1>4, FlowPcs DEF OtpInv, otp, FlowPc, LoadPc, EntryPc, Shells
<1>5. CASE OneTime
  <2>1. CASE Burn
    <3>1. /\ pc \in {"otp_burn", "otp_burn_early"} /\ todo # {} /\ UNCHANGED <<pc, pkg>>
          /\ pkg.cmd = "write" /\ todo \subseteq DOMAIN pkg.data
      BY <2>1 DEF Burn, OtpInv
    <3>2. PICK a : /\ a = CHOOSE x \in todo : \A y \in todo : x <= y
                   /\ todo' = todo \ {a}
                   /\ \/ /\ rlt' = (rlt /\ TRUE)
                         /\ fuse' = [fuse EXCEPT ![a] = @ \/ pkg.data[a]]
                      \/ rlt' = (rlt /\ FALSE) /\ UNCHANGED fuse
      BY <2>1 DEF Burn, Result
    <3>3. DOMAIN pkg.data \subseteq Trims
      <4>1. pkg \in UNION {{Write(v) : v \in [r -> BOOLEAN]} : r \in Ranges}
        BY <3>1 DEF OtpInv, Packages, ReadOn, WriteOn, Connect, Disconnect, Bad, None, Read
      <4>2. PICK r \in Ranges : \E v \in [r -> BOOLEAN] : pkg = Write(v)
        BY <4>1
      <4> QED
        BY <4>2 DEF Write, Ranges
    <3>4. a \in todo /\ a \in Addr
      <4>1. todo \subseteq {13, 14} /\ todo # {}
        BY <3>1, <3>3 DEF Trims
      <4>2. 13 \in todo \/ todo = {14}
        BY <4>1
      <4>3. \E x \in todo : \A y \in todo : x <= y
        BY <4>1, <4>2
      <4>4. a \in todo
        BY <3>2, <4>3, Zenon
      <4> QED
        BY <4>1, <4>4 DEF Addr, Trims
    <3>5. fuse' \in [Addr -> BOOLEAN] /\ todo' \subseteq DOMAIN pkg.data
      BY <3>1, <3>2, <3>3, <3>4 DEF OtpInv, Trims
    <3>6. ASSUME rlt', NEW b \in DOMAIN pkg.data \ todo', pkg.data[b]
          PROVE  fuse'[b]
      <4>1. rlt /\ fuse' = [fuse EXCEPT ![a] = @ \/ pkg.data[a]] /\ b \in Addr
        BY <3>2, <3>3, <3>6 DEF Addr
      <4>2. CASE b = a
        BY <3>6, <4>1, <4>2 DEF OtpInv
      <4>3. CASE b # a
        <5>1. b \notin todo
          BY <3>2, <3>6, <4>3
        <5>2. fuse[b]
          BY <3>1, <3>6, <4>1, <5>1 DEF OtpInv
        <5> QED
          BY <4>1, <4>3, <5>2 DEF OtpInv
      <4> QED
        BY <4>2, <4>3
    <3> QED
      BY <3>1, <3>5, <3>6 DEF OtpInv
  <2>2. CASE StartWrite
    BY <2>2 DEF StartWrite, OtpInv
  <2>3. CASE Endless
    BY <2>3 DEF Endless, OtpInv
  <2>4. CASE OtpNext /\ ~Burn /\ ~StartWrite /\ ~Endless
    <3>1. /\ UNCHANGED fuse /\ pkg' \in Packages \union {None}
          /\ pc' \notin {"otp_burn", "otp_burn_early"}
      BY <2>4 DEF OtpInv, OtpNext, OtpStep, ReadMpBit, MonRwOtp, Parse, Parsed, Written,
         StartEndless, HandshakeExpires, CheckLdo13, CheckLdo14, CheckLdo, Receive, otp
    <3> QED
      BY <3>1 DEF OtpInv
  <2> QED
    BY <1>5, <2>1, <2>2, <2>3, <2>4 DEF OneTime
<1> QED
  BY <1>1, <1>2, <1>3, <1>4, <1>5 DEF Next

-----------------------------------------------------------------------------
(* The link *)

LEMMA LinkInit == Init => LinkInv
BY DEF Init, BoardInit, CpioInit, LinkInv, TogetherInv, CpioTypeOK, Role

(* One step of the function of either chip. *)
LEMMA FunctionStep ==
    ASSUME TogetherInv, NEW r \in Role, Function(r)
    PROVE  /\ TogetherInv'
           /\ step'[Peer(r)] = step[Peer(r)] /\ phy'[Peer(r)] = phy[Peer(r)]
           /\ step[r] # "off"
           /\ phy[r] = "held" /\ phy'[r] = "released" => step[Peer(r)] \in Waiting
<1> USE DEF Role, Peer, CpioTypeOK, TogetherInv, At, Waiting
<1>1. CASE PinLow(r)
  BY <1>1 DEF PinLow
<1>2. CASE Wait(r)
  <2>1. CASE r = "master"
    <3>1. CASE At(r, "low", "wait") /\ UNCHANGED <<line, phy>>
      BY <2>1, <3>1
    <3>2. CASE /\ At(r, "wait", "analog") /\ line' = [line EXCEPT ![r] = TRUE]
               /\ UNCHANGED phy /\ line[Peer(r)]
      BY <2>1, <3>2
    <3> QED
      BY <1>2, <2>1, <3>1, <3>2 DEF Wait, Seen
  <2>2. CASE r = "slave"
    BY <1>2, <2>2 DEF Wait, Seen
  <2> QED
    BY <2>1, <2>2
<1>3. CASE Release(r)
  <2>1. CASE r = "master"
    BY <1>3, <2>1 DEF Release
  <2>2. CASE r = "slave"
    BY <1>3, <2>2 DEF Release
  <2> QED
    BY <2>1, <2>2
<1>4. CASE Status(r)
  BY <1>4 DEF Status
<1> QED
  BY <1>1, <1>2, <1>3, <1>4 DEF Function

(* The master starts anew. *)
LEMMA MasterAgain ==
    ASSUME TogetherInv, step["master"] \in {"off", "done"}, UNCHANGED line,
           step' = [step EXCEPT !["master"] = "clock"],
           phy' = [phy EXCEPT !["master"] = "held"]
    PROVE  /\ TogetherInv'
           /\ step'["slave"] = step["slave"] /\ phy'["slave"] = phy["slave"]
BY DEF Role, CpioTypeOK, TogetherInv, Waiting

LEMMA SlaveStarts ==
    ASSUME TogetherInv, step["slave"] = "off", phy["slave"] = "held", UNCHANGED line,
           step' = [step EXCEPT !["slave"] = "clock"],
           phy' = [phy EXCEPT !["slave"] = "held"]
    PROVE  /\ TogetherInv'
           /\ step'["master"] = step["master"] /\ phy'["master"] = phy["master"]
BY DEF Role, CpioTypeOK, TogetherInv, Waiting

LEMMA LinkStep ==
    ASSUME PinsInv, LinkInv, BusInv, Next
    PROVE  LinkInv'
<1>1. CASE HardwareInit \/ I2cTransfer \/ OneTime
  BY <1>1, EarlyStep DEF LinkInv, TogetherInv, cpio, CpioTypeOK, Mine, LinkBuilt, EarlyPc, BusPc, BackPc
<1>2. CASE I2cBus
  BY <1>2, BusStep DEF I2cBus, LinkInv, TogetherInv, cpio, CpioTypeOK, Mine, LinkBuilt
<1>3. CASE Phys
  BY <1>3 DEF Phys, Train, LinkInv, TogetherInv, CpioTypeOK, Role, Waiting, Mine, LinkBuilt
<1>4. CASE Link
  <2>1. pc = "cpio" /\ UNCHANGED <<pc, board>> /\ Function(Mine)
    BY <1>4, LinkPc DEF Link, CpioStep
  <2>2. Mine \in Role
    BY <2>1, BoardAssumption DEF LinkInv, LinkBuilt, Mine, PinsInv, Role
  <2>3. TogetherInv'
    BY <2>1, <2>2, FunctionStep DEF LinkInv
  <2> QED
    BY <2>1, <2>3 DEF LinkInv, Mine, LinkBuilt
<1>5. CASE OtherChip
  <2>1. LinkBuilt /\ UNCHANGED <<pc, board>>
    BY <1>5, PeerPc DEF OtherChip, PeerStep
  <2>2. Mine \in Role
    BY <2>1, BoardAssumption DEF LinkBuilt, Mine, PinsInv, Role
  <2>3. CASE Function(Peer(Mine))
    <3>1. Peer(Mine) \in Role /\ Peer(Peer(Mine)) = Mine
      BY <2>2 DEF Peer, Role
    <3>2. TogetherInv' /\ step'[Mine] = step[Mine] /\ phy'[Mine] = phy[Mine]
      BY <2>3, <3>1, FunctionStep DEF LinkInv
    <3> QED
      BY <2>1, <3>2 DEF LinkInv, Mine, LinkBuilt
  <2>4. CASE At(Peer(Mine), "off", "clock") /\ UNCHANGED <<line, phy>>
    BY <2>1, <2>2, <2>4 DEF At, LinkInv, TogetherInv, CpioTypeOK, Role, Waiting, Mine, LinkBuilt, Peer
  <2>5. CASE /\ Mine = "slave" /\ At("master", "done", "clock") /\ UNCHANGED line
             /\ phy' = [phy EXCEPT !["master"] = "held"]
    <3>1. /\ TogetherInv' /\ step'["slave"] = step["slave"] /\ phy'["slave"] = phy["slave"]
      BY <2>5, MasterAgain DEF At, LinkInv
    <3> QED
      BY <2>1, <2>5, <3>1 DEF LinkInv, Mine, LinkBuilt
  <2> QED
    BY <1>5, <2>3, <2>4, <2>5 DEF OtherChip, PeerStep
<1>6. CASE Boot \/ Operator
  <2>1. UNCHANGED board /\ pc # "stopped"
    BY <1>6, FlowPcs DEF Boot, Operator, FlowStep, EnterFlow, Round, Halt, OpenDevice,
       RunDramInit, CpioReturns, CheckMode, Load, NorHeader, NorCopy, BootUboot, VerifyUboot,
       VerifyFip, Quit, BootReset, Shells
  <2>2. CASE UNCHANGED cpio /\ pc # "cpio" /\ pc' # "cpio"
    BY <2>1, <2>2 DEF LinkInv, TogetherInv, CpioTypeOK, cpio, Mine, LinkBuilt
  <2>3. CASE RunDramInit /\ pc' = "cpio"
    <3>1. /\ LinkBuilt /\ UNCHANGED line /\ pc = "draminit"
          /\ step' = [step EXCEPT ![Mine] = "clock"] /\ phy' = [phy EXCEPT ![Mine] = "held"]
      BY <2>3 DEF RunDramInit, cpio_call, Loader, Goto
    <3>2. Mine \in Role
      BY <3>1, BoardAssumption DEF LinkBuilt, Mine, PinsInv, Role
    <3>3. TogetherInv'
      BY <3>1, <3>2, MasterAgain, SlaveStarts DEF LinkInv, Role
    <3> QED
      BY <2>1, <2>3, <3>1, <3>3 DEF LinkInv, Mine, LinkBuilt
  <2>4. CASE CpioReturns
    <3>1. /\ UNCHANGED cpio /\ step[Mine] = "done" /\ pc = "cpio"
          /\ pc' = IF Mine = "slave" THEN "stopped" ELSE Loader
      BY <2>4 DEF CpioReturns, Goto, Quietly
    <3> QED
      BY <2>1, <3>1 DEF LinkInv, TogetherInv, CpioTypeOK, cpio, Mine, LinkBuilt, Loader
  <2>5. CASE RunDramInit /\ pc' # "cpio"
    <3>1. UNCHANGED cpio /\ pc = "draminit"
      BY <2>5 DEF RunDramInit, cpio_call, cpio, Goto
    <3> QED
      BY <2>2, <2>5, <3>1
  <2>6. CASE EnterFlow \/ Round \/ Halt \/ OpenDevice \/ CheckMode \/ Load \/ NorHeader \/ NorCopy
             \/ BootUboot \/ VerifyUboot \/ VerifyFip \/ Quit \/ BootReset
    <3>1. UNCHANGED cpio /\ pc # "cpio" /\ pc' # "cpio"
      BY <2>6 DEF EnterFlow, Round, Halt, OpenDevice, CheckMode, Load, NorHeader, NorCopy, BootUboot,
                  VerifyUboot, VerifyFip, Verify, NextImage, Quit, BootReset, AfterBadDram, Loader,
                  Goto, Quietly, Shells, Loading
    <3> QED
      BY <2>2, <3>1
  <2> QED
    BY <1>6, <2>3, <2>4, <2>5, <2>6 DEF Boot, Operator, FlowStep
<1> QED
  BY <1>1, <1>2, <1>3, <1>4, <1>5, <1>6 DEF Next

-----------------------------------------------------------------------------
(* I2C *)

LEMMA I2cInvInit == Init => I2cInv
<1> SUFFICES ASSUME Init PROVE I2cInv
  OBVIOUS
<1>1. pc = "xboot_main" /\ bus = Quiet /\ xfer = NoXfer
  BY DEF Init, BoardInit, I2cInit
<1>2. PICK k \in Chips : chip = [kind |-> k, regs |-> Regs(k), pointer |-> 0]
  BY DEF Init, I2cInit
<1>3. BusInv
  BY <1>1 DEF BusInv, BusPc, BackPc, Quiet
<1>4. ChipInv
  BY <1>1, <1>2 DEF ChipInv, Quiet, NoXfer
<1>5. OnlyVoltageWritten
  BY <1>2 DEF OnlyVoltageWritten
<1> QED
  BY <1>3, <1>4, <1>5 DEF I2cInv

(* What sp_i2c_write, sp_i2c_read and sp_i2c_restart_one put into the FIFO. *)
LEMMA Filled ==
    /\ \A b : <<b>> \o [i \in 1..0 |-> READ] = <<b>>
    /\ << >> \o [i \in 1..1 |-> READ] = <<READ>>
    /\ \A b : <<b>> \o [i \in 1..1 |-> READ] = <<b, READ>>
    /\ \A b, c : <<b, c>> \o [i \in 1..0 |-> READ] = <<b, c>>
<1> DEFINE r(n) == [i \in 1..n |-> READ]
<1>1. READ \in Int
  BY DEF READ
<1>2. r(0) = << >>
  OBVIOUS
<1>3. r(1) = <<READ>>
  <2>1. r(1) \in Seq(Int) /\ Len(r(1)) = 1 /\ r(1)[1] = READ
    BY <1>1
  <2> QED
    BY <2>1
<1> HIDE DEF r
<1>4. ASSUME NEW b PROVE <<b>> \o r(0) = <<b>>
  <2>1. <<b>> \in Seq({b})
    OBVIOUS
  <2> QED
    BY <1>2, <2>1, ConcatEmptySeq
<1>5. << >> \o r(1) = <<READ>>
  BY <1>3
<1>6. ASSUME NEW b PROVE <<b>> \o r(1) = <<b, READ>>
  <2> DEFINE s == <<b>> \o <<READ>>
  <2>1. <<b>> \in Seq({b, READ}) /\ <<READ>> \in Seq({b, READ}) /\ <<b, READ>> \in Seq({b, READ})
    OBVIOUS
  <2>2. s \in Seq({b, READ}) /\ Len(s) = 2 /\ s[1] = b /\ s[2] = READ
    BY <2>1
  <2> HIDE DEF s
  <2>3. s = <<b, READ>>
    BY <2>1, <2>2
  <2> QED
    BY <1>3, <2>3 DEF s
<1>7. ASSUME NEW b, NEW c PROVE <<b, c>> \o r(0) = <<b, c>>
  <2>1. <<b, c>> \in Seq({b, c})
    OBVIOUS
  <2> QED
    BY <1>2, <2>1, ConcatEmptySeq
<1> QED
  BY <1>4, <1>5, <1>6, <1>7 DEF r

(* Every step of init_hw() ends the use of the bus or starts a transfer. *)
LEMMA HwBus ==
    ASSUME BusInv, HwStep
    PROVE  \/ bus' = Quiet /\ pc' \notin BusPc \union BackPc
           \/ /\ pc' = "i2c_fill" /\ xfer'.then \in BackPc
              /\ bus' = [Quiet EXCEPT !.on = TRUE, !.tx = Script']
<1>1. bus = Quiet
  BY HwPc DEF BusInv
<1> DEFINE Off == bus' = Quiet /\ pc' \notin BusPc \union BackPc
           On == /\ pc' = "i2c_fill" /\ xfer'.then \in BackPc
                 /\ bus' = [Quiet EXCEPT !.on = TRUE, !.tx = Script']
<1> SUFFICES Off \/ On
  OBVIOUS
<1>2. ASSUME SetUpDone, bus' = Quiet PROVE Off
  BY <1>2 DEF SetUpDone, BusPc, BackPc
<1>3. ASSUME sp_i2c_write(<<buf'>>, "rt_wrote") PROVE On
  BY <1>3, Filled DEF sp_i2c_write, Transfer, Script, BackPc
<1>4. ASSUME sp_i2c_read(1, "rt_read") PROVE On
  BY <1>4, Filled DEF sp_i2c_read, Transfer, Script, BackPc
<1>5. ASSUME sp_i2c_write(<<RT_VID>>, "rt_set") PROVE On
  BY <1>5, Filled DEF sp_i2c_write, Transfer, Script, BackPc
<1>6. ASSUME sp_i2c_restart_one(3, 1, "sti_id1") PROVE On
  BY <1>6, Filled DEF sp_i2c_restart_one, Transfer, Script, BackPc
<1>7. ASSUME sp_i2c_restart_one(4, 1, "sti_id2") PROVE On
  BY <1>7, Filled DEF sp_i2c_restart_one, Transfer, Script, BackPc
<1>8. ASSUME sp_i2c_write(<<STI_VSEL0, 135>>, "sti_set") PROVE On
  BY <1>8, Filled DEF sp_i2c_write, Transfer, Script, BackPc
<1>9. CASE RtNext
  BY <1>2, <1>3, <1>9 DEF RtNext
<1> HIDE DEF Off, On
<1>10. CASE Regulator
  BY <1>1, <1>2, <1>3, <1>6, <1>10 DEF Regulator
<1>11. CASE RtWrote \/ RtSet
  BY <1>1, <1>2, <1>4, <1>9, <1>11 DEF RtWrote, RtSet
<1>12. CASE RtRead
  BY <1>3, <1>5, <1>12 DEF RtRead, Off, BusPc, BackPc
<1>13. CASE StiId1 \/ StiId2 \/ StiSet
  BY <1>1, <1>2, <1>7, <1>8, <1>13 DEF StiId1, StiId2, StiSet
<1>14. CASE SwitchClocks \/ NpuOff \/ VideoOff \/ VideoOn
  BY <1>1, <1>14 DEF SwitchClocks, NpuOff, VideoOff, VideoOn, i2c, Off, BusPc, BackPc
<1> QED
  BY <1>10, <1>11, <1>12, <1>13, <1>14 DEF HwStep, On, Off

(* The write of the voltage starts only behind the two IDs of its chip. *)
LEMMA HwChip ==
    ASSUME I2cInv, HwStep
    PROVE  I2cInv'
<1> USE DEF I2cInv
<1>1. bus = Quiet
  BY HwPc DEF BusInv
<1>2. BusInv'
  <2>1. CASE bus' = Quiet /\ pc' \notin BusPc \union BackPc
    BY <2>1 DEF BusInv, Quiet
  <2>2. CASE /\ pc' = "i2c_fill" /\ xfer'.then \in BackPc
             /\ bus' = [Quiet EXCEPT !.on = TRUE, !.tx = Script']
    BY <2>2 DEF BusInv, Quiet, BusPc, BackPc
  <2> QED
    BY <2>1, <2>2, HwBus
<1>3. UNCHANGED chip
  BY DEF HwStep, Regulator, RtWrote, RtRead, RtSet, StiId1, StiId2, StiSet, SwitchClocks, NpuOff,
     VideoOff, VideoOn, i2c
<1>4. OnlyVoltageWritten'
  BY <1>3 DEF OnlyVoltageWritten
<1>5. bus'.rx = << >>
  <2>1. CASE bus' = Quiet
    BY <2>1 DEF Quiet
  <2>2. CASE bus' = [Quiet EXCEPT !.on = TRUE, !.tx = Script']
    BY <2>2 DEF Quiet
  <2> QED
    BY <2>1, <2>2, HwBus
<1> SUFFICES ChipInv'
  BY <1>2, <1>4
<1> DEFINE New == /\ xfer'.got = << >>
                  /\ xfer'.then = "sti_set" => chip.kind = "STI8070X"
<1>6. ASSUME New PROVE ChipInv'
  BY <1>3, <1>5, <1>6 DEF ChipInv
<1>7. ASSUME SetUpDone PROVE New
  BY <1>7 DEF SetUpDone, NoXfer
<1>8. ASSUME NEW bytes, NEW reads, NEW then, then # "sti_set", Transfer(bytes, reads, then) PROVE New
  BY <1>8 DEF Transfer
<1>9. CASE Regulator
  BY <1>6, <1>7, <1>8, <1>9 DEF Regulator, sp_i2c_write, sp_i2c_restart_one
<1>10. ASSUME RtNext PROVE ChipInv'
  BY <1>6, <1>7, <1>8, <1>10 DEF RtNext, sp_i2c_write
<1>11. CASE RtWrote \/ RtSet
  BY <1>6, <1>7, <1>8, <1>10, <1>11 DEF RtWrote, RtSet, sp_i2c_read
<1>12. CASE RtRead
  <2>1. CASE Good /\ Data = RT_ID
    BY <1>6, <1>8, <1>12, <2>1 DEF RtRead, sp_i2c_write
  <2>2. CASE ~(Good /\ Data = RT_ID) /\ chk = 0
    BY <1>6, <1>8, <1>12, <2>2 DEF RtRead, sp_i2c_write
  <2>3. CASE ~(Good /\ Data = RT_ID) /\ chk # 0
    <3>1. xfer' = NoXfer
      BY <1>12, <2>3 DEF RtRead
    <3> QED
      BY <1>6, <3>1 DEF NoXfer
  <2> QED
    BY <2>1, <2>2, <2>3
<1>13. CASE StiId1
  BY <1>6, <1>8, <1>13 DEF StiId1, sp_i2c_restart_one
<1>14. CASE StiId2
  <2>1. xfer.then = "sti_id2"
    BY <1>14 DEF StiId2, Returned, BusInv, BackPc
  <2>2. CASE Known(buf, IF xfer.got = << >> THEN 0 ELSE Head(xfer.got))
    <3>1. xfer.got # << >> /\ Head(xfer.got) = STI_ID2
      BY <2>2 DEF Known, STI_ID2
    <3>2. Head(xfer.got) \in Telling
      BY <2>1, <3>1, HeadTailProperties DEF ChipInv
    <3>3. xfer'.got = << >> /\ chip.kind = "STI8070X"
      BY <1>14, <2>2, <3>1, <3>2 DEF StiId2, sp_i2c_write, Transfer, Telling
    <3> QED
      BY <1>6, <3>3
  <2>3. CASE ~Known(buf, IF xfer.got = << >> THEN 0 ELSE Head(xfer.got))
    BY <1>6, <1>7, <1>14, <2>3 DEF StiId2
  <2> QED
    BY <2>2, <2>3
<1>15. CASE StiSet
  BY <1>6, <1>7, <1>15 DEF StiSet
<1>16. CASE SwitchClocks \/ NpuOff \/ VideoOff \/ VideoOn
  BY <1>16 DEF SwitchClocks, NpuOff, VideoOff, VideoOn, i2c, ChipInv, Telling
<1> QED
  BY <1>2, <1>4, <1>9, <1>11, <1>12, <1>13, <1>14, <1>15, <1>16 DEF HwStep

(* The driver takes bytes out of the receive FIFO, and the controller off. *)
LEMMA DriverI2c ==
    ASSUME I2cInv, Driver, UNCHANGED buf
    PROVE  I2cInv'
<1> USE DEF I2cInv
<1>1. UNCHANGED <<chip, stuck>> /\ pc \in BusPc /\ xfer.then \in BackPc
  BY DriverPc DEF Driver, WaitActive, WriteEnds, DrainEnds, Collect, BusInv
<1> DEFINE Kept == xfer'.then = xfer.then /\ xfer'.got = xfer.got
           Taken == /\ xfer'.then = xfer.then /\ bus.rx # << >>
                    /\ xfer'.got = Append(xfer.got, Head(bus.rx)) /\ bus'.rx = Tail(bus.rx)
           Same == /\ pc' \in BusPc
                   /\ bus'.on = bus.on /\ bus'.first = bus.first /\ bus'.abort = bus.abort
                   /\ bus'.shift = bus.shift /\ bus'.tx = bus.tx
           Ended == /\ Kept /\ bus' = Quiet /\ pc' \in {xfer.then, "i2c_error"}
<1>2. OnlyVoltageWritten' /\ (Telling = Telling')
  BY <1>1 DEF OnlyVoltageWritten, Telling
<1>3. ASSUME Ended PROVE BusInv' /\ ChipInv'
  <2>1. BusInv'
    BY <1>1, <1>3 DEF BusInv, Quiet, BusPc, BackPc
  <2>2. ChipInv'
    BY <1>1, <1>2, <1>3 DEF ChipInv, Quiet
  <2> QED
    BY <2>1, <2>2
<1>4. ASSUME Same, Kept \/ Taken PROVE BusInv'
  <2>1. Script' = Script /\ pc' \notin BackPc
    BY <1>4 DEF Script, BusPc, BackPc
  <2> QED
    BY <1>1, <1>4, <2>1 DEF BusInv
<1>5. ASSUME Kept, bus'.rx = bus.rx PROVE ChipInv'
  BY <1>1, <1>2, <1>5 DEF ChipInv
<1>6. ASSUME Taken PROVE ChipInv'
  <2>1. ASSUME NEW S, bus.rx \in Seq(S), xfer.got \in Seq(S)
        PROVE  bus'.rx \in Seq(S) /\ xfer'.got \in Seq(S)
    BY <1>6, <2>1, HeadTailProperties
  <2> QED
    BY <1>1, <1>2, <1>6, <2>1 DEF ChipInv
<1>7. ASSUME NEW a, Done(a) PROVE BusInv' /\ ChipInv'
  BY <1>3, <1>7 DEF Done
<1>8. ASSUME NEW l, Poll(l), UNCHANGED <<bus, pc>> PROVE BusInv' /\ ChipInv'
  BY <1>1, <1>4, <1>5, <1>8 DEF Poll
<1>9. ASSUME NEW x, x = Popped, xfer'.then = x.then, xfer'.got = x.got,
             bus' = [bus EXCEPT !.rx = Rest], pc' \in BusPc
      PROVE  BusInv' /\ ChipInv'
  <2>1. Same /\ bus'.rx = Rest
    BY <1>9
  <2>2. CASE bus.rx = << >>
    BY <1>4, <1>5, <1>9, <2>1, <2>2 DEF Popped, Rest
  <2>3. CASE bus.rx # << >>
    <3>1. Taken
      BY <1>9, <2>1, <2>3 DEF Popped, Rest
    <3> QED
      BY <1>4, <1>6, <2>1, <3>1
  <2> QED
    BY <2>2, <2>3
<1>10. CASE WaitActive
  <2>1. CASE ~bus.active /\ Poll(PollLimit) /\ UNCHANGED <<bus, pc>>
    BY <1>2, <1>8, <2>1
  <2>2. CASE bus.abort /\ Done(0)
    BY <1>2, <1>7, <2>2
  <2>3. CASE /\ xfer.reads > 0 /\ xfer' = [Popped EXCEPT !.wait = 0]
             /\ bus' = [bus EXCEPT !.rx = Rest] /\ pc' = "i2c_drain"
    BY <1>2, <1>9, <2>3 DEF BusPc
  <2>4. CASE /\ xfer' = [xfer EXCEPT !.wait = 0] /\ bus' = bus /\ pc' = "i2c_write"
    BY <1>2, <1>4, <1>5, <2>4 DEF BusPc
  <2> QED
    BY <1>10, <2>1, <2>2, <2>3, <2>4 DEF WaitActive
<1>11. CASE WriteEnds
  BY <1>2, <1>7, <1>8, <1>11 DEF WriteEnds
<1>12. CASE DrainEnds
  <2>1. CASE xfer' = [xfer EXCEPT !.wait = 0] /\ bus' = bus /\ pc' = "i2c_collect"
    BY <1>2, <1>4, <1>5, <2>1 DEF BusPc
  <2> QED
    BY <1>2, <1>7, <1>8, <1>12, <2>1 DEF DrainEnds
<1>13. CASE Collect
  <2>1. CASE xfer' = Popped /\ bus' = [bus EXCEPT !.rx = Rest] /\ pc' = pc
    BY <1>1, <1>2, <1>9, <2>1
  <2> QED
    BY <1>2, <1>7, <1>8, <1>13, <2>1 DEF Collect
<1> QED
  BY <1>10, <1>11, <1>12, <1>13 DEF Driver

(* A transfer is of one or two bytes. *)
LEMMA ScriptForms ==
    ASSUME xfer.then \in BackPc
    PROVE  \/ Len(Script) = 1 /\ Script = <<Script[1]>> /\ Head(Script) = Script[1]
              /\ Tail(Script) = << >>
           \/ Len(Script) = 2 /\ Script = <<Script[1], Script[2]>> /\ Head(Script) = Script[1]
              /\ Tail(Script) = <<Script[2]>> /\ Tail(Tail(Script)) = << >>
              /\ Head(Tail(Script)) = Script[2]
<1>1. ASSUME NEW a, Script = <<a>>
      PROVE  Len(Script) = 1 /\ Script = <<Script[1]>> /\ Head(Script) = Script[1]
             /\ Tail(Script) = << >>
  BY <1>1
<1>2. ASSUME NEW a, NEW b, Script = <<a, b>>
      PROVE  Len(Script) = 2 /\ Script = <<Script[1], Script[2]>> /\ Head(Script) = Script[1]
             /\ Tail(Script) = <<Script[2]>> /\ Tail(Tail(Script)) = << >>
             /\ Head(Tail(Script)) = Script[2]
  BY <1>2
<1>3. (\E a : Script = <<a>>) \/ (\E a, b : Script = <<a, b>>)
  BY DEF Script, BackPc
<1> QED
  BY <1>1, <1>2, <1>3

(* What the chip answers. *)
LEMMA Answer ==
    ASSUME ChipInv, OnlyVoltageWritten
    PROVE  /\ Register(chip.pointer) \in Int
           /\ chip.kind # "STI8070X" /\ chip.pointer = 4 => Register(chip.pointer) # STI_ID2
<1>1. ASSUME NEW k \in Chips, NEW r \in DOMAIN Regs(k)
      PROVE  Regs(k)[r] \in Int /\ (k # "STI8070X" /\ r = 4 => Regs(k)[r] # STI_ID2)
  <2>1. CASE k = "RT5759"
    BY <1>1, <2>1 DEF Regs, STI_ID2
  <2>2. CASE k = "STI8070X"
    BY <1>1, <2>2 DEF Regs, STI_ID2
  <2>3. CASE k \notin {"RT5759", "STI8070X"}
    <3>1. Regs(k) = [q \in {0, 3, 4} |-> CASE q = 0 -> 0 [] q = 3 -> 136 [] q = 4 -> 2]
      BY <2>3 DEF Regs
    <3> QED
      BY <1>1, <3>1 DEF STI_ID2
  <2> QED
    BY <2>1, <2>2, <2>3
<1>2. CASE chip.pointer \in DOMAIN chip.regs
  <2>1. \/ chip.regs[chip.pointer] = Regs(chip.kind)[chip.pointer]
        \/ chip.regs[chip.pointer] = 135
    BY <1>2 DEF OnlyVoltageWritten
  <2> QED
    BY <1>1, <1>2, <2>1 DEF ChipInv, Register, STI_ID2
<1>3. CASE chip.pointer \notin DOMAIN chip.regs
  BY <1>3 DEF Register, STI_ID2
<1> QED
  BY <1>2, <1>3

LEMMA ControllerI2c ==
    ASSUME I2cInv, Controller, UNCHANGED buf
    PROVE  I2cInv'
<1> USE DEF I2cInv
<1>1. UNCHANGED <<xfer, pc>> /\ Script' = Script
  BY BusStep DEF Script
<1>2. bus.active => pc \in BusPc /\ bus.on /\ xfer.then \in BackPc
  BY DEF BusInv, Quiet
<1>3. CASE Begin \/ Stop \/ Hang
  <2>1. UNCHANGED chip /\ (bus' = bus \/ bus.on)
    BY <1>2, <1>3 DEF Begin, Stop, Hang
  <2>2. /\ bus'.on = bus.on /\ bus'.first = bus.first /\ bus'.abort = bus.abort
        /\ bus'.shift = bus.shift /\ bus'.tx = bus.tx /\ bus'.rx = bus.rx
    <3>1. bus' = bus \/ \E a \in BOOLEAN : bus' = [bus EXCEPT !.active = a]
      BY <1>3 DEF Begin, Stop, Hang
    <3>2. ASSUME NEW a, bus' = [bus EXCEPT !.active = a]
          PROVE  /\ bus'.on = bus.on /\ bus'.first = bus.first /\ bus'.abort = bus.abort
                 /\ bus'.shift = bus.shift /\ bus'.tx = bus.tx /\ bus'.rx = bus.rx
      BY <3>2
    <3> QED
      BY <3>1, <3>2
  <2>3. BusInv'
    BY <1>1, <2>1, <2>2 DEF BusInv, Quiet
  <2>4. ChipInv' /\ OnlyVoltageWritten'
    BY <1>1, <2>1, <2>2 DEF ChipInv, OnlyVoltageWritten, Telling
  <2> QED
    BY <2>3, <2>4
<1>4. CASE Shift
  <2>1. /\ UNCHANGED chip /\ bus.active /\ bus.shift = << >> /\ bus.tx # << >>
        /\ bus'.on = bus.on /\ bus'.first = bus.first /\ bus'.abort = bus.abort
        /\ bus'.shift = <<Head(bus.tx)>> /\ bus'.tx = Tail(bus.tx) /\ bus'.rx = bus.rx
    BY <1>4 DEF Shift
  <2>2. pc \in BusPc /\ bus.on /\ ~bus.abort /\ xfer.then \in BackPc
    BY <1>2, <2>1 DEF BusInv
  <2>3. CASE bus.first
    <3>1. bus.tx = Script
      BY <2>1, <2>2, <2>3 DEF BusInv
    <3>2. bus'.shift = <<Script[1]>> /\ bus'.tx = Tail(Script)
      BY <2>1, <2>2, <3>1, ScriptForms
    <3> QED
      BY <1>1, <2>1, <2>2, <2>3, <3>2 DEF BusInv, ChipInv, OnlyVoltageWritten, Telling
  <2>4. CASE ~bus.first
    <3>1. Len(Script) = 2 /\ bus.tx = Tail(Script) /\ (Script[1] # READ => chip.pointer = Script[1])
      BY <2>1, <2>2, <2>4 DEF BusInv
    <3>2. bus'.shift = Tail(Script) /\ bus'.tx = << >>
      BY <2>1, <2>2, <3>1, ScriptForms
    <3> QED
      BY <1>1, <2>1, <2>2, <2>4, <3>1, <3>2 DEF BusInv, ChipInv, OnlyVoltageWritten, Telling
  <2> QED
    BY <2>3, <2>4
<1>5. CASE MoveByte
  <2> DEFINE b == Head(bus.shift)
  <2>1. /\ bus.active /\ bus.shift # << >> /\ bus'.on = bus.on /\ bus'.abort = bus.abort
        /\ bus'.first = FALSE /\ bus'.shift = << >> /\ bus'.tx = bus.tx
    BY <1>5 DEF MoveByte
  <2>2. bus'.rx = IF b = READ THEN Append(bus.rx, Register(chip.pointer)) ELSE bus.rx
    BY <1>5 DEF MoveByte
  <2>3. chip' = IF b = READ THEN chip
                ELSE IF bus.first THEN [chip EXCEPT !.pointer = b]
                ELSE IF chip.pointer \in DOMAIN chip.regs
                     THEN [chip EXCEPT !.regs[chip.pointer] = b] ELSE chip
    BY <1>5 DEF MoveByte
  <2>4. pc \in BusPc /\ bus.on /\ ~bus.abort /\ xfer.then \in BackPc
    BY <1>2, <2>1 DEF BusInv
  <2>5. \/ /\ bus.first /\ bus.shift = <<Script[1]>> /\ bus.tx = Tail(Script) /\ b = Script[1]
        \/ /\ ~bus.first /\ bus.shift = Tail(Script) /\ bus.tx = << >> /\ b = Script[2]
           /\ Len(Script) = 2
           /\ (Script[1] # READ => chip.pointer = Script[1])
    BY <2>1, <2>4, ScriptForms DEF BusInv
  <2> HIDE DEF b
  <2>6. BusInv'
    <3>1. CASE bus.first
      <4>1. bus'.tx = Tail(Script) /\ b = Script[1]
        BY <2>1, <2>5, <3>1
      <4>2. Script[1] # READ => chip'.pointer = Script[1]
        BY <2>3, <3>1, <4>1
      <4> QED
        BY <1>1, <2>1, <2>4, <4>1, <4>2, ScriptForms DEF BusInv, BackPc, BusPc
    <3>2. CASE ~bus.first
      <4>1. bus'.tx = << >>
        BY <2>1, <2>5, <3>2
      <4> QED
        BY <1>1, <2>1, <2>4, <4>1 DEF BusInv, BackPc, BusPc
    <3> QED
      BY <3>1, <3>2
  <2>7. ChipInv'
    <3>1. chip'.kind = chip.kind /\ DOMAIN chip'.regs = DOMAIN chip.regs
      BY <2>3
    <3>2. b = READ /\ xfer.then = "sti_id2" => chip.pointer = 4
      BY <2>5 DEF Script, READ
    <3>3. b = READ /\ xfer.then = "sti_id2" => Register(chip.pointer) \in Telling
      BY <3>2, Answer DEF Telling, ChipInv
    <3>4. bus'.rx \in Seq(Int) /\ (xfer.then = "sti_id2" => bus'.rx \in Seq(Telling))
      BY <2>2, <3>3, Answer DEF ChipInv
    <3> QED
      BY <1>1, <3>1, <3>4 DEF ChipInv, Telling
  <2>8. OnlyVoltageWritten'
    <3>1. CASE UNCHANGED chip \/ chip' = [chip EXCEPT !.pointer = b]
      <4>1. chip'.regs = chip.regs /\ chip'.kind = chip.kind
        <5>1. CASE UNCHANGED chip
          BY <5>1
        <5>2. CASE chip' = [chip EXCEPT !.pointer = b]
          BY <5>2
        <5> QED
          BY <3>1, <5>1, <5>2
      <4> QED
        BY <4>1 DEF OnlyVoltageWritten
    <3>2. CASE /\ ~bus.first /\ b # READ /\ chip.pointer \in DOMAIN chip.regs
               /\ chip' = [chip EXCEPT !.regs[chip.pointer] = b]
      <4>1. xfer.then = "sti_set" /\ b = 135 /\ chip.pointer = STI_VSEL0
        BY <2>4, <2>5, <3>2 DEF Script, BackPc, READ, STI_VSEL0
      <4>2. chip.kind = "STI8070X"
        BY <4>1 DEF ChipInv
      <4> QED
        BY <3>2, <4>1, <4>2 DEF OnlyVoltageWritten
    <3> QED
      BY <2>3, <3>1, <3>2
  <2> QED
    BY <2>6, <2>7, <2>8
<1>6. CASE Nack
  <2>1. /\ UNCHANGED chip /\ bus.active /\ bus'.on = bus.on /\ bus'.abort
        /\ bus'.shift = << >> /\ bus'.tx = << >> /\ bus'.rx = bus.rx
    BY <1>6 DEF Nack
  <2>2. pc \in BusPc /\ bus.on /\ xfer.then \in BackPc
    BY <1>2, <2>1
  <2> QED
    BY <1>1, <2>1, <2>2 DEF BusInv, ChipInv, OnlyVoltageWritten, Telling, BusPc, BackPc
<1> QED
  BY <1>3, <1>4, <1>5, <1>6 DEF Controller

LEMMA SameBus ==
    ASSUME I2cInv, UNCHANGED <<pc, i2c, hw>>
    PROVE  I2cInv'
<1>1. pc' = pc /\ buf' = buf /\ chip' = chip /\ bus' = bus /\ xfer' = xfer
  BY DEF i2c, hw
<1>2. Script' = Script
  BY <1>1 DEF Script
<1>3. BusInv'
  BY <1>1, <1>2 DEF I2cInv, BusInv
<1>4. ChipInv' /\ OnlyVoltageWritten'
  BY <1>1 DEF I2cInv, ChipInv, Telling, OnlyVoltageWritten
<1> QED
  BY <1>3, <1>4 DEF I2cInv

LEMMA I2cStep ==
    ASSUME I2cInv, PinsInv, Next
    PROVE  I2cInv'
<1>1. CASE HardwareInit
  BY <1>1, HwChip DEF HardwareInit
<1>2. CASE I2cTransfer
  BY <1>2, DriverI2c DEF I2cTransfer, hw
<1>3. CASE I2cBus
  BY <1>3, ControllerI2c DEF I2cBus, hw
<1>4. ASSUME UNCHANGED <<i2c, hw>>, pc \notin BusPc, pc' \notin BusPc \union BackPc
      PROVE  I2cInv'
  BY <1>4 DEF I2cInv, i2c, BusInv, Quiet, ChipInv, Telling, OnlyVoltageWritten
<1>5. CASE OneTime
  BY <1>4, <1>5, OtpPc DEF OneTime
<1>6. CASE Boot \/ Operator
  <2>1. pc \notin BusPc /\ pc' \notin BusPc \union BackPc
    BY <1>6, FlowPcs DEF FlowPc, LoadPc, EntryPc, Shells, BusPc, BackPc
  <2> QED
    BY <1>4, <1>6, <2>1, FlowPcs
<1>7. CASE Link \/ Phys \/ OtherChip
  <2>1. UNCHANGED <<pc, i2c, hw>>
    BY <1>7, LinkPc, SideStep DEF Link, Phys, OtherChip
  <2> QED
    BY <2>1, SameBus
<1> QED
  BY <1>1, <1>2, <1>3, <1>5, <1>6, <1>7 DEF Next

-----------------------------------------------------------------------------
(* The SPI NOR loader *)

LEMMA NorInit == Init => NorInv
BY FlowAssumption DEF Init, BoardInit, FlowInit, NorInv, EarlyPc, EntryPc

LEMMA FaultsGrow ==
    ASSUME NorInv, Next
    PROVE  faults' \in Nat /\ faults' >= faults
<1>1. faults \in Nat
  BY DEF NorInv
<1>2. Fine \/ Fault => faults' \in Nat /\ faults' >= faults
  BY <1>1 DEF Fine, Fault
<1> SUFFICES Fine \/ Fault
  BY <1>2
<1>3. CASE HardwareInit
  BY <1>3, HwPc DEF HardwareInit, Fine
<1>4. CASE I2cTransfer
  BY <1>4 DEF I2cTransfer, Driver, WaitActive, WriteEnds, DrainEnds, Collect
<1>5. CASE I2cBus
  BY <1>5 DEF I2cBus, Controller, Begin, Shift, MoveByte, Nack, Stop, Hang
<1>6. CASE OneTime
  <2>1. CASE ReadMpBit \/ CheckLdo13 \/ CheckLdo14
    BY <2>1 DEF ReadMpBit, CheckLdo13, CheckLdo14, CheckLdo, otprx_read
  <2>2. CASE MonRwOtp \/ Parse \/ StartWrite \/ StartEndless \/ Endless \/ Burn \/ Written
             \/ HandshakeExpires \/ Receive
    BY <2>2 DEF MonRwOtp, Parse, StartWrite, StartEndless, Endless, Burn, Written,
       HandshakeExpires, Receive
  <2> QED
    BY <1>6, <2>1, <2>2 DEF OneTime, OtpNext, OtpStep
<1>7. CASE Boot \/ Operator
  <2>1. CASE OpenDevice \/ RunDramInit \/ Load
    BY <2>1 DEF OpenDevice, RunDramInit, Load
  <2>2. CASE EnterFlow \/ Round \/ Halt \/ CpioReturns \/ CheckMode \/ NorHeader \/ NorCopy
             \/ BootUboot \/ VerifyUboot \/ VerifyFip \/ Quit \/ BootReset
    BY <2>2 DEF EnterFlow, Round, Halt, CpioReturns, CheckMode, NorHeader, NorCopy, BootUboot,
       VerifyUboot, VerifyFip, Verify, Quit, BootReset, Quietly
  <2> QED
    BY <1>7, <2>1, <2>2 DEF Boot, Operator, FlowStep
<1>8. CASE Link \/ OtherChip
  BY <1>8, LinkPc, PeerPc DEF Link, OtherChip, Fine
<1>9. CASE Phys
  BY <1>9 DEF Phys, Train
<1> QED
  BY <1>3, <1>4, <1>5, <1>6, <1>7, <1>8, <1>9 DEF Next

(* A whole image is in memory when the last chunk has come and the sum is right. *)
LEMMA CopyEnds ==
    ASSUME NorInv, NEW n \in Name, HeaderOk(nor.img[n], n), mem[n].src = n, mem[n].got \in Nat,
           Copied(mem[n].got - HdrSize, n)
    PROVE  image_check_dcrc(nor.img[n], mem[n].got) /\ ~(Length(n) <= 0) <=> Loaded(n)
<1>1. nor.img[n] \in NorImages /\ nor.img[n] \in Image
  BY FlowAssumption DEF NorInv
<1>2. nor.img[n].size \in Nat /\ HdrSize + nor.img[n].size < FlashSize
  BY <1>1, FlashAssumption DEF Image
<1>3. board.secure => nor.img[n].size > 0
  BY DEF NorInv, HeaderOk, image_check_magic, NotAnImage
<1>4. CASE board.secure
  BY <1>2, <1>3, <1>4 DEF Loaded, Whole, image_check_dcrc, Length, SIGN_DATA_SIZE, Copied, HdrSize
<1>5. CASE ~board.secure
  BY <1>2, <1>5 DEF Loaded, Whole, image_check_dcrc, Length, SIGN_DATA_SIZE, Copied, HdrSize
<1> QED
  BY <1>4, <1>5

LEMMA NorStep ==
    ASSUME NorInv, PinsInv, SignInv, BusInv, Next
    PROVE  NorInv'
<1> USE DEF EntryPc
<1>1. faults' \in Nat /\ (Refusable /\ UNCHANGED nor => Refusable')
  BY FaultsGrow DEF NorInv, Refusable
<1>2. CASE HardwareInit \/ I2cTransfer \/ OneTime
  BY <1>1, <1>2, EarlyStep DEF NorInv, flow, EarlyPc, BusPc, BackPc, IsNor
<1>3. CASE I2cBus \/ Phys \/ OtherChip \/ Link
  <2>1. UNCHANGED <<board, pc, flow>>
    BY <1>3, SideStep, LinkPc DEF Link
  <2> QED
    BY <1>1, <2>1 DEF NorInv, flow, IsNor, Loaded, Copying
<1>4. CASE Boot \/ Operator
  <2>1. UNCHANGED <<board, nor, IsNor>> /\ pc' \notin EarlyPc /\ pc \in FlowPc \union {"boot_flow"}
    <3>1. UNCHANGED nor
      BY <1>4 DEF Boot, Operator, FlowStep, EnterFlow, Round, Halt, OpenDevice,
         RunDramInit, CpioReturns, CheckMode, Load, NorHeader, NorCopy, BootUboot, VerifyUboot,
         VerifyFip, Verify, Quit, BootReset, flow
    <3> QED
      BY <1>4, <3>1, FlowPcs, PcFacts DEF IsNor
  <2>2. IsNor => mode = "SPI_NOR_BOOT" /\ ~FatMode
    BY DEF PinsInv, IsNor, FatBooted, FatMode
  <2>3. CASE EnterFlow
    BY <1>1, <2>1, <2>3 DEF NorInv, EnterFlow, Goto, EarlyPc
  <2>4. CASE Round
    <3>1. /\ retry > 0 /\ retry' = retry - 1 /\ UNCHANGED <<mem, entered>> /\ pc = "round"
          /\ pc' \in {"uart_shell", "find_file", "init_device", "draminit", "shell"}
          /\ (mode = "SPI_NOR_BOOT" => pc' = "draminit")
      BY <2>4 DEF Round, Goto
    <3>2. retry' \in 0..Retries
      BY <3>1, FlowAssumption DEF NorInv
    <3> QED
      BY <1>1, <2>1, <2>2, <3>1, <3>2 DEF NorInv
  <2>5. CASE Halt
    <3>1. pc = "round" /\ retry # Retries /\ pc' = "halt" /\ UNCHANGED <<mem, entered, retry>>
      BY <2>5, FlowAssumption DEF Halt, Goto, flow
    <3> QED
      BY <1>1, <2>1, <3>1 DEF NorInv
  <2>6. CASE OpenDevice \/ CheckMode \/ Load
    <3>1. /\ UNCHANGED <<entered, retry>> /\ pc \in {"find_file", "init_device", "check_mode", "load"}
          /\ pc' \in {"draminit", "shell", "load", "boot_uboot"}
      BY <2>6 DEF OpenDevice, CheckMode, Load, Goto, flow
    <3> QED
      BY <1>1, <2>1, <3>1 DEF NorInv
  <2>7. CASE RunDramInit
    <3>1. UNCHANGED <<mem, entered, retry>> /\ pc = "draminit"
      BY <2>7 DEF RunDramInit
    <3>2. CASE dram_test(dram')
      <4>1. dram' # Sound
        BY <2>7, <3>2, DramTestFindsAll DEF RunDramInit
      <4>2. faults' > 0 /\ pc' = "dram_shell"
        BY <2>7, <3>2, <4>1 DEF RunDramInit, Fault, Goto, NorInv
      <4> QED
        BY <1>1, <2>1, <3>1, <4>2 DEF NorInv, Refusable
    <3>3. CASE ~dram_test(dram')
      <4>1. pc' \in {"cpio", Loader}
        BY <2>7, <3>3 DEF RunDramInit, cpio_call
      <4> QED
        BY <1>1, <2>1, <2>2, <3>1, <4>1 DEF NorInv, Loader
    <3> QED
      BY <3>2, <3>3
  <2>8. CASE CpioReturns
    <3>1. UNCHANGED <<mem, entered, retry>> /\ pc = "cpio" /\ pc' \in {"stopped", Loader}
      BY <2>8 DEF CpioReturns, Goto, flow
    <3> QED
      BY <1>1, <2>1, <2>2, <3>1 DEF NorInv, Loader
  <2>9. CASE NorHeader
    <3>1. UNCHANGED <<entered, retry>> /\ pc \in {"load_fip", "load_uboot"} /\ Loading \in Name
      BY <2>9 DEF NorHeader, Loading, Name
    <3>2. /\ mem'[Loading].src = Loading /\ mem'[Loading].got = HdrSize
          /\ \A n \in Name : n # Loading => mem'[n] = mem[n]
      BY <2>9, <3>1 DEF NorHeader, Unloaded, SignInv
    <3>3. CASE ~HeaderOk(nor.img[Loading], Loading)
      <4>1. Refusable /\ pc' = "nor_shell"
        BY <2>9, <3>1, <3>3 DEF Refusable, Whole, NorHeader, Goto
      <4> QED
        BY <1>1, <2>1, <3>1, <4>1 DEF NorInv
    <3>4. CASE HeaderOk(nor.img[Loading], Loading) /\ pc = "load_fip"
      <4>1. Loading = "fip" /\ pc' = "copy_fip"
        BY <2>9, <3>4 DEF Loading, NorHeader, Goto
      <4>2. Copying("fip")'
        BY <2>1, <3>1, <3>2, <3>4, <4>1 DEF Copying, HdrSize
      <4> QED
        BY <1>1, <2>1, <3>1, <4>1, <4>2 DEF NorInv
    <3>5. CASE HeaderOk(nor.img[Loading], Loading) /\ pc = "load_uboot"
      <4>1. Loading = "uboot" /\ pc' = "copy_uboot"
        BY <2>9, <3>5 DEF Loading, NorHeader, Goto
      <4>2. Copying("uboot")'
        BY <2>1, <3>1, <3>2, <3>5, <4>1 DEF Copying, HdrSize
      <4>3. IsNor => Loaded("fip")'
        BY <2>1, <3>2, <3>5, <4>1 DEF NorInv, Loaded, Name
      <4> QED
        BY <1>1, <2>1, <3>1, <4>1, <4>2, <4>3 DEF NorInv
    <3> QED
      BY <3>1, <3>3, <3>4, <3>5
  <2>10. CASE NorCopy
    <3>1. UNCHANGED <<entered, retry>> /\ pc \in {"copy_fip", "copy_uboot"} /\ Loading \in Name
          /\ Loading = (IF pc = "copy_fip" THEN "fip" ELSE "uboot") /\ ~entered
      BY <2>10 DEF NorCopy, Loading, Name, NorInv
    <3>2. CASE ~IsNor
      <4>1. pc' \in {"copy_fip", "copy_uboot", "nor_shell", "load_uboot", "boot_uboot"}
        BY <2>10 DEF NorCopy, Goto
      <4> QED
        BY <1>1, <2>1, <3>1, <3>2, <4>1 DEF NorInv
    <3>3. CASE IsNor /\ ~Copied(mem[Loading].got - HdrSize, Loading)
      <4> DEFINE i == mem[Loading].got - HdrSize
                 rest == Length(Loading) - i
                 chunk == IF rest < Step THEN rest ELSE Step
      <4>1. mem' = [mem EXCEPT ![Loading].got = @ + chunk] /\ UNCHANGED pc
        BY <2>10, <3>3 DEF NorCopy
      <4>2. Copying(Loading)
        BY <3>1, <3>3 DEF NorInv
      <4>3. chunk \in Nat
        <5>1. nor.img[Loading].size \in Nat /\ mem[Loading].got \in Nat
          BY <3>1, <4>2, FlowAssumption DEF NorInv, Image, Copying
        <5>2. Length(Loading) \in Nat /\ ~(i >= Length(Loading))
          BY <3>3, <5>1 DEF Length, SIGN_DATA_SIZE, HdrSize, Copied
        <5> QED
          BY <5>1, <5>2, FlowAssumption DEF HdrSize
      <4> HIDE DEF chunk
      <4>4. mem'[Loading].src = mem[Loading].src /\ mem'[Loading].got = mem[Loading].got + chunk
            /\ \A n \in Name : n # Loading => mem'[n] = mem[n]
        BY <3>1, <4>1 DEF SignInv
      <4>5. Copying(Loading)' /\ Loading' = Loading
        BY <2>1, <4>1, <4>2, <4>3, <4>4 DEF Copying, HdrSize, Loading
      <4> QED
        BY <1>1, <2>1, <3>1, <4>1, <4>4, <4>5 DEF NorInv, Loaded, Name
    <3>4. CASE IsNor /\ Copied(mem[Loading].got - HdrSize, Loading)
      <4>1. UNCHANGED mem /\ Copying(Loading)
        BY <2>10, <3>1, <3>4 DEF NorCopy, NorInv
      <4>2. CASE Loaded(Loading)
        <5>1. pc' = IF Loading = "fip" THEN "load_uboot" ELSE "boot_uboot"
          BY <2>10, <3>1, <3>4, <4>1, <4>2, CopyEnds DEF NorCopy, Goto, Copying
        <5> QED
          BY <1>1, <2>1, <3>1, <4>1, <4>2, <5>1 DEF NorInv, Loaded
      <4>3. CASE ~Loaded(Loading)
        <5>1. pc' = "nor_shell" /\ Refusable
          BY <2>10, <3>1, <3>4, <4>1, <4>3, CopyEnds DEF NorCopy, Goto, Copying, Loaded, Refusable
        <5> QED
          BY <1>1, <2>1, <3>1, <5>1 DEF NorInv
      <4> QED
        BY <4>2, <4>3
    <3> QED
      BY <3>2, <3>3, <3>4
  <2>11. CASE BootUboot
    <3>1. /\ pc = "boot_uboot" /\ entered' /\ pc' \in {"verify_uboot", "run_bl31"}
          /\ UNCHANGED <<mem, retry>>
      BY <2>11 DEF BootUboot, NextImage, ToVerify, Goto
    <3> QED
      BY <1>1, <2>1, <3>1 DEF NorInv, Loaded
  <2>12. CASE VerifyUboot \/ VerifyFip
    <3>1. PICK n \in Name : Verify(n) /\ pc \in EntryPc
      BY <2>12 DEF VerifyUboot, VerifyFip, Name
    <3>2. \A m \in Name : mem'[m].src = mem[m].src
      BY <3>1 DEF Verify, SignInv
    <3>3. UNCHANGED <<retry, entered>> /\ pc' \in EntryPc \union {"verify_shell"}
      BY <3>1 DEF Verify, NextImage, Goto
    <3>4. entered
      BY <3>1 DEF NorInv
    <3> QED
      BY <1>1, <2>1, <3>2, <3>3, <3>4 DEF NorInv, Loaded, Name
  <2>13. CASE Quit \/ BootReset
    <3>1. UNCHANGED <<mem, retry, entered>> /\ pc \in Shells
      BY <2>13 DEF Quit, BootReset, flow
    <3>2. pc' = "reset" \/ pc' = (CASE pc = "dram_shell" -> AfterBadDram
              [] pc = "verify_shell" -> "halt"
              [] pc = "shell" -> "round"
              [] OTHER -> "shell")
      BY <2>13 DEF Quit, BootReset, Goto
    <3> QED
      BY <1>1, <2>1, <2>2, <3>1, <3>2 DEF NorInv, Loaded, AfterBadDram, Loader, Shells
  <2> QED
    BY <1>4, <2>3, <2>4, <2>5, <2>6, <2>7, <2>8, <2>9, <2>10, <2>11, <2>12, <2>13
       DEF Boot, Operator, FlowStep
<1> QED
  BY <1>2, <1>3, <1>4 DEF Next

-----------------------------------------------------------------------------
(* All parts together *)

(* IInv is an inductive invariant of xboot_main(). *)
THEOREM Invariance == Spec => []IInv
<1>1. Init => IInv
  BY I2cInvInit, OtpInvInit, LinkInit, PinsInit, DramInit, SignInit, NorInit DEF IInv
<1>2. IInv /\ [Next]_all => IInv'
  <2> SUFFICES ASSUME IInv, [Next]_all PROVE IInv'
    OBVIOUS
  <2> USE DEF IInv
  <2>1. BusInv
    BY DEF I2cInv
  <2>2. CASE Next
    BY <2>1, <2>2, I2cStep, OtpInvStep, LinkStep, PinsStep, DramStep, SignStep, NorStep
  <2>3. CASE UNCHANGED all
    <3> USE <2>3 DEF all
    <3>1. I2cInv'
      BY SameBus
    <3>2. OtpInv' /\ LinkInv'
      BY DEF otp, cpio, OtpInv, LinkInv, TogetherInv, CpioTypeOK, Mine, LinkBuilt
    <3>3. PinsInv' /\ DramInv' /\ SignInv'
      BY DEF flow, PinsInv, DevicePins, FatBooted, SpiNand, DramInv, FatMode, SignInv, Verified
    <3>4. NorInv'
      BY DEF flow, NorInv, IsNor, Loaded, Copying, Refusable
    <3> QED
      BY <3>1, <3>2, <3>3, <3>4
  <2> QED
    BY <2>2, <2>3
<1> QED
  BY <1>1, <1>2, PTL DEF Spec

(* The set-up of the voltage writes only the voltage register of the one chip
   it has identified (xboot.c:200, 248). *)
THEOREM VoltageOnly == Spec => []OnlyVoltageWritten
<1>1. IInv => OnlyVoltageWritten
  BY DEF IInv, I2cInv
<1> QED
  BY <1>1, Invariance, PTL

(* A success is reported to the host only for what is burnt
   (otp/mon_rw_otp.c:208-228). *)
THEOREM AcknowledgedIsBurned == Spec => []AckMeansBurned
<1>1. IInv => AckMeansBurned
  BY DEF IInv, OtpInv, AckMeansBurned
<1> QED
  BY <1>1, Invariance, PTL

(* BL31 is entered behind the test of the memory and the signatures
   (xboot.c:471-478, 878-907). *)
THEOREM EntryIsChecked == Spec => []CheckedBeforeEntry
<1>1. IInv => CheckedBeforeEntry
  BY DEF IInv, DramInv, SignInv, Verified, CheckedBeforeEntry, DramTested, SignedBeforeEntry,
     EntryPc, Name
<1> QED
  BY <1>1, Invariance, PTL

(* No pad has two owners among the boot devices (xboot.c:1980). *)
THEOREM PadsHaveOneOwner == Spec => []PinsNotShared
<1>1. IInv => PinsNotShared
  <2> SUFFICES ASSUME PinsInv, board.int_boot, NEW d \in pins, NEW e \in pins PROVE d = e
    BY DEF IInv, PinsNotShared
  <2>1. CASE board.mode = "SPI_NOR_BOOT"
    BY <2>1 DEF PinsInv, DevicePins
  <2>2. CASE board.mode # "SPI_NOR_BOOT" /\ pc \in EarlyPc
    BY <2>2 DEF PinsInv
  <2>3. CASE board.mode # "SPI_NOR_BOOT" /\ pc \in FlowPc
    <3>1. d \in DevicePins /\ e \in DevicePins
      BY <2>3 DEF PinsInv
    <3> QED
      BY <3>1 DEF DevicePins
  <2> QED
    BY <2>1, <2>2, <2>3 DEF PinsInv
<1> QED
  BY <1>1, Invariance, PTL

(* Neither chip releases its PHY before the other one is there
   (cpio_sp7350.c:1289-1294, 1459-1465). *)
THEOREM PhysAreReleasedTogether == Spec => ReleasedTogether
<1>1. IInv /\ [Next]_all =>
        [\A r \in Role : phy[r] = "held" /\ phy'[r] = "released" =>
            step[Peer(r)] \notin {"off", "clock", "low"}]_cpio
  <2> SUFFICES ASSUME IInv, Next, NEW r \in Role, phy[r] = "held", phy'[r] = "released",
                      phy' # phy
               PROVE  step[Peer(r)] \in Waiting
    BY DEF all, cpio, Waiting
  <2>1. BusInv /\ TogetherInv /\ board \in Boards
    BY DEF IInv, I2cInv, LinkInv, PinsInv
  <2>2. ASSUME NEW q \in Role, Function(q) PROVE step[Peer(r)] \in Waiting
    <3>1. phy'[Peer(q)] = phy[Peer(q)]
      BY <2>1, <2>2, FunctionStep
    <3>2. r = q
      BY <3>1 DEF Role, Peer
    <3> QED
      BY <2>1, <2>2, <3>2, FunctionStep
  <2>3. LinkBuilt => Mine \in Role /\ Peer(Mine) \in Role
    BY <2>1, BoardAssumption DEF LinkBuilt, Mine, Role, Peer
  <2>4. TogetherInv => r \in DOMAIN phy
    BY DEF TogetherInv, CpioTypeOK
  <2>5. CASE HardwareInit \/ I2cTransfer \/ OneTime
    BY <2>1, <2>5, EarlyStep DEF cpio
  <2>6. CASE I2cBus
    BY <2>6 DEF I2cBus, cpio
  <2>7. CASE Phys
    BY <2>7 DEF Phys, Train
  <2>8. CASE Link
    <3>1. LinkBuilt /\ Function(Mine)
      BY <2>8 DEF Link, CpioStep, IInv, LinkInv
    <3> QED
      BY <2>2, <2>3, <3>1
  <2>9. CASE OtherChip
    BY <2>1, <2>2, <2>3, <2>4, <2>9 DEF OtherChip, PeerStep, CpioTypeOK, TogetherInv
  <2>10. CASE Boot \/ Operator
    <3>1. UNCHANGED phy \/ phy' = [phy EXCEPT ![Mine] = "held"]
      BY <2>10 DEF Boot, Operator, FlowStep, EnterFlow, Round, Halt, OpenDevice, RunDramInit,
         cpio_call, CpioReturns, CheckMode, Load, NorHeader, NorCopy, BootUboot, VerifyUboot,
         VerifyFip, Verify, Quit, BootReset, Quietly, cpio
    <3> QED
      BY <2>1, <2>4, <3>1
  <2> QED
    BY <2>5, <2>6, <2>7, <2>8, <2>9, <2>10 DEF Next
<1> QED
  BY <1>1, Invariance, PTL DEF Spec, ReleasedTogether

-----------------------------------------------------------------------------
(* The promise of a loader *)

LEMMA NorStays ==
    ASSUME BusInv, Next
    PROVE  UNCHANGED <<nor, board, IsNor>>
<1>1. CASE HardwareInit \/ I2cTransfer \/ OneTime
  BY <1>1, EarlyStep DEF flow, IsNor
<1>2. CASE I2cBus \/ Phys \/ OtherChip
  BY <1>2, SideStep DEF flow, IsNor
<1>3. CASE Link
  BY <1>3, LinkPc DEF Link, flow, IsNor
<1>4. CASE Boot \/ Operator
  <2>1. UNCHANGED nor
    BY <1>4 DEF Boot, Operator, FlowStep, EnterFlow, Round, Halt, OpenDevice,
       RunDramInit, CpioReturns, CheckMode, Load, NorHeader, NorCopy, BootUboot, VerifyUboot,
       VerifyFip, Verify, Quit, BootReset, flow
  <2> QED
    BY <1>4, <2>1, FlowPcs DEF IsNor
<1> QED
  BY <1>1, <1>2, <1>3, <1>4 DEF Next

(* Behind the loader nothing can fail that the promise speaks of. *)
RestPc == EntryPc \union {"verify_shell", "halt", "reset"}
LEMMA NothingFailsAtRest ==
    ASSUME IInv, Next, pc \in RestPc
    PROVE  /\ pc' \in RestPc /\ UNCHANGED <<faults, entered>>
           /\ pc \in {"halt", "reset"} => UNCHANGED pc
           /\ \A n \in Name : mem'[n].src = mem[n].src
<1> USE DEF IInv
<1>1. pc \notin EarlyPc /\ pc \notin {"cpio", "stopped"} /\ BusInv
  BY DEF RestPc, EarlyPc, BusPc, BackPc, EntryPc, I2cInv
<1>2. bus = Quiet
  BY <1>1 DEF BusInv, EarlyPc
<1>3. CASE HardwareInit \/ I2cTransfer \/ OneTime
  BY <1>1, <1>3, EarlyStep
<1>4. CASE I2cBus
  BY <1>2, <1>4 DEF I2cBus, Controller, Begin, Shift, MoveByte, Nack, Stop, Hang, Quiet
<1>5. CASE Phys
  <2>1. \A q \in Role : phy[q] # "held"
    BY <1>5 DEF Phys, Train
  <2>2. phy["master"] \in {"passed", "failed"} /\ phy["slave"] \in {"passed", "failed"}
    BY <1>1, <2>1, BoardAssumption DEF LinkInv, TogetherInv, Role, LinkBuilt, Mine, PinsInv
  <2> QED
    BY <1>5, <2>2 DEF Phys, Train, Role
<1>6. CASE OtherChip
  BY <1>6, PeerPc DEF OtherChip, flow
<1>7. CASE Link
  BY <1>1, <1>7, LinkPc DEF Link
<1>8. CASE Boot \/ Operator
  <2>1. CASE VerifyUboot \/ VerifyFip
    <3>1. PICK n \in Name : Verify(n) /\ pc \notin {"halt", "reset"}
      BY <2>1 DEF VerifyUboot, VerifyFip, Name
    <3>2. \A m \in Name : mem'[m].src = mem[m].src
      BY <3>1 DEF Verify, SignInv
    <3> QED
      BY <3>1, <3>2 DEF Verify, NextImage, Goto, Quietly, Fine, RestPc, EntryPc
  <2>2. CASE Quit \/ BootReset
    BY <2>2 DEF Quit, BootReset, Shells, Goto, Quietly, Fine, flow, RestPc, EntryPc
  <2>3. CASE EnterFlow \/ Round \/ Halt \/ OpenDevice \/ RunDramInit \/ CpioReturns \/ CheckMode
             \/ Load \/ NorHeader \/ NorCopy \/ BootUboot
    BY <2>3 DEF EnterFlow, Round, Halt, OpenDevice, RunDramInit, CpioReturns, CheckMode, Load,
       NorHeader, NorCopy, BootUboot, RestPc, EntryPc
  <2> QED
    BY <1>8, <2>1, <2>2, <2>3 DEF Boot, Operator, FlowStep
<1> QED
  BY <1>3, <1>4, <1>5, <1>6, <1>7, <1>8 DEF Next

(* What the promise sees of a step of the rest. *)
LEMMA Entering ==
    ASSUME NorInv, BusInv, Next, pc \notin RestPc
    PROVE  /\ ~entered
           /\ entered' => BootUboot
           /\ pc' = "halt" => Halt
<1>1. ~entered /\ pc # "verify_shell"
  BY DEF NorInv, RestPc
<1>2. CASE HardwareInit \/ I2cTransfer \/ OneTime
  BY <1>1, <1>2, EarlyStep DEF flow, EarlyPc, BusPc, BackPc
<1>3. CASE I2cBus \/ Phys \/ OtherChip \/ Link
  BY <1>1, <1>3, SideStep, LinkPc DEF Link, flow, RestPc
<1>4. CASE Boot \/ Operator
  <2>1. entered' => BootUboot
    BY <1>1, <1>4 DEF Boot, Operator, FlowStep, EnterFlow, Round, Halt, OpenDevice,
       RunDramInit, CpioReturns, CheckMode, Load, NorHeader, NorCopy, VerifyUboot,
       VerifyFip, Verify, Quit, BootReset, flow
  <2>2. pc' = "halt" => Halt
    BY <1>1, <1>4 DEF Boot, Operator, FlowStep, EnterFlow, Round, OpenDevice,
       RunDramInit, cpio_call, CpioReturns, CheckMode, Load, NorHeader, NorCopy, BootUboot,
       VerifyUboot, VerifyFip, Verify, NextImage, Quit, BootReset, AfterBadDram, Loader, Goto,
       Loading, RestPc, EntryPc
  <2> QED
    BY <1>1, <2>1, <2>2
<1> QED
  BY <1>2, <1>3, <1>4 DEF Next

LEMMA SameImages ==
    \A n \in Name : /\ Promise!Whole(nor.img[n], n, FlashSize) <=> Whole(nor.img[n], n, FlashSize)
BY DEF Promise!Whole, Whole, Promise!HeaderOk, HeaderOk, Promise!image_check_magic,
   image_check_magic, Promise!image_check_hcrc, image_check_hcrc, Promise!HdrSize, HdrSize

LEMMA PromiseStep == IInv /\ IInv' /\ Next => [Promise!Next]_(Promise!vars)
<1> SUFFICES ASSUME IInv, IInv', Next
             PROVE  Promise!Next \/ UNCHANGED Promise!vars
  OBVIOUS
<1>1. BusInv /\ NorInv
  BY DEF IInv, I2cInv
<1>2. UNCHANGED <<nor, board, IsNor>>
  BY <1>1, NorStays
<1>3. faults \in Nat /\ faults' \in Nat /\ faults' >= faults
  BY <1>1, FaultsGrow DEF NorInv
<1>4. CASE pc \in RestPc
  <2>1. /\ pc' \in RestPc /\ UNCHANGED <<faults, entered>>
        /\ mem'["uboot"].src = mem["uboot"].src /\ mem'["fip"].src = mem["fip"].src
    BY <1>4, NothingFailsAtRest DEF Name
  <2>2. UNCHANGED pc \/ entered
    BY <1>1, <1>4, NothingFailsAtRest DEF NorInv, RestPc
  <2> QED
    BY <1>2, <2>1, <2>2 DEF Promise!vars
<1>5. CASE pc \notin RestPc
  <2>1. ~entered /\ pc # "halt" /\ (entered' => BootUboot) /\ (pc' = "halt" => Halt)
    BY <1>1, <1>5, Entering DEF RestPc
  <2>2. CASE IsNor /\ entered'
    <3>1. /\ pc = "boot_uboot" /\ UNCHANGED <<mem, faults>>
      BY <2>1, <2>2 DEF BootUboot, Quietly, Fine
    <3>2. Loaded("uboot") /\ Loaded("fip")
      BY <1>1, <2>2, <3>1 DEF NorInv
    <3>3. "uboot" \in Promise!WholeUboots({"uboot"}) /\ "fip" \in Promise!WholeFips({"fip"})
      BY <3>2, SameImages DEF Loaded, Name, Promise!WholeUboots, Promise!WholeFips
    <3>4. mem'["uboot"].src = "uboot" /\ mem'["fip"].src = "fip"
      BY <3>1, <3>2 DEF Loaded
    <3> QED
      BY <1>2, <2>1, <2>2, <3>1, <3>3, <3>4 DEF Promise!Next, Promise!HandOver,
         Promise!WholeUboots, Promise!WholeFips
  <2>3. CASE IsNor /\ ~entered' /\ pc' = "halt"
    <3>1. pc = "round" /\ retry # Retries /\ UNCHANGED faults
      BY <2>1, <2>3, FlowAssumption DEF Halt, Quietly, Fine
    <3>2. Refusable
      BY <1>1, <2>3, <3>1 DEF NorInv
    <3>3. \/ faults > 0
          \/ Promise!WholeUboots({"uboot"}) = {} \/ Promise!WholeFips({"fip"}) = {}
      BY <3>2, SameImages DEF Refusable, Name, Promise!WholeUboots, Promise!WholeFips
    <3> QED
      BY <1>2, <2>1, <2>3, <3>1, <3>3 DEF Promise!Next, Promise!Refuse,
         Promise!WholeUboots, Promise!WholeFips
  <2>4. CASE ~IsNor \/ (~entered' /\ pc' # "halt")
    <3>1. CASE UNCHANGED faults
      BY <1>2, <2>1, <2>4, <3>1 DEF Promise!vars
    <3>2. CASE faults' # faults
      <4>1. (faults' > 0) = TRUE
        BY <1>3, <3>2
      <4> QED
        BY <1>2, <2>1, <2>4, <4>1 DEF Promise!Next, Promise!Fault
    <3> QED
      BY <3>1, <3>2
  <2> QED
    BY <2>2, <2>3, <2>4
<1> QED
  BY <1>4, <1>5

(* The SPI NOR loader, the rounds and shells around it included, hands over
   whole images or has a reason to refuse. *)
THEOREM ImplementsPromise == Spec => KeepsPromise
<1>1. Init => Promise!Init
  <2> SUFFICES ASSUME Init PROVE Promise!Init
    OBVIOUS
  <2>1. nor.img \in [Name -> Promise!Image]
    BY FlowAssumption DEF Init, FlowInit, Image, Promise!Image, ImageName, Promise!ImageName
  <2>2. faults = 0 /\ pc = "xboot_main" /\ ~entered
    BY DEF Init, BoardInit, FlowInit
  <2> QED
    BY <2>1, <2>2 DEF Promise!Init, Promise!Nothing, Name
<1>2. IInv /\ IInv' /\ [Next]_all => [Promise!Next]_(Promise!vars)
  <2>1. UNCHANGED all => UNCHANGED Promise!vars
    BY DEF all, flow, Promise!vars, IsNor
  <2> QED
    BY <2>1, PromiseStep
<1> QED
  BY <1>1, <1>2, Invariance, PTL DEF Spec, KeepsPromise, Promise!Spec
=============================================================================
