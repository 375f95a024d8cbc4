----------------------------- MODULE XbootMain -----------------------------
(***************************************************************************)
(* xboot_main(): init_hw, the OTP reads and tool, and boot_flow, with all  *)
(* that goes on beside them: the I2C bus, the other chip of a CPIO link,   *)
(* the host and the operator.                                              *)
(***************************************************************************)
EXTENDS HwInit, Otp, BootFlow

CONSTANT FlashSize      \* of the SPI NOR flash, in units

ASSUME FlashAssumption == FlashSize \in Nat /\ \A im \in NorImages : HdrSize + im.size < FlashSize

all == <<board, pc, faults, i2c, hw, otp, cpio, flow>>

(* An empty image that is signed counts as loaded (README), and is left out. *)
Init ==
    /\ BoardInit /\ I2cInit /\ PowerInit /\ OtpInit /\ CpioInit /\ FlowInit
    /\ (board.secure => \A n \in Name : nor.img[n].size > 0 \/ nor.img[n] = NotAnImage)

HardwareInit == HwStep /\ UNCHANGED <<otp, cpio, flow>>
I2cTransfer == Driver /\ UNCHANGED <<board, hw, otp, cpio, flow>>
I2cBus == Controller /\ UNCHANGED <<board, hw, otp, cpio, flow>>
I2cMoves == Moves /\ UNCHANGED <<board, hw, otp, cpio, flow>>
OneTime == OtpNext /\ UNCHANGED <<i2c, hw, cpio, flow>>
Fuses == OtpStep /\ UNCHANGED <<i2c, hw, cpio, flow>>
Boot == FlowStep /\ UNCHANGED <<i2c, hw, otp>>
Operator == (Quit \/ BootReset) /\ UNCHANGED <<i2c, hw, otp>>
Link == CpioStep /\ UNCHANGED <<i2c, hw, otp, flow>>
Phys == Train /\ UNCHANGED <<i2c, hw, otp, flow>>
OtherChip == PeerStep /\ UNCHANGED <<i2c, hw, otp, flow>>

Next == \/ HardwareInit \/ I2cTransfer \/ I2cBus \/ OneTime
        \/ Boot \/ Operator \/ Link \/ Phys \/ OtherChip

(* The program goes on, the bus moves what it can and released PHYs train;
   the host, the operator, the other chip and the faults need not act. *)
Fairness == /\ WF_all(HardwareInit) /\ WF_all(I2cTransfer) /\ WF_all(I2cMoves)
            /\ WF_all(Fuses) /\ WF_all(Boot) /\ WF_all(Link) /\ WF_all(Phys)

Spec == Init /\ [][Next]_all /\ Fairness

(* BL31 is entered only on a memory that is sound, except behind a FAT boot,
   which does not look at the result (xboot.c:471-478, 1195). *)
DramTested == pc = "run_bl31" /\ ~FatMode /\ mode = board.mode => dram = Sound

(* In a secure build BL31 is entered only behind the signatures of both
   images, and with both decrypted where they are encrypted, whatever came
   before in the rounds and shells (xboot.c:878-907). *)
SignedBeforeEntry ==
    board.secure /\ pc = "run_bl31" =>
        \A n \in Name : /\ mem[n].signed
                        /\ mem[n].form = (IF board.encryption THEN "plain" ELSE "cipher")

(* Whatever happened before, the checks are behind when BL31 is entered. *)
CheckedBeforeEntry == DramTested /\ SignedBeforeEntry

Pads(d) == CASE d = "nor"      -> 21..26
             [] d = "emmc"     -> {20} \union 28..36
             [] d = "spinand1" -> 30..35
             [] d = "spinand2" -> 21..26
             [] d = "para"     -> 21..36

(* No pad belongs to two boot devices when INT_BOOT is set, though
   get_spi_nor_pinmux() never gives the answer SetBootDev() waits for
   (bootmain.c:35, xboot.c:1980). *)
PinsNotShared ==
    board.int_boot => \A d, e \in pins : d # e => Pads(d) \cap Pads(e) = {}

(* xBoot comes to rest for good: in BL31, in halt, a reset or the slave's
   stop, or where it waits for the operator, the host or the other chip
   without a limit; ten rounds are the most (sp_i2c.c:448-692, xboot.c:2080).
   The one place it does not come out of is the loop over a range of the OTP
   that ends at byte 0xFFFF (otp/mon_rw_otp.c:236, 257). *)
AtRest ==
    \/ pc \in Shells \union {"run_bl31", "halt", "stopped", "reset"}
    \/ pc = "otp_rw" /\ pkg = None
    \/ pc = "cpio" /\ phy[Peer(Mine)] = "held"
XbootSettles == <>[](AtRest \/ pc = "otp_endless")

(* spi_nor_boot, with the rounds, shells and retries around it, promises
   what every loader promises (ImageLoad). *)
IsNor == board.mode = "SPI_NOR_BOOT"
Promise == INSTANCE ImageLoad WITH
    Place <- Name,
    UbootMax <- FlashSize,
    FipMax <- FlashSize,
    content <- nor.img,
    mayUse <- [uboot |-> {"uboot"}, fip |-> {"fip"}],
    mustTry <- [uboot |-> {"uboot"}, fip |-> {"fip"}],
    faulted <- faults > 0,
    phase <- CASE IsNor /\ entered -> "ready"
               [] IsNor /\ pc = "halt" /\ ~entered -> "refused"
               [] OTHER -> "loading",
    booted <- IF IsNor /\ entered
              THEN [uboot |-> {mem["uboot"].src}, fip |-> {mem["fip"].src}]
              ELSE [uboot |-> {}, fip |-> {}]
KeepsPromise == Promise!Spec
=============================================================================
