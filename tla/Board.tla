------------------------------- MODULE Board -------------------------------
(***************************************************************************)
(* What the parts of xboot_main() share: the board and the build (chosen   *)
(* once), where the program is, and how much has gone wrong so far.        *)
(***************************************************************************)
EXTENDS Integers, FiniteSets, Sequences, TLC

CONSTANTS Boards,       \* the boards and builds of the instance
          MaxFaults     \* bound on what may go wrong

Mode == {"UART_ISP", "USB_ISP", "SDCARD_ISP", "SPI_NOR_BOOT", "SPINAND_BOOT",
         "PARA_NAND_BOOT", "EMMC_BOOT"}

ASSUME BoardAssumption ==
    /\ MaxFaults \in Nat
    /\ \A b \in Boards :
          /\ b.mode \in Mode            \* gbootRom_boot_mode
          /\ b.int_boot \in BOOLEAN     \* INT_BOOT of the strap pins
          /\ b.pin_x \in 1..2           \* bootdev_pinx
          /\ b.regulator \in {"RT5759", "STI8070X", "none"}
          /\ b.stampA30 \in BOOLEAN     \* first version of the chip
          /\ b.otp_hs \in BOOLEAN       \* CONFIG_HAVE_OTP_HS
          /\ b.secure \in BOOLEAN       \* CONFIG_SECURE_BOOT_SIGN
          /\ b.encryption \in BOOLEAN   \* CONFIG_ENCRYPTION
          /\ b.cpio \in {"off", "master", "slave"}  \* CONFIG_CPIO_..._MODE

VARIABLES board, pc, faults

BoardInit == board \in Boards /\ pc = "xboot_main" /\ faults = 0

Fault == faults < MaxFaults /\ faults' = faults + 1
Fine == UNCHANGED faults
=============================================================================
