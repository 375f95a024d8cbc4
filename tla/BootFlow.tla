------------------------------ MODULE BootFlow ------------------------------
(***************************************************************************)
(* boot_flow(): the loader of the boot mode is called, again and again     *)
(* with the register tool in between, until one of them has u-boot and fip *)
(* in memory and boot_uboot() lets them run.  The SPI NOR loader is here   *)
(* in full; of the other loaders there is what surrounds their reads, and  *)
(* their outcome (EmmcBoot, NandBoot and FatBoot model those).             *)
(***************************************************************************)
EXTENDS Uhdr, CpioLink

CONSTANTS Retries,      \* boot_flow: 10
          Step,         \* nor_load_uhdr_image: the chunk, 256 KiB
          NorImages     \* what may lie in the flash

ASSUME FlowAssumption == Retries \in Nat \ {0} /\ Step \in Nat \ {0} /\ NorImages \subseteq Image

Name == {"uboot", "fip"}

VARIABLES mode,     \* g_bootinfo.gbootRom_boot_mode
          pins,     \* the devices the pin multiplexer gives pins to
          retry,
          dram,     \* the memory: "off" or its defect
          nor,      \* the images in the flash: [img, signed]
          mem,      \* of each image: [src, got, signed, form] in memory
          entered   \* boot_uboot has been called

flow == <<mode, pins, retry, dram, nor, mem, entered>>

(***************************************************************************)
(* dram_test: memory of four words of two bits.  A defect is a bit that is *)
(* stuck, or two addresses that reach the same word.                       *)
(***************************************************************************)
Word == 0..3
Weight(b) == b + 1      \* of bit 0 or 1
Bit(w, b) == (w \div Weight(b)) % 2
Sound == [what |-> "sound"]
Stuck == [what : {"stuck"}, addr : Word, bit : 0..1, at : 0..1]
Alias == {d \in [what : {"alias"}, addr : Word, as : Word] : d.addr # d.as}
Defects == {Sound} \union Stuck \union Alias

(* the words read after value(a) was written to each address a, downwards:
   of two addresses of one word the lower one was written last *)
ReadBack(d, value) ==
    [a \in Word |->
        CASE d.what = "alias" /\ a \in {d.addr, d.as} ->
                value[IF d.addr < d.as THEN d.addr ELSE d.as]
          [] d.what = "stuck" /\ a = d.addr ->
                value[a] + (d.at - Bit(value[a], d.bit)) * Weight(d.bit)
          [] OTHER -> value[a]]
Expect(flip) == [a \in Word |-> IF flip % 2 = 1 THEN 3 - a ELSE a]
dram_test(d) == \E flip \in 1..2 : ReadBack(d, Expect(flip)) # Expect(flip)

Unloaded == [src |-> "none", got |-> 0, signed |-> FALSE, form |-> "cipher"]

(* The boot ROM has set the boot mode and the pins of its device; those of
   the SPI NOR flash are enabled by the hardware (boot_flow's comment). *)
FlowInit ==
    /\ mode = board.mode
    /\ pins = {"nor"}
    /\ retry = Retries
    /\ dram = [what |-> "off"]
    /\ nor \in [img : [Name -> NorImages], signed : [Name -> BOOLEAN]]
    /\ (mode # "SPI_NOR_BOOT" => \A n \in Name : nor.img[n] = NotAnImage)
    /\ (~board.secure => \A n \in Name : ~nor.signed[n])
    /\ mem = [n \in Name |-> Unloaded] /\ entered = FALSE

Goto(label) == pc' = label
Quietly == Fine /\ UNCHANGED <<board, cpio>>

(* mutant: the pins of the flash are kept *)
Released_no == pins
Released == IF mode # "SPI_NOR_BOOT" /\ board.int_boot THEN pins \ {"nor"} ELSE pins
EnterFlow ==
    /\ pc = "boot_flow" /\ Goto("round")
    /\ pins' = Released
    /\ Quietly /\ UNCHANGED <<mode, retry, dram, nor, mem, entered>>

(* SetBootDev, the part about the pins: get_spi_nor_pinmux() is 0 or 1 and so
   never the 2 for which the flash would lose its pins here *)
SpiNand == IF board.pin_x = 1 THEN "spinand1" ELSE "spinand2"
SetBootDev(m) ==
    CASE m = "EMMC_BOOT" -> (pins \ {"spinand1", "spinand2"}) \union {"emmc"}
      [] m = "SPINAND_BOOT" -> (pins \ {"spinand1", "spinand2"}) \union {SpiNand}
      [] m = "PARA_NAND_BOOT" -> pins \union {"para"}
      [] OTHER -> pins

(* One round: the loader of the mode is called.  UART_ISP is the register
   tool; the two modes a FAT boot leaves behind are nobody's. *)
Round ==
    /\ pc = "round" /\ retry > 0 /\ retry' = retry - 1
    /\ pins' = SetBootDev(mode)
    /\ CASE mode = "UART_ISP" -> Goto("uart_shell")
         [] mode \in {"USB_ISP", "SDCARD_ISP"} -> Goto("find_file")
         [] mode \in {"SPINAND_BOOT", "PARA_NAND_BOOT"} -> Goto("init_device")
         [] mode \in {"SPI_NOR_BOOT", "EMMC_BOOT"} -> Goto("draminit")
         [] OTHER -> Goto("shell")
    /\ Quietly /\ UNCHANGED <<mode, dram, nor, mem, entered>>

Halt == /\ pc = "round" /\ retry = 0 /\ Goto("halt")
        /\ Quietly /\ UNCHANGED flow

(* fat_boot and InitDevice *)
OpenDevice ==
    /\ pc \in {"find_file", "init_device"}
    /\ \/ Goto("draminit") /\ Fine
       \/ Goto("shell") /\ Fault
    /\ UNCHANGED <<board, cpio, flow>>

FatMode == mode \in {"USB_ISP", "SDCARD_ISP"}
Loader == IF FatMode THEN "check_mode"
          ELSE IF mode = "SPI_NOR_BOOT" THEN "load_fip" ELSE "load"

(* run_draminit: dram_init ends with the memory in some state, and the test
   looks at it *)
RunDramInit ==
    /\ pc = "draminit"
    /\ dram' \in Defects /\ IF dram' = Sound THEN Fine ELSE Fault
    /\ IF dram_test(dram') THEN Goto("dram_shell") /\ UNCHANGED cpio
       ELSE cpio_call(Loader) /\ UNCHANGED line
    /\ UNCHANGED <<board, mode, pins, retry, nor, mem, entered>>

(* behind cpio_master() and cpio_slave() *)
CpioReturns ==
    /\ pc = "cpio" /\ step[Mine] = "done"
    /\ Goto(IF Mine = "slave" THEN "stopped" ELSE Loader)
    /\ Quietly /\ UNCHANGED flow

(* After the shell, run_draminit returns -1; do_fat_boot does not look. *)
AfterBadDram == IF FatMode THEN Loader ELSE "shell"

(* fat_sdcard_check_boot_mode: a card of the update tool, or a bootable one *)
CheckMode ==
    /\ pc = "check_mode" /\ Goto("load")
    /\ mode' \in {mode, IF mode = "USB_ISP" THEN "USB_BOOT" ELSE "SDCARD_BOOT"}
    /\ Quietly /\ UNCHANGED <<pins, retry, dram, nor, mem, entered>>

(* what EmmcBoot, NandBoot and FatBoot do *)
Load ==
    /\ pc = "load"
    /\ \/ /\ \E s \in [Name -> IF board.secure THEN BOOLEAN ELSE {FALSE}] :
                mem' = [n \in Name |-> [Unloaded EXCEPT !.src = "device", !.signed = s[n]]]
          /\ Goto("boot_uboot") /\ Fine
       \/ Goto("shell") /\ UNCHANGED mem /\ Fault
    /\ UNCHANGED <<board, cpio, mode, pins, retry, dram, nor, entered>>

(***************************************************************************)
(* spi_nor_uboot() and nor_load_uhdr_image(): fip first, then u-boot       *)
(***************************************************************************)
Loading == IF pc \in {"load_fip", "copy_fip"} THEN "fip" ELSE "uboot"
SIGN_DATA_SIZE == IF board.secure THEN HdrSize ELSE 0
Length(n) == nor.img[n].size + SIGN_DATA_SIZE

NorHeader ==
    /\ pc \in {"load_fip", "load_uboot"}
    /\ mem' = [mem EXCEPT ![Loading] = [Unloaded EXCEPT !.src = Loading, !.got = HdrSize,
                                                         !.signed = nor.signed[Loading]]]
    /\ Goto(IF ~HeaderOk(nor.img[Loading], Loading) THEN "nor_shell"
            ELSE IF Loading = "fip" THEN "copy_fip" ELSE "copy_uboot")
    /\ Quietly /\ UNCHANGED <<mode, pins, retry, dram, nor, entered>>

(* mutant: the last chunk is left out *)
Copied_short(i, n) == i + Step >= Length(n)
Copied(i, n) == i >= Length(n)
(* one chunk, or the test of the sum behind the last one *)
NorCopy ==
    /\ pc \in {"copy_fip", "copy_uboot"}
    /\ LET n == Loading
           i == mem[n].got - HdrSize
           rest == Length(n) - i
       IN IF ~Copied(i, n)
          THEN /\ mem' = [mem EXCEPT ![n].got = @ + IF rest < Step THEN rest ELSE Step]
               /\ UNCHANGED pc
          ELSE /\ UNCHANGED mem
               /\ Goto(IF ~image_check_dcrc(nor.img[n], mem[n].got) \/ Length(n) <= 0 THEN "nor_shell"
                       ELSE IF n = "fip" THEN "load_uboot" ELSE "boot_uboot")
    /\ Quietly /\ UNCHANGED <<mode, pins, retry, dram, nor, entered>>

(***************************************************************************)
(* mon_shell(): the operator quits, resets the chip, or never answers.     *)
(* boot_not_support() opens it after every loader.                         *)
(***************************************************************************)
Shells == {"uart_shell", "dram_shell", "nor_shell", "shell", "verify_shell"}
Quit ==
    /\ pc \in Shells
    /\ Goto(CASE pc = "dram_shell" -> AfterBadDram
              [] pc = "verify_shell" -> "halt"
              [] pc = "shell" -> "round"
              [] OTHER -> "shell")
    /\ Quietly /\ UNCHANGED flow
BootReset == pc \in Shells /\ Goto("reset") /\ Quietly /\ UNCHANGED flow

(***************************************************************************)
(* boot_uboot() and sp7350_image_verify_decrypt()                          *)
(***************************************************************************)
(* mutant: fip is not verified *)
ToVerify_uboot(verified) == IF verified = "none" THEN "uboot" ELSE "none"
ToVerify(verified) == CASE verified = "none" -> "uboot" [] verified = "uboot" -> "fip"
                        [] OTHER -> "none"
NextImage(verified) ==
    Goto(CASE ToVerify(verified) = "uboot" -> "verify_uboot"
           [] ToVerify(verified) = "fip"   -> "verify_fip"
           [] OTHER                        -> "run_bl31")

BootUboot ==
    /\ pc = "boot_uboot" /\ entered' = TRUE
    /\ IF board.secure THEN NextImage("none") ELSE Goto("run_bl31")
    /\ Quietly /\ UNCHANGED <<mode, pins, retry, dram, nor, mem>>

(* The sums are compared, and the data are decrypted whatever came out. *)
Verify(n) ==
    /\ mem' = [mem EXCEPT ![n].form = IF board.encryption THEN "plain" ELSE @]
    /\ IF mem[n].signed THEN NextImage(n) ELSE Goto("verify_shell")
    /\ Quietly /\ UNCHANGED <<mode, pins, retry, dram, nor, entered>>
VerifyUboot == pc = "verify_uboot" /\ Verify("uboot")
VerifyFip == pc = "verify_fip" /\ Verify("fip")

FlowStep == \/ EnterFlow \/ Round \/ Halt \/ OpenDevice \/ RunDramInit \/ CpioReturns
            \/ CheckMode \/ Load \/ NorHeader \/ NorCopy
            \/ BootUboot \/ VerifyUboot \/ VerifyFip
=============================================================================
