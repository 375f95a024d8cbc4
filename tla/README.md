# xBoot in TLA+

xBoot is the second-stage boot loader of the Sunplus SP7350 (Q654/Q645 family).
The boot ROM loads it into SRAM; it brings DRAM up, reads `u-boot` and `fip`
(BL31, OP-TEE) from the selected boot device, checks them and hands all four
cores over to BL31. It is C and a little assembly, it has no operating system
and one thread that polls. What is hard about it is not the number of threads of
its own: the devices it polls work at their own pace, any device operation may
fail, images may be torn, stale or missing, several copies are loaded over each
other, and at the very end four cores run at once.

This directory holds TLA+ modules for xBoot from its first register write to the
jump of the last core to BL31: the boot flow, every loader, the drivers under them
with the devices they poll, and the hand-off. There are TLC runs over small
instances, and machine-checked proofs about all four loaders and the rest of
`xboot_main()`, the page reads of both NAND drivers, the identification of a card and the
sector read, the xHCI ring and the hand-off. `PROJECT.json`
maps every definition to the lines it stands for and lists runs, mutants, hazards,
findings and theorems. Paths below are relative to the repository.

    tlc -config EmmcBoot.cfg MCEmmcBoot        # likewise for the other runs
    tlapm EmmcBoot_proofs.tla                  # likewise for the other X_proofs

## 1. Inventory

| component | state it keeps | operations | how it meets the others |
|---|---|---|---|
| boot flow (`xboot.c`: `xboot_main`, `boot_flow`, `boot_not_support`; `common/bootmain.c`) | `g_bootinfo`: boot device, GPIO mode, offsets; the round | select device and pins, start the loader, offer the register tool, try again | calls one loader; expects it not to come back |
| power and clocks (`init_hw`) | PMC, clocks, regulator | set the voltage through I2C, isolate and switch power domains | first step of `xboot_main` |
| DRAM initialisation (`run_draminit`, `draminit/`) | binary in SRAM, DRAM parameters | load, check, call the training binary | before every loader |
| eMMC boot (`emmc_boot`, `emmc_load_uhdr_image`) | sector buffer `g_boothead`, load buffers, `blk_start1`, `blk_start2` | read GPT, look for uboot1 and uboot2, fall back, load fip | calls the SD/eMMC read, then `boot_uboot` |
| NAND boot (`nand_uboot`, `nand_load_uhdr_image`, `bblk_*`) | search position, load buffers | search blocks for headers, load, fall back | calls the page read of a NAND driver, then `boot_uboot` |
| SPI NOR boot (`spi_nor_uboot`) | none: memory-mapped flash | check and copy | `boot_uboot` |
| FAT boot (`do_fat_boot`, `fat/fat_boot.c`) | sector buffer, `g_finfo` (volume, three files, port) | find the volume, search the directory, select the mode, load | SD read or USB read, `boot_uboot` |
| image checks (`include/image.h`, `lib/image.c`) | none | magic number, header sum, data sum | called by every loader |
| SD/eMMC driver (`sdmmc/`) | card context, read delay, clock divider | identify a card; read sectors by polling, with retries | shares registers with a controller that runs by itself |
| xHCI driver (`usb/xhci_usb.c`) | command, control and bulk rings, event ring | queue transfers, wait for events, enumerate, mass storage | shares the rings in memory with the controller |
| EHCI driver (`usb/ehci_usb.c`) | queue heads | the same for USB 2 | likewise |
| NAND drivers (`nand/`) | chip parameters | page read, ECC | shares registers with two controllers and BCH |
| hand-off (`boot_uboot`, `load_tfa_optee`, `go_a32_to_a64`, `arch/arm/sp7350/a64up/`, `warmboot/`) | SRAM words the cores wait for, reset vectors | copy BL31 and OP-TEE, switch to AArch64, wake the others | four cores share memory; warm boot enters it from the side |
| signature check (`common/verify_image*.c`) | keys, digests | RSA, SHA, AES through the security engine | called between load and hand-off |
| I2C (`i2c/sp_i2c.c`) | FIFO, transfer state | polled write and read | called by `init_hw` |
| OTP (`otp/`) | fuses, packages of a host | read, burn, answer | at the start, and for a host on the serial line |
| CPIO link (`cpio/`) | two GPIO lines, a PHY on each chip | `cpio_master`, `cpio_slave` | another chip that runs the other side |
| ADC, timer, console, strings | registers | polled I/O | called from everywhere |
| start-up assembly, caches | stack, page table | straight-line set-up | first |
| host tools (`tools/`, `misc/`) | - | - | build only |

The hard behaviours, and what makes each component correct:

* **Loaders.** A read may fail or stop half way, and copies are loaded over each
  other. Correct: what is handed over is one whole u-boot and one whole fip,
  with the signature that stands behind the data; the update is preferred, and a
  spare copy is used when the first choice is broken; the loader ends.
* **SD/eMMC read.** Register flag, error bit and data change between two polls,
  and a word of a cancelled attempt must not count for the next one. Correct: a
  read that reports success has stored exactly the words of one attempt; retries
  try every sampling delay; the read ends though the controller falls silent.
* **xHCI rings.** The controller reads the memory the driver writes. Correct:
  each transfer is executed once, in order, and never while it is half written.
* **Card identification.** Commands and responses are lost or broken; the card
  remembers what it was told before. Correct: the card that is used is the one that
  is there, and host and card use the same bus width.
* **USB.** Events of earlier transfers, halted endpoints, toggles, a disk that does
  not answer. Correct: a good read holds the data of this read; driver and disk agree
  on where the protocol stands; what the driver may wait for without end is known.
* **NAND drivers.** A transfer that was given up still runs. Correct: a good page is
  the page asked for.
* **Boot flow.** Ten rounds with a shell in between, each with what the last one left.
  Correct: BL31 is entered only on tested memory and behind checked signatures, and
  otherwise xBoot comes to rest in a place that is meant for it.
* **OTP, CPIO, power.** Steps that cannot be undone, or that another chip must have
  reached: no false acknowledgement, no PHY released alone, no domain off without
  isolation.
* **Hand-off.** Writes of core 0 arrive later than they are executed, and cores
  sleep until an event. Correct: no core starts before its code is in place, and
  no core is left behind.

`PROJECT.json` ("hazards") lists these at their lines, each with the properties that
would catch it going wrong, or a note why none can.

## 2. The modules

| module | models | role |
|---|---|---|
| `Uhdr` | `image.h`, `image.c` | the header of an image and its three checks |
| `ImageLoad` | what `boot_uboot` expects of a loader | abstract specification |
| `EmmcBoot` | `emmc_boot`, `emmc_load_uhdr_image` | implements `ImageLoad` |
| `NandBoot` | `nand_uboot`, `nand_load_uhdr_image`, `bblk_find_image`, `bblk_read` | implements `ImageLoad` |
| `FatBoot` | `do_fat_boot`, `fat_boot`, `fat_load_fip`, `fat_load_uhdr_image` | implements `ImageLoad` |
| `FatRead` | `fat_read_file`, `next_cluster`, `fat_read_fat_for_training_fw`, `lba2sec_for_training_fw` | sectors and bytes of a file |
| `SdIdentify` | `initDriver_SD`, `IdentifyStorage` and all it calls | driver and card |
| `SdRead` | `ReadSDSector`, `ReadSDMultipleSector`, `ReadSectorByPolling`, `hwSdIdleWait`, `sdTryNextReadDelay` | driver and controller |
| `TdQueue` | what a ring is for | abstract specification |
| `XhciRing` | `prepare_ring`, `queue_trb`, `inc_enq`, `giveback_first_trb`, `bulk_tx`, `ctrl_tx`, `queue_command` | driver and controller; implements `TdQueue` |
| `UsbDisk` | what both USB drivers share, and the disk | bulk-only protocol |
| `UsbXhci` | `usb_init`, `wait_for_event`, `bulk_tx`, `ctrl_tx`, `stor_BBB_transport`, `usb_readSector` | driver and controller |
| `UsbEhci` | `usb2_init`, `USB_transfer`, `doTransfer`, `usb2_readSector` | driver, with the toggles of the disk |
| `Usb` | which of the two `fat_boot` calls | composes `UsbXhci` and `UsbEhci` |
| `NandChip` | `bblk_read`, `InitDevice`, the pages | what both NAND drivers share |
| `SpiNand` | `spi_nand.c`, `bch.c` | driver and DMA |
| `ParaNand` | `para_nand.c`, `para_nand_hal.c` | driver and command queue |
| `NandPage` | what `bblk_read` relies on | composes `SpiNand` and `ParaNand` |
| `Board` | what the parts of `xboot_main` share | board, build, place in the program |
| `I2cMaster` | `sp_i2c.c` | driver, controller and regulator |
| `HwInit` | `init_hw` | extends `I2cMaster` |
| `Otp` | OTP reads of `xboot_main`, `mon_rw_otp.c`, `sp_otp.c` | program and host |
| `CpioLink` | `cpio_master`, `cpio_slave` | two chips |
| `BootFlow` | `boot_flow`, `SetBootDev`, `run_draminit`, `dram_test`, the SPI NOR loader, verification, `mon_shell` | extends `CpioLink` |
| `XbootMain` | `xboot_main` | composes `HwInit`, `Otp` and `BootFlow`; implements `ImageLoad` on SPI NOR |
| `SmpBoot` | `boot_uboot`, `load_tfa_optee`, `go_a32_to_a64`, a64up, warmboot | four cores and a store buffer |
| `EmmcBoot_proofs`, `Nand_proofs` (`NandBoot` and `NandPage`), `FatBoot_proofs`, `SdRead_proofs`, `SdIdentify_proofs`, `Usb_proofs` (`XhciRing` and `Usb`), `XbootMain_proofs`, `SmpBoot_proofs` | - | TLAPS proofs about these modules |

`MCx` gives module `x` its instances for TLC. One of them composes: `MCFatBoot` puts a single read of `FatRead` in front of `FatBoot`.
`XbootMain` is `xboot_main()` with all its parts: `HwInit` over `I2cMaster`, `Otp`,
`BootFlow` with `CpioLink`, on one `Board`; `MCXbootMain` only bounds its initial states.

**Data abstraction.** An image is a record: are its magic number, header sum and
data right, its name, its size. Sizes are counted in units of 64 bytes, the size
of the header, so the arithmetic on header, body, signature and sector is that of
the code. A checksum is a Boolean about the medium *and* about how many units are
in memory: `image_check_dcrc(im, upto)` fails if less than the data was read.
A load buffer remembers the place on the device it was read from and up to where.

**Granularity.** The loaders are sequential: one action is one device operation
with all that the program does until the next. A failing operation is a
disjunct or an action of its own and leaves the buffer untouched, torn or
overwritten. In `SdRead`, `XhciRing` and `SmpBoot` one action is one access to
what the other side shares: a register, a TRB, a write.

### EmmcBoot
`disk` is the medium, `head` is `g_boothead`, `buf` the two load buffers, `i`,
`blk_start1`, `blk_start2` the locals of `emmc_boot`, `call` the arguments of the
running `emmc_load_uhdr_image`. `initDriver_SD`, `SetMMCPartitionNum`,
`ReadGptHeader` and `ReadGptEntries` are what comes before the loop;
`LookForUboot1`, `LookForUboot2`, `FallbackToUboot1`, `BadUboot`, `LoadFip` the
places from where `emmc_load_uhdr_image` is called or given up; `ReadHeader`,
`ReadBody` and `ReadFails` its reads; `Return` what each caller makes of the
result. The build is the one with `HAVE_UBOOT2_IN_EMMC`.

### NandBoot
`stage` tells which call of `nand_load_uhdr_image` runs, `step` whether it looks
for the header or loads, `i` the block, `got` the bytes of `bblk_read`. A page may
be permanently bad (part of the chip) or fail once (`faults`). The build is the
one with `HAVE_UBOOT2_IN_NAND`. The assumption `ChipAssumption` keeps every search
window on the chip. `NoEmptyAssumption` leaves out images of no data whose sum is right, which
count as loaded (section 4), and `DataAssumption` says that the data behind the header of a
whole image do not look like a header where a block begins: the search for the update steps
through them block by block.

### FatBoot
One or more disks behind an SD slot, a USB port or a hub. `InitDevice`, `ReadMbr`,
`ReadDbr` find the volume, `ReadDirSector`, `LookAtFile`, `LookAtOther`,
`NextSector`, `NextCluster`, `EndOfDirectory` are the two variants of the search,
`SelectMode` is `fat_sdcard_check_boot_mode`, `ReadFipTable` is `fat_load_fip`,
and `ReadHeader`, `ReadBody`, `CheckData` are `fat_load_uhdr_image`. The program
looks at the result of a read only for the first sector, and so does the model:
after any other failed read it goes on with what memory holds. That first result is always good on USB,
as `usb_readSector` and `usb2_readSector` return 0 whatever happened, so a USB volume is looked for in what memory holds
from the start. A table word left by a failed read may name any cluster: one of the directory, none, or one
`Elsewhere`, a file whose data hold no directory entry xBoot looks for. `DirectoryAssumption` says
what a volume is: a root directory has a cluster and a cluster a sector, that of FAT16
is one run of sectors, and a file name occurs once.

### FatRead
`req` is the call and the volume, `rd` the locals and what has been stored. `Walk` goes
to the target cluster, `HeadRead`, `PartRead`, `WholeRead` and `RestRead` are the four
parts of `fat_read_file`, `Fill` is one cluster of the walk for the training firmware. A
byte is named by its sector and place, so a byte in a wrong place shows, and so does
one behind the length asked for. Behind the mark that ends a chain the program takes
the mark, or any entry of the table, for a cluster: `NextOf`. `ChainAssumption` says what a file
is: it has each of its clusters once, and none has a number from which on the code sees an end. On
FAT32 that is 0x0FFFF000 (`fat/fat_boot.c:219`), not 0x0FFFFFF8: where less than a cluster is
left, a cluster among the last 4096 numbers would be replaced by the one behind the cluster just
read, so the program does not support files there (the volume has 268 million clusters then).

### SdIdentify
The card is external and answers as the standards say; each command may be lost on
the way, and each response lost or broken, up to `MaxFaults` times. A card may be cold, or
left selected with four lines by an earlier identification. The controller may also give up a command that has no
response (`ControllerFails`: CMD0 and the dummy clocks). `missed` is a history variable: which failure the driver has
not noticed. An eMMC device may refuse the switch of the width; the driver then looks at bit 6 of its
status, about which nothing is assumed (section 4).

### UsbDisk, UsbXhci, UsbEhci, Usb
`disk` is the disk's side of the protocol: which command it is in, and the phase. It may
stall, fail with another error, send less than asked for, answer with a bad status, or fall silent.
`UsbXhci` has the event ring with both cycle bits (`enq` and `pcs` are the controller's, `ev_deq` and
`ev_ccs` the driver's), `work` for what is queued (`XhciRing` shows how it gets there), each piece with the
slot it is for, and `halted` for the endpoints, by slot, that answer no more after a stall, another error, or because the device hangs.
What is still queued for a device the driver has left does not hold up the next one (`PassOver`). `UsbEhci`
has no ring: a transfer ends with its queue head; what counts is the toggle on both sides and the address.
With xHCI the two root ports are those of one connector, so one device is plugged in at most
(`OneDevice`), and of the devices on a hub one is a disk at most (`OneDisk`): its bulk endpoints are then
the only ones. With EHCI a hub may have any number of disks. `Usb` starts with either driver.

### NandChip, SpiNand, ParaNand, NandPage
`SpiNand` is the build with `CFG_SUPPORT_DMA_MODE`: `dma` is the transfer in the
controller, which ends at any time (`DmaEnds`), also after the driver gave it up. In
`ParaNand` `queue` holds the commands fired and not yet executed, `sts` the latched
status, `bmc` the buffer the data arrive in. An erased page is told from a bad one by
a second read without ECC.

### Board, I2cMaster, HwInit, Otp, CpioLink, BootFlow
`pc` is one program counter for `xboot_main`. `I2cMaster` has the FIFO, the interrupt status
and the bus; the regulator acknowledges or not, or the bus is stuck. `HwInit` is the set-up of
the two regulators on top of it, and the PMC. In `Otp` the host may send any package
at any time, and a fuse may burn or not. The range of a package need not fit its payload, and may end at 0xFFFF, where the
loops over it never end (`Endless`). What such a read writes behind its buffer is left out. `CpioLink` runs both roles: this chip's xBoot and the
peer, which may start anew. `BootFlow` has the SPI NOR loader in full; the loading
part of the others is an outcome, because their own modules show what it is. `entered` says that
`boot_uboot` was called, `mem` what is in memory and whether it was verified and decrypted.

### SdRead
The driver is `Issue`, `Top`, `Wait`, `Delay`, `Take`, `Report`, `IdleWait` and
`StopTransmission`, the controller `Receive`, `CheckCrc` and `Break`. Every access
to a register is a step of its own, so that a word, an error or the end may come
between any two. A word is known by the attempt and the position it belongs to.

### XhciRing
`trb`, `cycle` and `link_chain` are the ring in memory, `enqueue` and `cycle_state`
the driver's side, `deq` and `ccs` the controller's. The refinement reads the
queue of `TdQueue` off the ring by the controller's rule, the cycle bits from its
dequeue pointer on: what is half written must not show.

### SmpBoot
`store` holds the writes core 0 has made and memory has not seen, oldest first;
`Drain` is the arrival of one; `Dsb` waits for all. Each core has an event
register, as for `wfe`. The loop in the boot ROM in which cores 1 to 3 wait
is not in the repository: `Look` and `WaitForEvent` are external. A fip without the name ends in the register tool
(`BadToc`), and when the operator leaves it core 0 goes on (`QuitShell`).

## 3. The runs

Each passing run was also checked to catch mutants of the code: `PROJECT.json`
names for every property a change of one definition (a dropped signature, a
search one block short, a `dsb` left out) under which TLC finds it violated.

| run | instance | states | properties |
|---|---|---|---|
| `emmc_boot` | four partitions, each whole (one or two sectors), torn, absent; three of them also with a damaged header, too large, empty or another image; fip whole or torn; GPT or none; up to 2 failing operations; a sector of 4 units | 277 k | `TypeOK`, `SignatureLoaded`, `UpdatePreferred`, `OneCopyIsSpare`, `KeepsPromise` |
| `nand_boot` | 8 blocks of 2 pages, search window 2, candidates in every block of the window, one bad page or block at every place, 1 transient failure | 45 k | the same without `TypeOK` |
| `fat_boot` | SD card, USB disk, hub with one or two disks; FAT16, FAT32, neither; with and without MBR; directories of up to two clusters; `ISPBOOOT.BIN` absent, empty, small, large; images whole, torn, too large, empty; up to 2 failing operations. And single reads: chains of 1 to 3 scattered clusters of 1, 2 or 4 sectors of 2 bytes, three end marks, every offset and length; a training table of 5 | 82 k | `IspFileDecides`, `SignatureLoaded`, `FileIsFound`, `FatBootEnds`, `KeepsPromise` |
| `sd_identify` | SD and eMMC slot; cards of both capacities and versions, none; cold or left selected; 3 attempts, 4 questions for readiness, 3 tries of a status, up to 3 faults | 93 k | `IdentifiedRight`, `WidthsAgree`, `IdentificationEnds` |
| `sd_read` | 2 blocks of 2 words, 3 delays, 4 retries, 2 polls for a word; SD and eMMC | 389 k | `GoodReadIsWhole`, `AllCombinationsBeforeOneAgain`, `ReadEnds` |
| `xhci_ring` | ring of 6 TRBs with the link, transfers of 1 to 4 TRBs | 4.8 k | `ChainIsUnbroken`, `NoTrbIsOverwritten`, `TdsAreExecutedOnceInOrder` |
| `usb` | both drivers; a disk, a hub, another device, a broken one or nothing on one or two ports or behind a hub of 3; 8-sector reads, 2 calls, 2 faults of the disk; 4 event TRBs, 1 event of a port, a limit of 3 events of another type, 2 tries of test unit ready | 625 k | `ReadIsWhole`, `EventIsFound`, `RequestsArrive`, `CommandsInStep`, `UsbReturns` |
| `nand_page` | 3 pages, good, uncorrectable or erased; reads of up to 2 pages, 2 calls, 2 failures; both chips | 645 k | `GoodReadIsWhole`, `ReadReturns` |
| `xboot_main` | every boot mode and pin set; each regulator and none; secure, encrypted and plain builds; OTP tool with 2 packages; CPIO master, slave or off; memory sound or with a defect; flash images whole, torn, damaged, absent; 2 rounds, 2 polls, 2 faults | 314 k | `OnlyVoltageWritten`, `AckMeansBurned`, `ReleasedTogether`, `CheckedBeforeEntry`, `PinsNotShared`, `KeepsPromise`, `XbootSettles` |
| `smp_boot` | 4 cores, fips of up to 2 entries in any order, with the name and without, cold and warm | 100 k | `VectorBeforeSwitch`, `Bl31FindsAllInPlace`, `AllCoresReachBl31` |

What the properties say:

* `KeepsPromise` (four loaders: eMMC, NAND, FAT, SPI NOR): every behaviour is one of `ImageLoad`. What is
  handed over is whole and from a place where the medium says it may be; a
  loader refuses only after a device failure or when no whole u-boot or no whole
  fip is in the places it has to look at.
* `SignatureLoaded`: the signature is behind the data and *not* covered by the data
  sum; only the length of the last read brings it into memory.
* `UpdatePreferred`, `OneCopyIsSpare`: which of two copies runs, and that the other
  one is used after one failed read. On NAND the update is the first u-boot behind the end of uboot1, as the comment at
  `xboot.c:1862` has it, and `UpdatePreferred` is about a uboot1 at `app_blk_start`, or whole and less than its own length
  behind it; further behind, the update may be ignored, which `Uboot2StartsBehindUboot1` is about.
* `IspFileDecides`: the files chosen on an SD card or a USB disk, and the disk
  chosen on a hub, when no read fails.
* `FileIsFound`: `ReadsTheFile`, a read that passes has stored the bytes of the file from the offset on, each
  in its place and none behind the length. And `TableIsTheFile`, the table for the training
  firmware leads to the file's sectors, whatever mark ends the chain.
* `IdentifiedRight`: a card that is used is of the kind and capacity that is there, and at the
  address it has, but for an attempt that ended with a failed CMD0. `WidthsAgree`: bus widths, also over a lost CMD0, but
  for an unnoticed refusal.
* `ReadIsWhole` (`usb`: both host drivers), `GoodReadIsWhole` (`nand_page`: both chips): data
  reported as good are those of this read, though the event, packet or transfer that
  ended the wait may be an earlier one's.
* Only `emmc_boot` checks a type invariant; those of the other modules are there for proofs.
* `EventIsFound`: the limit of `wait_for_event`, behind which its callers would use `NULL`, is
  never reached. `RequestsArrive`: with xHCI a request goes
  to the slot of the hub (`HubIsAsked`), with EHCI to an address no other device has (`OneReceiver`). `CommandsInStep`: host and
  disk agree on toggles and phase between two commands.
* `UsbReturns` (`XhciReturns` and `EhciReturns`), `ReadReturns`, `IdentificationEnds`: the drivers return; the
  exceptions they name (a halted endpoint, a silent disk, a device that is not high speed on the
  EHCI root port, a disk on EHCI that reports again and again that a read failed) are the places where the code waits or
  repeats for ever.
* `CheckedBeforeEntry` (`DramTested` and `SignedBeforeEntry`): what must have happened before BL31 is entered, over all
  rounds. `XbootSettles`: it comes to rest, or burns and reads fuses for ever for a package that ends at 0xFFFF. `PinsNotShared`: no pad belongs to two boot devices.
* `OnlyVoltageWritten`, `AckMeansBurned`, `ReleasedTogether`: see the inventory.
* `GoodReadIsWhole` (`sd_read`): success means every word of the last attempt in its place and
  every CRC right. `AllCombinationsBeforeOneAgain`: no sampling delay is tried
  twice before all have been. `ReadEnds` holds though the controller may fall silent.
* `TdsAreExecutedOnceInOrder` (refinement), `NoTrbIsOverwritten` (there is no test
  for room in the ring: waiting for each transfer must be enough),
  `ChainIsUnbroken` (the chain bit is carried across the link).
* `VectorBeforeSwitch`, `Bl31FindsAllInPlace`, `AllCoresReachBl31`: nothing starts before it is in memory, and no core sleeps for ever. With a
  fip without the name nothing of the fip is in memory, and the shell may be the end.

**Why the bounds are enough.** Four is the number of GPT entries the code reads.
Two faults are one more than any property tolerates, so that a fault during the
fallback happens. Image sizes sit at the edges: in one sector, the signature in a
sector of its own, at the size limit. The NAND window ends between the
candidates, so that an image outside of it exists. In the FAT runs a sector has two
entries and a directory two clusters, so every kind of boundary is crossed. With
three delays and five attempts, of which each may step the combination, all six
combinations are used and the first one comes round again (also checked with TLC). Two words make a first and a last in each block, and the
last word of the last block is where the CRC comes after the loop. A ring of six
with transfers of four lets a transfer begin at every place and cross the link in
every way. Four is the number of cores. In `sd_identify` three faults allow a lost CMD0 before a
lost CMD8 or ACMD6, and every loop has one turn more than it takes to repeat and give
up. In `usb` a second read is the one that meets the event, toggle or tag left by a fault in the first (the theorems
have no limit for the reads); the event ring of four wraps within one command, and a limit of 3 is the
least with which `EventIsFound` holds for two faults and one change of a port. In `nand_page` a read of two pages has a
transfer to be mistaken for the next one. In `xboot_main` two rounds are a first one and
one that starts from what it left; ten are the same round again. In the reads of `FatRead` a
table of five ends in the middle of a cluster, and three clusters have a first, a
middle and a last.

**Deadlock** is checked in the loaders (they end in a stuttering `Terminated`) and
on the ring. In the other runs there is an end without a step: the read is done, the
calls are used up (`MaxReads`), the driver waits where the code waits without a limit, or
xBoot is in BL31, in `halt` or in a reset.

**Fairness.** The loaders need weak fairness of `Next`: the program goes on, and a device
operation ends. That it does is what `ReadEnds`, `ReadReturns` and `UsbReturns` show for
the drivers; for a USB disk on xHCI there are the two exceptions of `XhciReturns`.
`SdRead` is fair to the driver only, `SdIdentify` to the driver and the steps of the program. `XhciRing`
assumes that the controller serves a ring whose doorbell was rung, `UsbXhci` that the driver
goes on and that the controller works on what is queued (with any outcome); a device that hangs is an
endpoint in `halted` and not a lack of fairness. `UsbEhci` is fair to the driver only. In `NandPage` the
program goes on and every transfer and command ends, as the waits for the decoder, the soft resets and the
command queue have no limit of their own. In `XbootMain` the program and a bus that is not
stuck go on, and released PHYs train; the host, the operator and the other chip need
not do anything. `SmpBoot` assumes that every core runs and that a write arrives in the end.

## 4. Where code and comment disagree

Two of these are runs that TLC ends with a violation; the finding in `PROJECT.json`
quotes both sides.

| run | property | what the code does |
|---|---|---|
| `power_isolation` | `OffIsIsolated` | "Video ISO Enable" is `pmc_iso_en &= 0x20` (`xboot.c:354`): it isolates nothing and takes the isolation of the NPU back, whose power has just been switched off (`xboot.c:341-345`) |
| `nand_uboot2_start` | `Uboot2StartsBehindUboot1` | uboot2 is searched from behind `app_blk_start`, not from behind where uboot1 was found (`xboot.c:1862-1864`) |

The others were met while modelling. The models do what the code does, and the
properties are worded around it where it matters.

Loaders:

* `emmc_boot` tests `res < 0` (`xboot.c:1477`, `1489`) where failure is `ROM_FAIL` = 2
  (`include/types.h:40`): a GPT that could not be read is used, and "can't read LBA 1" is
  never printed.
* `fat_read_file` never looks at what `read_sector` returns, so "load body failed"
  (`xboot.c:1089`) cannot happen. The data sum finds a hole in the data, not one behind it: a
  signature that was not read goes unnoticed until verification.
* Without fip in the file table of `ISPBOOOT.BIN`, `i > NUM_OF_PARTITION` (`xboot.c:1131`) is
  not true, as `i` stops at the first empty name: offset 0, xboot itself, is read as fip.
* The training table also gets sectors behind the file when the chain ends in a mark
  other than 0x0FFFFFFF (`fat/fat_boot.c:296`); its length limits that. The step to
  `pre_cluster + 1` behind the end of a chain (`:219`) knows FAT32's marks only.
* `nand_load_uhdr_image` returns the length with header and signature where its
  comment says "exclude header" (`xboot.c:1726`, `1778`): an image of no data counts
  as loaded. The chips of `nand_boot` hold no such image with a valid sum. The SPI NOR loader
  accepts size 0 too, and has no limit for the length; `Init` of `XbootMain` leaves an
  image of no data out of secure builds, and `FlashAssumption` one longer than the flash.
* `max_blk_skip` of `bblk_read` has no effect (`xboot.c:1576`, `1608`): the code
  that skips bad blocks is under an `#ifdef` no file defines. `NandBoot` models the
  code as built.
* A directory sector that cannot be read is searched with the entries of the one
  before (`fat/fat_boot.c:605`); a card meant for ISP may then boot from files.
  `FatBoot` does this, and so `IspFileDecides` is about reads that work.
* "Get first sector" (`fat/fat_boot.c:440-446`) looks at a result that is always good on USB
  (`usb/xhci_usb.c:2711`, `usb/ehci_usb.c:667`): a volume is then looked for in what the sector buffer held before.
* `load_tfa_optee` returns -1 for a fip without the name, after the register tool was left (`xboot.c:722-726`).
  `boot_uboot` does not look at it (`xboot.c:901`) and starts the cores with BL31 and OP-TEE not copied.
* `do_fat_boot` ignores the result of `run_draminit` (`xboot.c:1195`). After it has changed
  the boot mode to `SDCARD_BOOT` or `USB_BOOT`, the next rounds of `boot_flow` fall to the
  default and try nothing. `boot_not_support` says "not support" after every failed loader.

SD/eMMC:

* `i = i*2 + 1` under "lower frequency" (`sdmmc/hal_sd_mmc.c:1806`) is cut to the twelve bits of the
  divider, so the clock gets faster again: from 2815 to 1535 at an SD card's ninth STB timeout, from
  3839 to 3583 at an eMMC device's.
* A CRC error seen at the head of the loop or after the last word does not step
  the read delay (`sdmmc/hal_sd_mmc.c:1778` is behind `data_err`); the next attempt
  then samples as the last one did.
* "stop only no response(no card case)" (`sdmmc/hal_sd_mmc.c:344`): a lost ACMD41 or CMD55 to a
  card that is there ends the identification too, with eight repetitions left.
* `return -CMD0` (`sdmmc/hal_sd_mmc.c:1453`) is 0, which is `SD_SUCCESS`: when the controller gives up CMD0,
  `initDriver_SD` reports a card that nobody has identified.
* `mmc_switch_error` is bit 6 of the status (`include/sdmmc_boot/hal_sd_mmc.h:239`), `SWITCH_ERROR` bit 7 (`:182`): a refused switch
  is not noticed (`sdmmc/hal_sd_mmc.c:880`), and the controller uses four lines with a device that uses one.
* `CheckCardStatus` takes a success on its last try for a timeout; an SCR of unknown structure counts
  as read; high speed is never reached on an SD card, as CMD6 is sent without data;
  `SetMMCPartitionNum` stores the partition before the switch has succeeded; `DoMMCSwitch`
  polls without a limit.

USB:

* "we are not maintaining multiple TDs/transfer at the same time" (`usb/xhci_usb.c:1806`): a
  read over two TRBs that a disk cuts short causes two events. The second ends the wait
  for the status block early, and from then on each transfer is queued while the one before
  it is still in the ring. `ReadIsWhole` holds all the same, as the tag and the status are
  then of the command before. Each such read leaves one event more behind. `wait_for_event` gives
  up at 15 events of another type, so only a command after as many of them (there is one for each
  port of a hub) would meet that limit: see `EventAlwaysFound` in section 5.
* After a stall there is no Reset Endpoint command, and CLEAR_FEATURE goes out without the
  direction bit: the status phase waits for ever. Of the callers of `wait_for_event` only
  `bulk_tx` looks for `NULL`. `usb_readSector` and `usb2_readSector` ignore the result of the
  transport, and nobody looks at the residue.
* xHCI: `USB_vendorCmd` takes a request for a root port's only while `devnum < 2` (`usb/xhci_usb.c:2198`). After a device
  that is neither disk nor hub `devnum` is 2, and the status of the next root port is asked of that device.
* EHCI: a read that the disk reports as failed is repeated without a limit (`usb/ehci_usb.c:635-663`);
  a device that is not high speed on the root port is reset for ever; sense data
  overwrite the CBW; all transfer errors end in `boot_reset`, so its stall recovery is
  never reached.

NAND drivers:

* A parallel command given up after 5 s leaves a status without error bits: zeros, or the page
  before, count as read, and later reads take the previous completion. `ParaReadIsWhole`, the
  parallel half of `GoodReadIsWhole`, is about reads before that. `bch.c:19` takes the register's address for a mask. The results of
  `PNAND_Resetflash` and the time-outs of SPI get/set feature are ignored.

Power, OTP, link:

* I2C: a write that was not acknowledged is reported as good if the bus is idle by then
  (activity is looked at before the abort); a read whose bytes never come is reported as good with
  the buffer unchanged. The VID of the RT5759 is written with length 1, so never; the second
  try writes a stale byte as register number; the results of the STI8070X are ignored.
* OTP: the supply trims are taken from a buffer that a failed read left unset; a time-out while
  burning leaves programming enabled; failed reads are not reported to the host. `address <= endbyte` with a `u16`
  (`otp/mon_rw_otp.c:236`, `257`) is true for ever when the package says 0xFFFF; nothing compares the range with the payload.
* After a wake-up `restore_save_data` ("Restore CPU start address (core 3, 2, 1)",
  `warmboot/xboot/main.c:46`) restores three entries of eight bytes; waking cores 3 and 2 then writes
  their four-byte words over core 1's.

## 5. What is proved

Each theorem holds for every value of the constants that the module's assumptions
allow: any medium, geometry, ring, board, any number of faults and retries. Each module
proves `Invariance == Spec => []IInv` for an inductive `IInv` and derives the rest from
it. One lemma per action shows that the action preserves `IInv`; temporal steps only
combine these. All theorems are listed in `PROJECT.json`.

| module | about | theorems besides `Invariance` and `TypeCorrect` |
|---|---|---|
| `EmmcBoot_proofs` | `EmmcBoot` | `SignatureIsLoaded`, `UpdateIsPreferred`, `OneCopyIsEnough`, `ImplementsPromise` |
| `Nand_proofs` | `NandBoot` | the same four |
| | `NandPage` | `PageInvariance`, `PageTypeCorrect`, `GoodPageReadIsWhole` |
| `FatBoot_proofs` | `FatBoot` | `IspFileIsObeyed`, `SignatureIsLoaded`, `ImplementsPromise` |
| | `FatRead` | `ReadInvariance`, `FileAlwaysFound` (for `ReadSpec`) |
| `SdIdentify_proofs` | `SdIdentify` | `CardIsTheOneThere`, `HostAndCardAgree` |
| `SdRead_proofs` | `SdRead` | `GoodReadsAreWhole`, `SearchIsComplete` |
| `Usb_proofs` | `XhciRing` | `BulkTransferIsOneTd`, `RingNeverOverflows`, `TdsAreExecutedInOrder` |
| | `Usb` with `UsbXhci`, `UsbEhci`, `UsbDisk` | `UsbTypesHold`, `ReadAlwaysWhole`, `RequestsAlwaysArrive`, `CommandsAlwaysInStep`, `EventAlwaysFound` (invariant: `UsbInv`, lemma `UsbAlways`) |
| `XbootMain_proofs` | `XbootMain` with `HwInit`, `Otp`, `CpioLink`, `BootFlow` | `VoltageOnly`, `AcknowledgedIsBurned`, `EntryIsChecked`, `PadsHaveOneOwner`, `PhysAreReleasedTogether`, `ImplementsPromise` (without `TypeCorrect`) |
| `SmpBoot_proofs` | `SmpBoot` | `VectorsAreInMemory`, `Bl31IsPrepared` |

**Assumptions.** They are in the modules themselves, and TLC evaluates them in each run.

* Sizes are numbers, a sector holds more than a header, the signature is there or not, limits
  are numbers (`SizeAssumption`, `MaxFaultsAssumption`, `SdReadAssumption`,
  `SdIdentifyAssumption`, `NandAssumption`, `I2cAssumption`, `FlowAssumption`, `SmpBootAssumption`).
* What a medium may be: no image in the MBR or the backup GPT (`LbaAssumption`,
  `DisksAssumption`); search windows and images inside the chip (`ChipAssumption`); no sector named
  "none" holds an image (`SetupAssumption`); a FAT directory lists a file once
  (`DirectoryAssumption`); a file has each cluster once, below the numbers taken for an end
  (`ChainAssumption`, see `FatRead` in section 3; `RequestAssumption` has the types of a call); an image is shorter than the flash (`FlashAssumption`).
* `NoEmptyAssumption` and `DataAssumption` of `NandBoot`: see section 2. Without the first a
  u-boot of no data is started without being loaded; without the second a block of a whole image's data
  may pass for the header of the update.
* `RingAssumption`: a transfer is shorter than the ring; a control transfer has three TRBs.
* `DiskAssumption`, `XhciAssumption`: a port has one of five kinds of device and there is no hub behind a hub;
  reads are of 1 or 8 sectors; the event ring has more than two TRBs.
* `EventAlwaysFound` has a hypothesis of its own, `Enough`: faults, changes of ports, ports of the hub, and 2, are
  together below the limit of `wait_for_event`. With its 15 that is met by a hub of 4 and 8 faults and port changes. The
  limit of 3 in the run is smaller than `Enough` asks for, as there not every slot costs an event.
* `BoardAssumption`: the fields of a board are of their types.

**The invariants.** What the runs check is not inductive: at the moment fip is accepted
`SignatureLoaded` says nothing about u-boot, which was loaded long before; that a read is whole
says nothing about one that is still running. What `IInv` adds is what the code relies on:

* *Loaders.* `CallInv` and `SearchInv`: which search or load runs, over which blocks, directory or
  header. `GptInv` (eMMC): the table in memory names partitions or sectors that are
  no images, even if it was read badly. `LoadedInv`: while fip is loaded u-boot is whole and complete in its buffer.
  `ScanInv` and `SeenInv`: as long as nothing failed, what the search has passed over is known, so a
  refusal is justified. `CauseInv`: why the loader returned. `DiskInv`, `ModeInv` (FAT): earlier disks of the hub
  are not usable, what has been found is what the directory lists, and from where each image comes. `SpareInv` (NAND) and
  `PassInv` (eMMC): how far one failed read can mislead the search, for `OneCopyIsSpare`.
* *`FatRead`.* `PlaceInv`: the reader is in the m-th cluster of the file if there is one (`InCluster`), at the byte
  that follows the last one stored (`AtByte`), and what is stored and what is left add up to the length; whole clusters are
  a whole number of transfers, as `sect_per_clus` is a power of two. `BytesInv` and `FillInv`: all that has been stored so far is
  the file's, as far as the file goes; behind its end nothing is said, and the reader may be anywhere. The lemmas under it are
  about division: in which sector and cluster a byte is (`ByteOfSector`, `SectorOfCluster`), and one for each kind
  of store (`StoresTheFile`, `TakesTheFile`).
* *`NandPage`.* `SpiInv`: a wait of the SPI driver that succeeded was ended by a transfer since the
  registers were last written, so of data and parity at least one is of this page; what is left
  of a given-up read cannot be both. `ParaInv`: until a command is given up there is at most one in the queue, and
  status and buffer are its own. `PageCallInv`: which pages have been stored.
* *`SdIdentify`.* `PathInv`: at each place what the driver knows of the card and in which state the card
  is, although the response to the last command may be lost. `WidthInv`: four lines are used only behind the
  last place from where all is begun again.
* *`SdRead`.* `StoredInv`: words that were received are stored or in the register, in order, and all of this
  attempt. `TriedInv`: the combinations tried are the last ones in a cyclic order, which gives that none is left out.
* *`XhciRing`.* `CycleInv` gives the cycle bit of every TRB from `enqueue`, `cycle_state` and the TRB that is held
  back; `WaitingInv` and `ServingInv` say where the controller is; `Ahead <= Queued` keeps it inside the transfer.
  `ContentInv`, `BoundaryInv` and `LinkInv` give the chain bits, across the link too.
* *`Usb`, EHCI.* `AddressInv`: the address of the hub and of every device behind it at each step of the
  enumeration, so no two that could answer have the same. `StepInv`: toggles differ only behind a short transfer. `ReadInv`: from
  the data phase on what lies at the caller is of this command.
* *`Usb`, xHCI.* `RingInv`: which events the driver has still to take, by the two cycle bits. `DataInv`: a status block with
  the tag of this command was sent behind its data, whichever event ended the wait; before it a late one may stand in
  the buffer the CBW was in. `CompletionInv`: a command has one completion. `SlotInv`: how
  many slots there are, for each place in the enumeration. `CountInv` is the balance that bounds the wait: the events on their way, those
  that what is queued can still cause, and those this wait has dropped, are together no more than faults, port changes and slots, and one.
* *`XbootMain`.* One invariant for each part, which the steps of the others leave alone. `BusInv`: the bytes
  an I2C transfer has still to send, and the chip's register pointer. `TogetherInv`: how far the two chips of the link can be
  apart. `PinsInv`, `DramInv`, `SignInv`, `NorInv`: pins, memory, signatures and the flash loader in every round.
* *`SmpBoot`.* `WrittenInv`: what core 0 has written is in memory or in its store buffer (`WillBe`), and in
  memory behind each `dsb`. `WakeInv`: the word that wakes a core is behind all the core needs.

TLC checked these invariants on the instances of the runs before they were proved, except the FAT loader's,
whose quantifiers have no bounds.

**Refinement.** `ImplementsPromise` shows for the four loaders that the initial states map to initial
states of `ImageLoad` and every step to a step or a stutter. It needs `IInv` for two facts:
what is handed over is whole (`LoadedInv`, `NorInv`), and a fault-free refusal has a cause
(`CauseInv`). `TdsAreExecutedInOrder` does the same for `XhciRing` and `TdQueue`; the steps that write a
transfer are stutters, as the controller's rule does not see them (`CycleInv`).

**Only model-checked.** All liveness (`...Ends`, `...Returns`, `XbootSettles`, `AllCoresReachBl31`, and the
fairness part of `TdsAreExecutedOnceInOrder`), which is out of the prover's reach. Every safety invariant and
every action property of the passing runs is the statement of a theorem.

## 6. What is not modelled

* Signature arithmetic (RSA, SHA, AES in the security engine): out of TLC's reach. Which
  image is verified and decrypted, and when, is in `BootFlow`.
* The DRAM training binary: not in the repository. `run_draminit` around it, with its test and
  retries, is in `BootFlow`. That loading it succeeds or fails is an outcome; it uses the same reads as the loaders.
* ADC (its caller is under `#if 0`), timer, console, strings, start-up assembly, caches, host tools:
  computation or register access without decisions that meet other parts.
* `mon_shell`'s reads and writes of single registers: whatever the operator types.
* Code no configuration builds: `STANDALONE_DRAMINIT`, `LOAD_LINUX`, `CUSTOM_BOOT_BTN`,
  `CPIO_TEST`, `QCTRL_TEST`, `OTP_TEST`, `USE_ZMEM` outside ZEBU, `nand/nfdriver.c`, the DMA
  variant of the eMMC read.
* Clock, pad and PHY registers that no decision reads: written once, in an order only the
  hardware knows the reason of.
* Sizes from 2^31 on in an image header: `len` of `fat_load_uhdr_image` is an `int` (`xboot.c:1078-1082`), so such a size
  passes the limit as a negative one. The sizes of the images are small numbers in all runs and natural
  numbers without wrap in the proofs.
* A hub behind a hub, and an xHCI hub that is not the first device (`r_slot_id` is only kept for
  device 2): the code does not mean to support either.

## 7. Plan

The plan of the safety properties is done: each is checked on an instance and proved for all. What could
come next, in this order:

1. A looser `ChainAssumption`: a file with clusters from 0x0FFFF000 on, as long as a whole cluster
   or nothing is left when it gets there.
2. `EventAlwaysFound` with the exact balance: a hypothesis that counts only the slots that cost an event.
3. The parts of section 6 that a later version of the code may give decisions to make: the ADC (boot
   key) and the second hub.
