------------------------------ MODULE UsbDisk ------------------------------
(***************************************************************************)
(* A USB disk as both host drivers of xBoot see it (src/usb/xhci_usb.c and *)
(* src/usb/ehci_usb.c): the bulk-only protocol.  A command block (CBW)     *)
(* goes out, data may come in, a status block (CSW) comes in.  The disk    *)
(* itself is not in the repository; it is modelled from what the drivers   *)
(* send to it and test.                                                    *)
(*                                                                         *)
(* Commands are numbered; the number stands for the tag of the CBW.        *)
(***************************************************************************)
EXTENDS Naturals, FiniteSets, Sequences

CONSTANTS Roots,        \* what may be plugged in: one sequence of ports each
          Sectors,      \* sectors of a read: 1 and 8 (FAT_USB_4K_READ)
          MaxReads,     \* bound on the calls of the read function
          MaxFaults,    \* bound on the faults of the disk
          TestTries     \* attempts of test unit ready: 11 (xHCI), 5 (EHCI)

(* A port is empty, or has a disk, a hub, another device, or one that cannot
   be reset or is too slow.  The ports of a hub follow those of the root. *)
Port == {"empty", "disk", "hub", "other", "broken"}

ASSUME DiskAssumption ==
    /\ \A r \in Roots : r \in [root : Seq(Port), hub : Seq(Port \ {"hub"})]
    /\ TestTries \in Nat \ {0}
    /\ Sectors \subseteq {1, 8}
    /\ MaxReads \in Nat /\ MaxFaults \in Nat

VARIABLES host,         \* the driver in use, "xhci" or "ehci"
          ports,        \* what is plugged in
          pc,           \* the operation the driver is in
          port,         \* the root port or the port of the hub in use
          tx,           \* the step of the transport or control transfer
          tries, result, \* of test unit ready, and of the transport
          disk,         \* the disk's side of the protocol
          faults,       \* its faults so far
          mem,          \* the buffer the CBW is built in and the CSW comes to
          dest,         \* what lies where the caller wants the data
          cmd,          \* the command the driver is executing
          reads         \* calls of the read function so far

diskVars == <<disk, faults>>
shared == <<host, disk, faults, mem, dest, cmd, reads>>
driverVars == <<ports, pc, port, tx, tries, result>>

(* data phase: packets the command asks for *)
Kind == {"none", "inquiry", "ready", "sense", "capacity", "read"}
Packets(kind, sectors) ==
    CASE kind \in {"none", "ready"} -> 0
      [] kind \in {"inquiry", "sense", "capacity"} -> 1
      [] kind = "read" -> sectors

(* cmd.len: packets of the data phase *)
Command == [kind : Kind, no : Nat, len : Nat]
Block == [is : {"cbw", "csw", "sense", "zero"}, no : Nat, len : Nat, ok : BOOLEAN]
Zero == [is |-> "zero", no |-> 0, len |-> 0, ok |-> FALSE]
CBW(c) == [is |-> "cbw", no |-> c.no, len |-> c.len, ok |-> FALSE]
CSW(no, ok) == [is |-> "csw", no |-> no, len |-> 0, ok |-> ok]

(* phase: what the disk will do next: take a CBW, send data, send a CSW; or
   refuse everything, because what it was sent is no CBW.  short: the data of
   this command was less than asked for. *)
Disk == [phase : {"cbw", "data", "csw", "refuse", "silent"},
         no : Nat, len : Nat, short : BOOLEAN]

Fresh == [phase |-> "cbw", no |-> 0, len |-> 0, short |-> FALSE]

DiskTypeOK ==
    /\ host \in {"xhci", "ehci"} /\ ports \in Roots /\ port \in Nat
    /\ tries \in 0..TestTries /\ result \in {"none", "good", "bad"}
    /\ disk \in Disk /\ faults \in 0..MaxFaults
    /\ mem \in Block /\ cmd \in Command
    /\ dest \in [no : Nat, part : {"old", "some", "all"}]
    /\ reads \in 0..MaxReads

DiskInit ==
    /\ host \in {"xhci", "ehci"}
    /\ ports \in Roots
    /\ tx = "-" /\ port = 1 /\ tries = 0 /\ result = "none"
    /\ disk = Fresh
    /\ faults = 0
    /\ mem = Zero
    /\ dest = [no |-> 0, part |-> "old"]
    /\ cmd = [kind |-> "none", no |-> 0, len |-> 0]
    /\ reads = 0

Works == UNCHANGED faults
Fault == faults < MaxFaults /\ faults' = faults + 1

(* the disk takes a CBW *)
TakeCBW(b) ==
    disk' = [phase |-> IF b.len > 0 THEN "data" ELSE "csw",
             no |-> b.no, len |-> b.len, short |-> FALSE]

(* the disk has sent its data; only a read's goes to the caller *)
DataSent(short) ==
    /\ disk' = [disk EXCEPT !.phase = "csw", !.short = short]
    /\ dest' = IF cmd.kind = "read"
               THEN [no |-> disk.no, part |-> IF short THEN "some" ELSE "all"]
               ELSE dest

(* the status it sends: it may say of any command, and of every one, that it
   failed *)
Status == BOOLEAN

(* A new command, built over the last status block *)
NewCommand(kind, no, sectors) ==
    /\ cmd' = [kind |-> kind, no |-> no, len |-> Packets(kind, sectors)]
    /\ mem' = CBW(cmd')
=============================================================================
