------------------------------ MODULE UsbEhci ------------------------------
(***************************************************************************)
(* The EHCI driver (src/usb/ehci_usb.c): usb2_init finds a disk on the     *)
(* port or behind a hub, usb2_readSector reads from it.  One queue head    *)
(* and one transfer descriptor: the driver hands over a transfer and polls *)
(* until it is through, so a transfer is one action here.  After any error *)
(* and after 2 s without an end, USB_transfer resets the board.            *)
(***************************************************************************)
EXTENDS UsbDisk, Integers

VARIABLES eaddr,        \* EHCI_addr, the address requests are sent to
          addrs,        \* the addresses the devices have: 0 is on the port
          toggle,       \* data toggle of the driver and of the disk
          behind        \* what lies behind the caller's data

ehciOwn == <<eaddr, addrs, toggle, behind>>
transport == <<disk, mem, dest, cmd, reads, toggle, behind, tx, tries, result>>

Control == {"set_addr", "dev_desc8", "dev_desc", "conf_desc", "hub_conf", "hub_desc",
            "first_scan", "wake_set", "wake_clear", "scan", "port_clear", "port_reset",
            "port_speed", "dev_desc64", "child_addr", "dev_desc2", "conf_desc2",
            "conf_all", "set_conf"}
Bulk == {"ready", "sense", "read", "read_sense"}
Off == -1
Hub == Len(ports.hub)
OnPort == ports.hub[port]
IsHub == ports.root[1] = "hub"

EhciTypeOK ==
    /\ host = "ehci" => pc \in Control \union Bulk \union
                {"controller", "connect", "port_enable", "idle", "no_disk", "reset"}
    /\ eaddr \in 0..1 + Hub /\ addrs \in [0..Hub -> 0..1 + Hub \union {Off}]
    /\ toggle \in [{"driver", "disk"} -> [{"in", "out"} -> 0..1]]
    /\ behind \in {"zero", "old", "csw"}

(* usb2_init *)
EhciInit ==
    /\ eaddr = 0
    /\ addrs = [d \in 0..Hub |-> Off]
    /\ toggle = [s \in {"driver", "disk"} |-> [e \in {"in", "out"} |-> 0]]
    /\ behind = "zero"

-----------------------------------------------------------------------------
(* The port *)

(* Reset EHCI; no limit on the wait for the end of the reset *)
ResetController ==
    /\ pc = "controller" /\ pc' = "connect"
    /\ Works /\ UNCHANGED <<ports, port, eaddr, addrs, transport>>

(* 2.5 s for a device to connect *)
Connect ==
    /\ pc = "connect"
    /\ pc' = IF ports.root[1] = "empty" THEN "no_disk" ELSE "port_enable"
    /\ Works /\ UNCHANGED <<ports, port, eaddr, addrs, transport>>

(* A device that is not high speed is tried again and again. *)
PortEnable ==
    /\ pc = "port_enable"
    /\ IF ports.root[1] = "broken"
       THEN pc' = "controller" /\ UNCHANGED addrs
       ELSE pc' = "set_addr" /\ addrs' = [addrs EXCEPT ![0] = 0]
    /\ Works /\ UNCHANGED <<ports, port, eaddr, transport>>

(* Control transfers *)

AfterRoot == [set_addr |-> "dev_desc8", dev_desc8 |-> "dev_desc", dev_desc |-> "conf_desc",
              hub_conf |-> "hub_desc", hub_desc |-> "first_scan",
              wake_set |-> "wake_clear", wake_clear |-> "scan"]
AfterDevice == [child_addr |-> "dev_desc2", dev_desc2 |-> "conf_desc2",
                conf_desc2 |-> "conf_all", conf_all |-> "set_conf", set_conf |-> "ready"]

(* the address of a device behind the hub *)
ChildAddress(p) == 1 + p

(* what a request does to the device's address, to its data toggles, and to
   what it is about to do *)
Obey ==
    /\ addrs' = CASE pc = "set_addr" -> [addrs EXCEPT ![0] = 1]
                  [] pc = "port_reset" /\ OnPort # "broken" -> [addrs EXCEPT ![port] = 0]
                  [] pc = "child_addr" -> [addrs EXCEPT ![port] = ChildAddress(port)]
                  [] OTHER -> addrs
    /\ toggle' = IF pc = "set_conf"
                 THEN [toggle EXCEPT !["disk"] = [e \in {"in", "out"} |-> 0]] ELSE toggle
    /\ disk' = IF pc = "set_conf" THEN Fresh ELSE disk

(* USB2_vendorCmd: the request is carried out, and usb2_init goes on. *)
Request ==
    /\ pc \in Control /\ Obey
    /\ tries' = IF pc = "set_conf" THEN 0 ELSE tries
    /\ Works /\ UNCHANGED <<ports, mem, dest, cmd, reads, behind, tx, result>>

(* what is on the port: a disk, a hub, or nothing xBoot can use *)
RequestRoot ==
    /\ pc \in DOMAIN AfterRoot \union {"conf_desc"} /\ Request
    /\ pc' = IF pc # "conf_desc" THEN AfterRoot[pc]
             ELSE CASE ports.root[1] = "disk" -> "dev_desc64"
                    [] ports.root[1] = "hub" -> "hub_conf"
                    [] OTHER -> "no_disk"
    /\ eaddr' = IF pc = "set_addr" THEN 1 ELSE eaddr
    /\ port' = IF pc \in {"hub_desc", "wake_clear"} THEN 1 ELSE port

(* The ports of the hub, once more after a remote wake-up when all are empty.
   Low and full speed devices are skipped; a port that does not come out of
   its reset is tried all the same. *)
ScanNext == pc' = "scan" /\ port' = port + 1 /\ eaddr' = 1
RequestPort ==
    /\ Request
    /\ \/ /\ pc \in {"first_scan", "scan"} /\ UNCHANGED eaddr
          /\ IF port > Hub
             THEN pc' = (IF pc = "scan" THEN "no_disk" ELSE "wake_set") /\ UNCHANGED port
             ELSE IF OnPort = "empty" THEN port' = port + 1 /\ UNCHANGED pc
             ELSE pc' = "port_clear" /\ UNCHANGED port
       \/ pc = "port_clear" /\ pc' = "port_reset" /\ UNCHANGED <<port, eaddr>>
       \/ pc = "port_reset" /\ pc' = "port_speed" /\ UNCHANGED <<port, eaddr>>
       \/ pc = "port_speed" /\ OnPort = "broken" /\ ScanNext
       \/ /\ pc = "port_speed" /\ OnPort # "broken"
          /\ pc' = "dev_desc64" /\ eaddr' = 0 /\ UNCHANGED port

(* A device behind the hub gets an address of its own, and is left for the
   next port when it is no disk. *)
RequestDevice ==
    /\ Request
    /\ \/ pc = "dev_desc64" /\ pc' = (IF IsHub THEN "child_addr" ELSE "dev_desc2")
          /\ UNCHANGED <<port, eaddr>>
       \/ pc = "conf_desc2" /\ IsHub /\ OnPort # "disk" /\ ScanNext
       \/ /\ pc \in DOMAIN AfterDevice
          /\ ~(pc = "conf_desc2" /\ IsHub /\ OnPort # "disk")
          /\ pc' = AfterDevice[pc] /\ UNCHANGED port
          /\ eaddr' = IF pc = "child_addr" THEN ChildAddress(port) ELSE eaddr

-----------------------------------------------------------------------------
(* Bulk transfers *)

Place == <<ports, pc, port, eaddr, addrs, tries, reads>>

(* A read that is repeated is the same read: it keeps its number, and so does
   the request for the sense data in between. *)
Repeated == pc = "read_sense" \/ (pc = "read" /\ cmd.kind = "sense")
Number == IF Repeated THEN cmd.no ELSE cmd.no + 1

Build ==
    /\ pc \in Bulk /\ tx = "-" /\ result = "none"
    /\ LET kind == IF pc = "read_sense" THEN "sense" ELSE pc
       IN  \E s \in Sectors \union {1} : NewCommand(kind, Number, s)
    /\ dest' = IF pc = "read" THEN [no |-> 0, part |-> "old"] ELSE dest
    /\ behind' \in IF pc = "read" THEN {"zero", "old"} ELSE {behind}
    /\ tx' = "cbw"
    /\ Works /\ UNCHANGED <<Place, disk, toggle, result>>

InStep(e) == toggle["driver"][e] = toggle["disk"][e]
(* The driver turns its toggle once for a transfer, the disk once for a
   packet. *)
Turn(e, packets) ==
    toggle' = [toggle EXCEPT !["driver"][e] = 1 - @, !["disk"][e] = (@ + packets) % 2]

SendCBW ==
    /\ tx = "cbw" /\ disk.phase = "cbw" /\ InStep("out")
    /\ TakeCBW(mem) /\ Turn("out", 1)
    /\ tx' = IF cmd.len > 0 THEN "data" ELSE "csw"
    /\ Works /\ UNCHANGED <<Place, mem, dest, cmd, behind, result>>

(* A transfer of more than 512 bytes is lengthened by 13, and the CSW comes
   with the data (mutant: it is not). *)
CswWithData_never(len) == FALSE
CswWithData(len) == len > 1

(* Sense data go over the CBW, and what the driver then takes for the length
   of the command is information the disk gives: normally 0. *)
ReceiveData ==
    /\ tx = "data" /\ disk.phase = "data" /\ InStep("in") /\ tx' = "csw"
    /\ \/ /\ Works /\ DataSent(FALSE)
          /\ mem' = IF cmd.kind = "sense" THEN [Zero EXCEPT !.is = "sense"] ELSE mem
          /\ Turn("in", cmd.len) /\ ~CswWithData(cmd.len) /\ UNCHANGED behind
       \/ /\ Works /\ CswWithData(cmd.len)
          /\ disk' = [disk EXCEPT !.phase = "cbw"]
          /\ dest' = [no |-> disk.no, part |-> "all"]
          /\ Turn("in", cmd.len + 1) /\ behind' = "csw" /\ UNCHANGED mem
       \* a short packet ends the transfer, after any number of full ones
       \/ /\ Fault /\ DataSent(TRUE)
          /\ mem' = IF cmd.kind = "sense" THEN [Zero EXCEPT !.is = "sense"] ELSE mem
          /\ \E n \in 1..cmd.len : Turn("in", n)
          /\ UNCHANGED behind
    /\ UNCHANGED <<Place, cmd, result>>

(* With the CSW behind the data, one that is there already is not asked for
   again: its signature is not 0.  Only the status byte is looked at; that of
   old data may be anything. *)
Behind == mem.len > 1
ReceiveStatus ==
    /\ tx = "csw" /\ disk.phase = "csw" /\ InStep("in")
    /\ Behind => behind = "zero"
    /\ \E ok \in Status : /\ result' = IF ok THEN "good" ELSE "bad"
                          /\ mem' = IF Behind THEN mem ELSE CSW(disk.no, ok)
    /\ behind' = IF Behind THEN "csw" ELSE behind
    /\ disk' = [disk EXCEPT !.phase = "cbw"]
    /\ Turn("in", 1)
    /\ tx' = "-"
    /\ Works /\ UNCHANGED <<Place, dest, cmd>>
StatusIsThere ==
    /\ tx = "csw" /\ Behind /\ behind # "zero"
    /\ result' \in IF behind = "csw" THEN {"good"} ELSE {"good", "bad"}
    /\ tx' = "-"
    /\ Works /\ UNCHANGED <<Place, disk, mem, dest, cmd, toggle, behind>>

(* USB_transfer gives up: an error is reported, or 2 s pass because the disk
   does not take or send what is asked for.  (Mutants: the caller goes on as
   if it had been good; nothing but an error is noticed.) *)
Answered == CASE tx = "cbw" -> disk.phase = "cbw" /\ InStep("out")
              [] tx = "data" -> disk.phase = "data" /\ InStep("in")
              [] tx = "csw" -> (disk.phase = "csw" /\ InStep("in"))
                               \/ (Behind /\ behind # "zero")
InTransfer == pc \in Control \/ (pc \in Bulk /\ tx # "-")
GiveUp ==
    /\ InTransfer
    /\ IF pc \in Control \/ Answered THEN Fault ELSE Works
    /\ pc' = "reset"
    /\ UNCHANGED <<ports, port, eaddr, addrs, transport>>

(* USB_testUnitReady is called again whatever it answered, and the last answer
   counts; usb2_readSector asks for the sense data and reads again. *)
Return ==
    /\ pc \in Bulk /\ tx = "-" /\ result # "none" /\ result' = "none"
    /\ LET last == tries + 1 = TestTries
       IN  \/ /\ pc = "ready" /\ result = "good" /\ tries' = tries + 1
              /\ pc' = IF last THEN "idle" ELSE "ready"
           \/ pc = "ready" /\ result = "bad" /\ pc' = "sense" /\ UNCHANGED tries
           \/ /\ pc = "sense" /\ tries' = tries + 1
              /\ pc' = IF last THEN "reset" ELSE "ready"
           \/ /\ pc = "read" /\ UNCHANGED tries
              /\ pc' = IF result = "good" THEN "idle" ELSE "read_sense"
           \/ pc = "read_sense" /\ pc' = "read" /\ UNCHANGED tries
    /\ Works /\ UNCHANGED <<ports, port, eaddr, addrs, disk, mem, dest, cmd, reads, toggle, behind, tx>>

(* the disk is pulled out, or hangs *)
Unplug ==
    /\ pc \in Bulk \union {"idle"} /\ disk.phase # "silent"
    /\ Fault /\ disk' = [disk EXCEPT !.phase = "silent"]
    /\ UNCHANGED <<Place, mem, dest, cmd, toggle, behind, tx, result>>

(* fat_boot reads, or asks for the disk on the next port of the hub *)
ReadSector ==
    /\ pc = "idle" /\ reads < MaxReads
    /\ reads' = reads + 1 /\ pc' = "read"
    /\ Works /\ UNCHANGED <<ports, port, eaddr, addrs, disk, mem, dest, cmd, toggle, behind,
                            tx, tries, result>>
NextPort ==
    /\ pc = "idle" /\ IsHub
    /\ pc' = "scan" /\ port' = port + 1 /\ eaddr' = 1
    /\ toggle' = [toggle EXCEPT !["driver"] = [e \in {"in", "out"} |-> 0]]
    /\ Works /\ UNCHANGED <<ports, addrs, disk, mem, dest, cmd, reads, behind, tx, tries, result>>

EhciDriver == \/ ResetController \/ Connect \/ PortEnable
              \/ RequestRoot \/ RequestPort \/ RequestDevice
              \/ Build \/ (pc \in Bulk /\ (SendCBW \/ ReceiveData \/ ReceiveStatus))
              \/ (pc \in Bulk /\ StatusIsThere) \/ GiveUp \/ Return
EhciNext == /\ host = "ehci" /\ UNCHANGED host
            /\ EhciDriver \/ Unplug \/ ReadSector \/ NextPort

(* the driver's own steps; nobody has to call it again *)
EhciFairness == WF_<<shared, driverVars, ehciOwn>>(host = "ehci" /\ UNCHANGED host /\ EhciDriver)

-----------------------------------------------------------------------------
(* Properties *)

(* A request has one receiver: of the hub and the devices that were reset or
   addressed so far, exactly one has the address it is sent to. *)
OneReceiver ==
    host = "ehci" /\ pc \in Control => Cardinality({d \in DOMAIN addrs : addrs[d] = eaddr}) = 1

(* usb2_readSector answers 0 in any case, without a look at the tag: still the
   caller has the data of this read, all of it unless the disk sent less. *)
EhciReadIsWhole ==
    host = "ehci" /\ pc = "read" /\ tx = "-" /\ result = "good" =>
        dest.no = cmd.no /\ (dest.part = "all" \/ disk.short)

(* One turn of the toggle for a transfer is right, as every transfer has an odd
   number of packets, the CSW behind eight sectors included: between commands
   driver and disk agree on the toggles, and the disk waits for a command. *)
CommandsInStep ==
    host = "ehci" /\ pc = "idle" /\ ~disk.short /\ disk.phase # "silent" =>
        disk.phase = "cbw" /\ InStep("in") /\ InStep("out")

(* usb2_init and usb2_readSector return or reset the board, but for a device
   on the port that is not high speed: that is reset for ever; and for a disk
   that reports again and again that the read has failed: it is read again as
   often. *)
EhciBusy == host = "ehci" /\ pc \notin {"idle", "no_disk", "reset"}
ReadFails == host = "ehci" /\ pc = "read" /\ result = "bad"
EhciReturns == []<>ReadFails \/ (EhciBusy ~> (~EhciBusy \/ ports.root[1] = "broken"))
=============================================================================
