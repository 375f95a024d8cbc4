------------------------------ MODULE UsbXhci ------------------------------
(***************************************************************************)
(* The xHCI driver above its rings (src/usb/xhci_usb.c): usb_init finds a  *)
(* disk on a root port or behind a hub, usb_readSector reads from it.  The *)
(* driver runs interleaved with the controller, which works off what is    *)
(* queued, and with the disk of UsbDisk.  What the transfer rings promise  *)
(* is checked in XhciRing; here they are queues.                           *)
(*                                                                         *)
(* Everything the driver learns it learns from the one event ring, and     *)
(* wait_for_event tells events apart only by their type.                   *)
(***************************************************************************)
EXTENDS UsbDisk

CONSTANTS EventLimit,   \* wait_for_event: 15 events of another type
          PortEvents,   \* events the ports may cause
          EventSlots    \* TRBs of the event ring (64)

ASSUME XhciAssumption ==
    /\ EventLimit \in Nat /\ PortEvents \in Nat /\ PortEvents < EventLimit
    /\ EventSlots \in Nat /\ EventSlots > 2

VARIABLES slot, r_slot, \* slot of the device in use and of the hub
          slots,        \* slots the controller has given out
          wait,         \* the event type waited for, or "no"
          others,       \* timeout of wait_for_event
          ring,         \* the event ring, written by the controller
          ev_deq, ev_ccs,     \* event_ring->dequeue and ->cycle_state
          enq, pcs,     \* the controller's place in the ring and its cycle bit
          sent,         \* events the ports have caused
          work,         \* what is queued for the controller
          halted        \* endpoints that answer no more, each with its slot

eventVars == <<ring, ev_deq, ev_ccs, enq, pcs>>
place == <<ports, port, slot, r_slot, slots>>
xhciOwn == <<slot, r_slot, slots, wait, others, eventVars, sent, work, halted>>
xhciVars == <<driverVars, xhciOwn>>

CommandOp == {"enable_slot", "set_address", "configure", "hub_configure"}
ControlOp == {"dev_desc", "conf_len", "conf", "set_conf", "max_lun",
              "hub_desc", "hub_power", "hub_port", "root_status"}
BulkOp == {"inquiry", "ready", "sense", "capacity", "read"}
Ring == {"cmd", "ep0", "out", "in"}
Work == [what : CommandOp \union {"ctrl", "conf", "cbw", "data", "csw"},
         slot : Nat, trbs : 1..2]
Event == [type : {"none", "transfer", "completion", "port"},
          code : {"success", "short", "stall", "error"}, slot : Nat]
NoEvent == [type |-> "none", code |-> "success", slot |-> 0]

XhciTypeOK ==
    /\ host = "xhci" => pc \in CommandOp \union ControlOp \union BulkOp
              \union {"root_port", "next_child", "idle", "no_disk", "reset"}
    /\ tx \in {"-", "again", "cbw", "clear_out", "data", "clear_in", "csw", "clear_csw"}
    /\ slot \in Nat /\ r_slot \in Nat /\ slots \in Nat /\ sent \in 0..PortEvents
    /\ wait \in {"no", "transfer", "completion"} /\ others \in Nat
    /\ ring \in [0..EventSlots - 1 -> [cycle : 0..1, event : Event]]
    /\ ev_deq \in 0..EventSlots - 1 /\ enq \in 0..EventSlots - 1
    /\ ev_ccs \in 0..1 /\ pcs \in 0..1
    /\ work \in [Ring -> Seq(Work)] /\ halted \subseteq Ring \X Nat

(* xhci_mem_init: the event ring is all zero and is read with cycle bit 1 *)
EventRingInit ==
    /\ ring = [i \in 0..EventSlots - 1 |-> [cycle |-> 0, event |-> NoEvent]]
    /\ ev_deq = 0 /\ ev_ccs = 1 /\ enq = 0 /\ pcs = 1

(* The two root ports are those of one connector: one device at most.  There
   is one disk at most, so that its endpoints are "out" and "in". *)
Holding(seq, kinds) == {i \in DOMAIN seq : seq[i] \in kinds}
OneDevice == \A i, j \in Holding(ports.root, {"disk", "hub", "other"}) : i = j
OneDisk == \A i, j \in Holding(ports.hub, {"disk"}) : i = j

(* usb_init with the PHY up and the controller reset and started *)
XhciInit ==
    /\ host = "xhci" => OneDevice /\ OneDisk
    /\ slot = 0 /\ r_slot = 0 /\ slots = 0
    /\ wait = "no" /\ others = 0
    /\ EventRingInit
    /\ sent = 0
    /\ work = [r \in Ring |-> <<>>] /\ halted = {}

-----------------------------------------------------------------------------
(* The controller *)

Next1(i) == IF i = EventSlots - 1 THEN 0 ELSE i + 1
(* the cell that the n-th event from now is written to *)
Free(n) == IF enq + n - 1 < EventSlots THEN enq + n - 1 ELSE enq + n - 1 - EventSlots

(* It writes events with its cycle bit, which turns over at the end of the
   ring, and never catches up with the driver. *)
Put(events) ==
    /\ \A n \in 1..Len(events) : Free(n + 1) # ev_deq
    /\ ring' = [i \in DOMAIN ring |->
                  IF \E n \in 1..Len(events) : i = Free(n)
                  THEN LET n == CHOOSE n \in 1..Len(events) : i = Free(n)
                       IN  [cycle |-> IF i < enq THEN 1 - pcs ELSE pcs, event |-> events[n]]
                  ELSE ring[i]]
    /\ enq' = Free(Len(events) + 1)
    /\ pcs' = IF enq' < enq THEN 1 - pcs ELSE pcs
    /\ UNCHANGED <<ev_deq, ev_ccs>>

Done(r, type, code, n) ==
    /\ Put([i \in 1..n |-> [type |-> type, code |-> code, slot |-> slots']])
    /\ work' = [work EXCEPT ![r] = Tail(@)]

driverSide == <<ports, pc, tx, port, slot, r_slot, wait, others, tries, result>>

Halted(r) == <<r, Head(work[r]).slot>> \in halted
HasWork(r) == work[r] # <<>> /\ ~Halted(r)
(* an endpoint is halted, because the device refuses or does not answer *)
Halt(r, code) ==
    /\ halted' = halted \union {<<r, Head(work[r]).slot>>}
    /\ Done(r, "transfer", code, 1)
Refuse(r) == Halt(r, "stall")
Fail(r) == Fault /\ \E code \in {"stall", "error"} : Halt(r, code)

ServeCommand ==
    /\ work["cmd"] # <<>>
    /\ slots' = IF Head(work["cmd"]).what = "enable_slot" THEN slots + 1 ELSE slots
    /\ Done("cmd", "completion", "success", 1)
    /\ Works /\ UNCHANGED <<driverSide, sent, halted, disk, mem, dest, cmd, reads>>

(* A control transfer: a short data stage is followed by a second event, for
   the status stage; a refused one halts the endpoint.  A device that is no
   hub may refuse to be asked for the status of a port. *)
ServeControl ==
    /\ HasWork("ep0")
    /\ UNCHANGED slots
    /\ \/ /\ Works /\ UNCHANGED halted
          /\ \/ Done("ep0", "transfer", "success", 1)
             \/ Head(work["ep0"]).what = "conf" /\ Done("ep0", "transfer", "short", 2)
       \/ pc = "root_status" /\ Works /\ Refuse("ep0")
       \/ Fail("ep0")
    /\ UNCHANGED <<driverSide, sent, disk, mem, dest, cmd, reads>>

(* what is queued for an endpoint that is halted never comes to an end; the
   endpoints of other devices do not wait for it *)
PassOver ==
    /\ work["ep0"] # <<>> /\ Halted("ep0")
    /\ work' = [work EXCEPT !["ep0"] = Tail(@)]
    /\ Works /\ UNCHANGED <<driverSide, slots, eventVars, sent, halted, disk, mem, dest, cmd, reads>>

(* the CBW is fetched from mem only now *)
ServeOut ==
    /\ HasWork("out")
    /\ UNCHANGED slots
    /\ \/ /\ disk.phase = "cbw" /\ mem.is = "cbw"
          /\ Works /\ TakeCBW(mem)
          /\ Done("out", "transfer", "success", 1)
          /\ UNCHANGED halted
       \* a late status block has come over the command block, or the disk
       \* refuses it for a reason of its own
       \/ /\ disk.phase = "cbw"
          /\ (mem.is # "cbw" /\ Works /\ Refuse("out")) \/ Fail("out")
          /\ disk' = [disk EXCEPT !.phase = "refuse"]
    /\ UNCHANGED <<driverSide, sent, mem, dest, cmd, reads>>

ServeData ==
    /\ HasWork("in") /\ Head(work["in"]).what = "data" /\ disk.phase = "data"
    /\ UNCHANGED slots
    /\ \/ /\ Works /\ DataSent(FALSE)
          /\ Done("in", "transfer", "success", 1)
          /\ UNCHANGED halted
       \* a short packet on the first of two TRBs is reported again at the last
       \/ /\ Fault /\ DataSent(TRUE)
          /\ Done("in", "transfer", "short", Head(work["in"]).trbs)
          /\ UNCHANGED halted
       \/ /\ Fail("in")
          /\ disk' = [disk EXCEPT !.phase = "refuse"] /\ UNCHANGED dest
    /\ UNCHANGED <<driverSide, sent, mem, cmd, reads>>

ServeStatus ==
    /\ HasWork("in") /\ Head(work["in"]).what = "csw" /\ disk.phase = "csw"
    /\ UNCHANGED slots
    /\ \/ /\ Works
          /\ \E ok \in Status : mem' = CSW(disk.no, ok)
          /\ disk' = [disk EXCEPT !.phase = "cbw"]
          /\ Done("in", "transfer", "success", 1)
          /\ UNCHANGED halted
       \/ Fail("in") /\ UNCHANGED <<disk, mem>>
    /\ UNCHANGED <<driverSide, sent, dest, cmd, reads>>

(* a disk that has not understood the CBW refuses to send *)
ServeRefused ==
    /\ HasWork("in") /\ disk.phase = "refuse"
    /\ UNCHANGED slots
    /\ Refuse("in")
    /\ Works /\ UNCHANGED <<driverSide, sent, disk, mem, dest, cmd, reads>>

Endpoints(s) == (Ring \ {"cmd"}) \X {s}

(* a change of a port's status bits *)
PortChange ==
    /\ sent < PortEvents /\ sent' = sent + 1
    /\ Put(<<[NoEvent EXCEPT !.type = "port"]>>)
    /\ Works /\ UNCHANGED <<driverSide, slots, work, halted, disk, mem, dest, cmd, reads>>

(* the device in use hangs: nothing it is asked for is answered *)
FallSilent ==
    /\ slot # 0 /\ ~(Endpoints(slot) \subseteq halted)
    /\ Fault /\ halted' = halted \union Endpoints(slot)
    /\ UNCHANGED <<driverSide, slots, eventVars, sent, work, disk, mem, dest, cmd, reads>>

Controller == \/ ServeCommand \/ ServeControl \/ ServeOut
              \/ ServeData \/ ServeStatus \/ ServeRefused \/ PassOver

-----------------------------------------------------------------------------
(* The driver *)

hardware == <<slots, ring, enq, pcs, sent, halted, disk, faults>>
rest == <<hardware, ev_deq, ev_ccs>>

(* queue something and wait; timeout starts at 0 *)
Queue(r, what, n, type) ==
    /\ wait = "no"
    /\ work' = [work EXCEPT ![r] = Append(@, [what |-> what, slot |-> slot, trbs |-> n])]
    /\ wait' = type /\ others' = 0

QueueCommand(op) ==
    /\ pc = op
    /\ Queue("cmd", op, 1, "completion")
    /\ UNCHANGED <<rest, ports, pc, tx, port, slot, r_slot, tries, result, mem, dest, cmd, reads>>
EnableSlot == QueueCommand("enable_slot")
SetAddress == QueueCommand("set_address")
SetConfiguration == QueueCommand("configure")
UpdateHub == QueueCommand("hub_configure")

(* ctrl_tx, also for the stor_BBB_clear_endpt_stall of the transport *)
Clearing == tx \in {"clear_out", "clear_in", "clear_csw"}
QueueControl ==
    /\ pc \in ControlOp \/ (pc \in BulkOp /\ Clearing)
    /\ tx # "again"
    /\ Queue("ep0", IF pc = "conf" THEN "conf" ELSE "ctrl", 1, "transfer")
    /\ UNCHANGED <<rest, ports, pc, tx, port, slot, r_slot, tries, result, mem, dest, cmd, reads>>

(* stor_BBB_transport builds the CBW *)
BuildCBW ==
    /\ pc \in BulkOp /\ tx = "-" /\ result = "none"
    /\ \E s \in Sectors : NewCommand(pc, cmd.no + 1, s)
    /\ dest' = IF pc = "read" THEN [no |-> 0, part |-> "old"] ELSE dest
    /\ tx' = "cbw" /\ result' = "none"
    /\ UNCHANGED <<rest, ports, pc, port, slot, r_slot, tries, wait, others, work, reads>>

(* bulk_tx; before the CSW is asked for, the place it goes to is cleared, and
   that is where the CBW was *)
QueueBulk ==
    /\ pc \in BulkOp
    /\ \/ tx = "cbw" /\ Queue("out", "cbw", 1, "transfer") /\ UNCHANGED mem
       \/ /\ tx = "data" /\ UNCHANGED mem
          /\ \E n \in 1..(IF cmd.len > 1 THEN 2 ELSE 1) : Queue("in", "data", n, "transfer")
       \/ tx = "csw" /\ mem' = Zero /\ Queue("in", "csw", 1, "transfer")
    /\ UNCHANGED <<rest, ports, pc, tx, port, slot, r_slot, tries, result, dest, cmd, reads>>

(* inc_deq: at the end of the ring the cycle bit it expects turns over
   (mutant: it does not) *)
Acknowledge_no_toggle ==
    ev_deq' = Next1(ev_deq) /\ UNCHANGED <<ring, ev_ccs, enq, pcs>>
Acknowledge ==
    /\ ev_deq' = Next1(ev_deq)
    /\ ev_ccs' = IF ev_deq = EventSlots - 1 THEN 1 - ev_ccs ELSE ev_ccs
    /\ UNCHANGED <<ring, enq, pcs>>

(* wait_for_event: the event at the dequeue pointer, if there is one *)
Ready == wait # "no" /\ ring[ev_deq].cycle = ev_ccs
next_event == ring[ev_deq].event

(* Another type: it is dropped, and counted (mutant: every look at the ring
   is counted) *)
DropEvent_polls ==
    /\ wait # "no"
    /\ IF ~Ready THEN UNCHANGED eventVars ELSE next_event.type # wait /\ Acknowledge
    /\ others < EventLimit /\ others' = others + 1
    /\ UNCHANGED <<place, pc, tx, wait, sent, work, halted, tries, result, shared>>
DropEvent ==
    /\ Ready /\ next_event.type # wait
    /\ Acknowledge
    /\ others' = others + 1
    /\ UNCHANGED <<place, pc, tx, wait, sent, work, halted, tries, result, shared>>

Taken == Ready /\ next_event.type = wait /\ Acknowledge /\ wait' = "no"

(* what usb_init, usb_select_config and usb_storage do next *)
AfterCommand == [enable_slot |-> "set_address", set_address |-> "dev_desc",
                 configure |-> "set_conf", hub_configure |-> "hub_power"]
AfterControl == [dev_desc |-> "conf_len", conf |-> "configure",
                 max_lun |-> "inquiry", hub_desc |-> "hub_configure"]

OnHub == r_slot # 0 /\ slot # r_slot
(* what the descriptors say the device is *)
Device == IF OnHub THEN ports.hub[port] ELSE ports.root[port]
(* port_test: a port is connected, comes out of its reset, and is fast enough *)
Usable(p) == p \notin {"empty", "broken"}

(* A command is complete.  xhci_alloc_device remembers the slot of the first
   device, which may turn out to be a hub. *)
CommandDone ==
    /\ pc \in CommandOp /\ Taken
    /\ pc' = AfterCommand[pc]
    /\ slot' = IF pc = "enable_slot" THEN next_event.slot ELSE slot
    /\ r_slot' = IF pc = "enable_slot" /\ r_slot = 0 THEN next_event.slot ELSE r_slot
    /\ UNCHANGED <<ports, port, slots, tx, others, sent, work, halted, tries, result, shared>>

(* ctrl_tx takes a second event after a short one, and does not say whether
   the request was refused: the buffer is then as it was cleared before.  A hub
   that refuses to give the status of a port has nothing on it. *)
OneMore(e) == tx = "-" /\ e.code = "short"
ControlDone ==
    /\ pc \in ControlOp /\ Ready /\ next_event.type = wait /\ Acknowledge
    /\ \/ /\ OneMore(next_event)
          /\ tx' = "again" /\ others' = 0
          /\ UNCHANGED <<pc, port, wait>>
       \/ /\ ~OneMore(next_event)
          /\ tx' = "-" /\ wait' = "no" /\ UNCHANGED others
          /\ CASE pc = "conf_len" ->
                    /\ pc' = IF Device # "other" THEN "conf"
                             ELSE IF OnHub THEN "next_child" ELSE "root_port"
                    /\ port' = IF Device = "other" THEN port + 1 ELSE port
               [] pc = "set_conf" ->
                    /\ pc' = IF Device = "hub" THEN "hub_desc" ELSE "max_lun"
                    /\ UNCHANGED port
               [] pc = "hub_power" -> pc' = "next_child" /\ port' = 1
               [] pc = "hub_port" ->
                    \/ Usable(ports.hub[port]) /\ pc' = "enable_slot" /\ UNCHANGED port
                    \/ /\ Usable(ports.hub[port]) => next_event.code # "success"
                       /\ pc' = "next_child" /\ port' = port + 1
               [] pc = "root_status" -> pc' = "root_port" /\ port' = port + 1
               [] OTHER -> pc' = AfterControl[pc] /\ UNCHANGED port
    /\ UNCHANGED <<ports, slot, r_slot, slots, sent, work, halted, tries, result, shared>>

(* The status block must be there, with the tag of this command, and report
   success (mutant: only its status byte is looked at, and 0 is success) *)
StatusGood_byte_only == mem.is = "zero" \/ mem.ok
StatusGood == mem.is = "csw" /\ mem.no = cmd.no /\ mem.ok

Verdict == IF tx' # "-" THEN result ELSE IF StatusGood THEN "good" ELSE "bad"

(* bulk_tx returns, with -6 after a stall; any other error is passed over *)
BulkDone ==
    /\ pc \in BulkOp /\ ~Clearing /\ Taken
    /\ tx' = CASE tx = "cbw" -> IF next_event.code = "stall" THEN "clear_out"
                                ELSE IF cmd.len > 0 THEN "data" ELSE "csw"
               [] tx = "data" -> IF next_event.code = "stall" THEN "clear_in" ELSE "csw"
               [] tx = "csw" -> IF next_event.code = "stall" THEN "clear_csw" ELSE "-"
    /\ result' = Verdict
    /\ UNCHANGED <<place, pc, others, sent, work, halted, tries, shared>>

(* the CLEAR_FEATURE after a stall; the controller's endpoint stays halted *)
ClearDone ==
    /\ pc \in BulkOp /\ Clearing /\ Taken
    /\ tx' = CASE tx = "clear_out" -> IF cmd.len > 0 THEN "data" ELSE "csw"
               [] tx = "clear_in" -> "csw"
               [] tx = "clear_csw" -> "-"
    /\ result' = Verdict
    /\ UNCHANGED <<place, pc, others, sent, work, halted, tries, shared>>

(* The callers of the transport.  usb_inquiry, usb_request_sense,
   usb_read_capacity and usb_readSector go on whatever its result is. *)
CommandReturns ==
    /\ pc \in BulkOp /\ result # "none" /\ tx = "-" /\ wait = "no"
    /\ result' = "none"
    /\ \/ pc = "inquiry" /\ pc' = "ready" /\ tries' = 0
       \/ pc = "ready" /\ result = "good" /\ pc' = "capacity" /\ UNCHANGED tries
       \/ pc = "ready" /\ result = "bad" /\ pc' = "sense" /\ tries' = tries + 1
       \/ /\ pc = "sense" /\ UNCHANGED tries
          /\ pc' = IF tries < TestTries THEN "ready" ELSE "reset"
       \/ pc \in {"capacity", "read"} /\ pc' = "idle" /\ UNCHANGED tries
    /\ UNCHANGED <<place, tx, wait, others, eventVars, sent, work, halted, shared>>

(* The loop over the root ports.  USB_vendorCmd takes a request for one to the
   registers of the controller as long as no device was counted (devnum < 2);
   after a device of another kind the status of the next port is asked of that
   device, which has nothing on it. *)
Counted == r_slot # 0
TestRootPort ==
    /\ pc = "root_port"
    /\ IF port > Len(ports.root) THEN pc' = "no_disk" /\ UNCHANGED port
       ELSE IF Counted THEN pc' = "root_status" /\ UNCHANGED port
       ELSE IF Usable(ports.root[port]) THEN pc' = "enable_slot" /\ UNCHANGED port
       ELSE port' = port + 1 /\ UNCHANGED pc
    /\ UNCHANGED <<ports, slot, r_slot, slots, tx, wait, others, eventVars, sent, work,
                   halted, tries, result, shared>>

(* the loop over the ports of the hub: the requests go to the hub again
   (mutant: to the device that was looked at last) *)
HubSlot_stale == slot
HubSlot == r_slot
NextHubPort ==
    /\ pc = "next_child"
    /\ slot' = HubSlot
    /\ pc' = IF port > Len(ports.hub) THEN "no_disk" ELSE "hub_port"
    /\ UNCHANGED <<ports, port, r_slot, slots, tx, wait, others, eventVars, sent, work,
                   halted, tries, result, shared>>

(* fat_boot calls usb_readSector, or usb_init again for the hub's next port *)
CallRead ==
    /\ pc = "idle" /\ reads < MaxReads
    /\ reads' = reads + 1 /\ pc' = "read"
    /\ UNCHANGED <<place, tx, wait, others, eventVars, sent, work, halted, tries, result,
                   diskVars, mem, dest, cmd>>
CallNextPort ==
    /\ pc = "idle" /\ OnHub
    /\ pc' = "next_child" /\ port' = port + 1
    /\ UNCHANGED <<ports, slot, r_slot, slots, tx, wait, others, eventVars, sent, work,
                   halted, tries, result, shared>>

Driver == \/ EnableSlot \/ SetAddress \/ SetConfiguration \/ UpdateHub \/ QueueControl \/ BuildCBW \/ QueueBulk \/ DropEvent
          \/ CommandDone \/ ControlDone \/ BulkDone \/ ClearDone \/ CommandReturns
          \/ TestRootPort \/ NextHubPort
Caller == CallRead \/ CallNextPort

XhciNext ==
    /\ host = "xhci" /\ UNCHANGED host
    /\ Driver \/ Caller \/ Controller \/ PortChange \/ FallSilent

(* The driver polls, and the controller works off what it was given.  Nobody
   has to unplug a disk. *)
XhciFairness ==
    /\ WF_<<shared, xhciVars>>(host = "xhci" /\ UNCHANGED host /\ Driver)
    /\ WF_<<shared, xhciVars>>(host = "xhci" /\ UNCHANGED host /\ Controller)

-----------------------------------------------------------------------------
(* Properties *)

(* A read whose transport was good has brought the data of this very read,
   though the event it waited for may have been of an earlier transfer; all of
   it, unless the disk itself sent less (the residue is not looked at). *)
GoodReadIsWhole ==
    host = "xhci" /\ pc = "read" /\ tx = "-" /\ result = "good" =>
        /\ dest.no = cmd.no
        /\ dest.part = "all" \/ disk.short

(* wait_for_event never gives up: its callers but bulk_tx would use the NULL
   it returns. *)
EventIsFound == others < EventLimit

(* Requests for the ports of a hub go to the hub, also after a device on one
   of its ports had a slot of its own.  What is asked of a root port does not
   always go to the controller: it goes to the device of an earlier port, but
   only to one that is neither disk nor hub. *)
HubIsAsked ==
    /\ pc = "hub_port" => slot = r_slot
    /\ pc = "root_status" =>
         \E p \in 1..Len(ports.root) : p < port /\ ports.root[p] = "other"

(* usb_init and usb_readSector return, unless an endpoint of the device in use
   has refused a transfer, failed or hangs: after those the driver waits for
   ever, as it counts events and not time. *)
Busy == host = "xhci" /\ pc \notin {"idle", "no_disk", "reset"}
DeviceFails == \E r \in Ring : <<r, slot>> \in halted
XhciReturns == Busy ~> (~Busy \/ DeviceFails)
=============================================================================
