------------------------------ MODULE XhciRing ------------------------------
(***************************************************************************)
(* A ring of TRBs between the xHCI driver (usb/xhci_usb.c) and the         *)
(* controller: bulk_tx(), ctrl_tx() and queue_command() write the TRBs of  *)
(* a transfer or a command into it with prepare_ring() and queue_trb(),    *)
(* and the controller reads the same memory at any time.                   *)
(*                                                                         *)
(* Nothing but the cycle bit of a TRB says whose it is.  A ring is one     *)
(* segment whose last TRB is a link back to the first; passing the link    *)
(* toggles the cycle bit that driver and controller go by.                 *)
(***************************************************************************)
EXTENDS Integers, Sequences

CONSTANTS Trbs,     \* TRBS_PER_SEGMENT
          MaxTd     \* most TRBs in a transfer: a TRB of bulk_tx spans at most
                    \* 64 KiB, a control transfer has up to three

ASSUME RingAssumption == Trbs \in Nat /\ MaxTd \in 3..Trbs - 1

Link == Trbs - 1        \* index of the link TRB
Cell == 0..Link - 1     \* indices of the others
Bit == {0, 1}

(* A TRB: what it asks for, which is known by how many TRBs of the transfer
   are left with it; TRB_CHAIN; TRB_IOC *)
Trb == [left : 0..MaxTd, chain : BOOLEAN, ioc : BOOLEAN]

VARIABLES kind,         \* whose ring it is: "bulk", "control" or "command"
          trb,          \* the TRBs but the link
          cycle,        \* TRB_CYCLE of every TRB, the link included
          link_chain,   \* TRB_CHAIN of the link
          enqueue, cycle_state,     \* of struct xhci_ring
          start_trb, start_cycle,   \* of bulk_tx and ctrl_tx
          step,         \* of the driver: "idle", "queue" or "wait"
          num_trbs,     \* TRBs still to be queued
          deq, ccs,     \* controller: its dequeue pointer and cycle state
          running,      \* controller: the ring is being served
          inTd,         \* controller: the last TRB had a chain bit
          event         \* controller: the completion event is there

driver == <<kind, enqueue, cycle_state, start_trb, start_cycle, step, num_trbs>>
memory == <<trb, cycle, link_chain>>
controller == <<deq, ccs, inTd>>
vars == <<driver, memory, controller, running, event>>

TypeOK ==
    /\ kind \in {"bulk", "control", "command"}
    /\ trb \in [Cell -> Trb]
    /\ cycle \in [0..Link -> Bit] /\ link_chain \in BOOLEAN
    /\ enqueue \in 0..Link /\ cycle_state \in Bit
    /\ start_trb \in Cell /\ start_cycle \in Bit
    /\ step \in {"idle", "queue", "wait"} /\ num_trbs \in 0..MaxTd
    /\ deq \in 0..Link /\ ccs \in Bit
    /\ running \in BOOLEAN /\ inTd \in BOOLEAN /\ event \in BOOLEAN

(* xhci_ring_alloc, and the context that names the ring to the controller *)
Init ==
    /\ kind \in {"bulk", "control", "command"}
    /\ trb = [p \in Cell |-> [left |-> 0, chain |-> FALSE, ioc |-> FALSE]]
    /\ cycle = [p \in 0..Link |-> 0] /\ link_chain = FALSE
    /\ enqueue = 0 /\ cycle_state = 1
    /\ start_trb = 0 /\ start_cycle = 1
    /\ step = "idle" /\ num_trbs = 0
    /\ deq = 0 /\ ccs = 1
    /\ running = FALSE /\ inTd = FALSE /\ event = FALSE

-----------------------------------------------------------------------------
(* The driver *)

(* The TRBs of a transfer: ctrl_tx queues setup, data if any, and status *)
Length == CASE kind = "bulk" -> 1..MaxTd
            [] kind = "control" -> 2..3
            [] kind = "command" -> {1}

(* prepare_ring, and what bulk_tx and ctrl_tx remember before they queue.  The
   link is given to the controller without a chain bit. *)
Submit ==
    /\ step = "idle"
    /\ IF enqueue = Link
       THEN /\ cycle' = [cycle EXCEPT ![Link] = 1 - @] /\ link_chain' = FALSE
            /\ enqueue' = 0 /\ cycle_state' = 1 - cycle_state
       ELSE UNCHANGED <<cycle, link_chain, enqueue, cycle_state>>
    /\ start_trb' = enqueue' /\ start_cycle' = cycle_state'
    /\ num_trbs' \in Length
    /\ step' = "queue"
    /\ UNCHANGED <<kind, trb, controller, running, event>>

(* The cycle bit of the first TRB is kept wrong until the others are there;
   a command is one TRB and needs no such care (mutant: it is right from the
   start). *)
CycleOf_early == cycle_state
CycleOf ==
    IF enqueue = start_trb /\ kind # "command" THEN 1 - start_cycle
    ELSE cycle_state

(* inc_enq hands over the link when the transfer goes on behind it *)
PassLink(chain, more) == chain \/ more

(* The link carries the chain bit of the TRB before it (mutant: it is left
   without one). *)
CarryChain_cleared(chain) == FALSE
CarryChain(chain) == chain

(* queue_trb with inc_enq; more is its argument more_trbs_coming *)
QueueTrb ==
    LET more == num_trbs > 1
        chain == kind = "bulk" /\ more
        written == [cycle EXCEPT ![enqueue] = CycleOf]
    IN  /\ step = "queue" /\ num_trbs > 0
        /\ trb' = [trb EXCEPT ![enqueue] =
                      [left |-> num_trbs, chain |-> chain, ioc |-> ~more]]
        /\ IF enqueue + 1 = Link /\ PassLink(chain, more)
           THEN /\ cycle' = [written EXCEPT ![Link] = 1 - @]
                /\ link_chain' = CarryChain(chain)
                /\ cycle_state' = 1 - cycle_state
                /\ enqueue' = 0
           ELSE /\ cycle' = written
                /\ enqueue' = enqueue + 1
                /\ UNCHANGED <<link_chain, cycle_state>>
        /\ num_trbs' = num_trbs - 1
        /\ UNCHANGED <<kind, start_trb, start_cycle, step, controller, running, event>>

(* giveback_first_trb: the cycle bit, then the doorbell; queue_command only
   rings *)
GiveBack ==
    /\ step = "queue" /\ num_trbs = 0
    /\ cycle' = IF kind = "command" THEN cycle
                ELSE [cycle EXCEPT ![start_trb] = start_cycle]
    /\ running' = TRUE
    /\ step' = "wait"
    /\ UNCHANGED <<kind, enqueue, cycle_state, start_trb, start_cycle, num_trbs,
                   trb, link_chain, controller, event>>

(* wait_for_event is left with the event (mutant: also without one). *)
Arrived_notYet == TRUE
Arrived == event

(* wait_for_event and acknowledge_event *)
Completed ==
    /\ step = "wait" /\ Arrived
    /\ event' = FALSE
    /\ step' = "idle"
    /\ UNCHANGED <<kind, enqueue, cycle_state, start_trb, start_cycle, num_trbs,
                   memory, controller, running>>

-----------------------------------------------------------------------------
(* The controller: from the doorbell on it reads TRBs until it meets one that
   is not its own, and it may be slow to notice. *)

FollowLink ==
    /\ running /\ deq = Link /\ cycle[Link] = ccs
    /\ deq' = 0 /\ ccs' = 1 - ccs
    /\ inTd' = link_chain
    /\ UNCHANGED <<driver, memory, running, event>>

Execute ==
    /\ running /\ deq # Link /\ cycle[deq] = ccs
    /\ deq' = deq + 1
    /\ inTd' = trb[deq].chain
    /\ event' = (event \/ trb[deq].ioc)
    /\ UNCHANGED <<driver, memory, ccs, running>>

Stop ==
    /\ running /\ cycle[deq] # ccs
    /\ running' = FALSE
    /\ UNCHANGED <<driver, memory, controller, event>>

Next ==
    \/ Submit \/ QueueTrb \/ GiveBack \/ Completed
    \/ FollowLink \/ Execute \/ Stop

(* The driver runs on; the controller serves a ring whose doorbell was rung. *)
Fairness ==
    /\ WF_vars(QueueTrb) /\ WF_vars(GiveBack) /\ WF_vars(Completed)
    /\ WF_vars(FollowLink \/ Execute)

Spec == Init /\ [][Next]_vars /\ Fairness

-----------------------------------------------------------------------------
(* Properties *)

(* What the controller will find when it reads on from its dequeue pointer: the
   k-th TRB from there, links left out, and how many of them are its own.  A
   link that is not its own ends them. *)
At(k) == IF deq = Link THEN k ELSE (deq + k) % Link
BehindLink(k) == deq = Link \/ deq + k >= Link
IsOwn(k) == IF BehindLink(k)
            THEN cycle[Link] = ccs /\ cycle[At(k)] = 1 - ccs
            ELSE cycle[At(k)] = ccs
Own == CHOOSE n \in 0..Link :
          /\ \A k \in 0..n - 1 : IsOwn(k)
          /\ n = Link \/ ~IsOwn(n)

(* The transfer has been handed over and has not been seen to complete. *)
Outstanding ==
    \/ step = "wait"
    \/ kind = "command" /\ step = "queue" /\ num_trbs = 0

(* Whenever the controller looks, it finds a whole transfer or the rest of one
   it has begun, or nothing: never a transfer that is still being written,
   never a TRB of an old one.  What it executes, in which order and how often,
   is what TdQueue says (giveback_first_trb, inc_enq, prepare_ring). *)
Td == INSTANCE TdQueue WITH
    todo <- [k \in 1..Own |-> trb[At(k - 1)].left],
    busy <- Outstanding
TdsAreExecutedOnceInOrder == Td!Spec

(* The driver never writes a TRB that the controller has not done with: nothing
   in prepare_ring looks for room, it is enough that every caller waits for its
   own transfer. *)
NoTrbIsOverwritten ==
    [][\A k \in 0..Link - 1 : k < Own /\ UNCHANGED deq =>
          cycle'[At(k)] = cycle[At(k)] /\ trb'[At(k)] = trb[At(k)]]_vars

(* A chain bit is set between any two TRBs of a bulk transfer, the link
   included, and nowhere else: the controller takes the TRBs of one bulk_tx for
   one TD, and never two calls for the same. *)
Before == IF deq \in {0, Link} THEN Link - 1 ELSE deq - 1     \* TRB executed last
ChainIsUnbroken ==
    inTd <=> kind = "bulk" /\ Own > 0 /\ trb[Before].left = Own + 1
=============================================================================
