----------------------------- MODULE Usb_proofs -----------------------------
(***************************************************************************)
(* Proofs about USB: first the transfer and command rings of xHCI, for     *)
(* rings of any size and transfers of any length, then the two drivers     *)
(* above them with the disk, for any ports, any number of faults, and an   *)
(* event ring of any size.                                                 *)
(***************************************************************************)
EXTENDS XhciRing, Usb, SequenceTheorems, FiniteSetTheorems, TLAPS

(* How many TRBs of its transfer the driver has queued, how many of them the
   controller has before it when the transfer is its own, and how far a TRB
   lies behind the enqueue pointer.  The cycle states say which of two
   pointers has passed the link once more. *)
Queued == IF start_cycle = cycle_state THEN enqueue - start_trb
          ELSE Link - start_trb + enqueue
Ahead == IF ccs = cycle_state THEN enqueue - deq ELSE Link - deq + enqueue
Back(c) == IF c < enqueue THEN enqueue - c ELSE enqueue + Link - c
Preceding(p) == IF p \in {0, Link} THEN Link - 1 ELSE p - 1

(* The TRBs written on this way through the ring have the driver's cycle
   state, the others have not; the first TRB of a transfer is held back. *)
HeldBack == step = "queue" /\ kind # "command"
CycleInv ==
    \A p \in 0..Link :
        cycle[p] = IF HeldBack /\ p = start_trb THEN 1 - start_cycle
                   ELSE IF p < enqueue THEN cycle_state ELSE 1 - cycle_state

(* A transfer never reaches its own first TRB again. *)
TransferInv ==
    step # "idle" =>
        /\ start_cycle = cycle_state => start_trb <= enqueue
        /\ start_cycle # cycle_state => enqueue <= start_trb /\ 1 <= enqueue + num_trbs
        /\ enqueue = Link => num_trbs = 0
        /\ 1 <= Queued + num_trbs /\ Queued + num_trbs <= MaxTd
        /\ step = "wait" => num_trbs = 0
        /\ kind = "command" => Queued + num_trbs = 1

(* What the TRBs of the transfer hold, and the one before them. *)
ContentInv ==
    step # "idle" =>
        \A c \in Cell : Back(c) <= Queued =>
            /\ trb[c].left = num_trbs + Back(c)
            /\ trb[c].chain <=> kind = "bulk" /\ num_trbs + Back(c) > 1
            /\ trb[c].ioc <=> num_trbs + Back(c) = 1
BoundaryInv ==
    trb[Preceding(IF step = "idle" THEN enqueue ELSE start_trb)].left <= 1

(* The link is passed inside a transfer, with the chain bit of a bulk transfer,
   or between two transfers, without one. *)
LinkInv ==
    /\ step # "idle" /\ start_cycle # cycle_state => (link_chain <=> kind = "bulk")
    /\ deq = Link /\ ccs # cycle_state /\ start_cycle = cycle_state => ~link_chain

(* The controller waits where the next transfer begins, or is inside the one
   that was handed to it. *)
AtStart ==
    \/ deq = start_trb /\ ccs = start_cycle
    \/ deq = Link /\ start_trb = 0 /\ ccs # start_cycle
WaitingInv ==
    ~Outstanding =>
        /\ ~event /\ ~inTd
        /\ step = "idle" => deq = enqueue /\ ccs = cycle_state
        /\ step # "idle" => AtStart
ServingInv ==
    Outstanding =>
        /\ ccs = cycle_state => deq <= enqueue
        /\ ccs # cycle_state => enqueue <= deq
        /\ Ahead <= Queued
        /\ event <=> Ahead = 0
        /\ inTd <=> kind = "bulk" /\ 0 < Ahead /\ Ahead < Queued

IInv ==
    /\ TypeOK /\ CycleInv /\ TransferInv /\ ContentInv /\ BoundaryInv /\ LinkInv
    /\ WaitingInv /\ ServingInv

OwnInv == Own = IF Outstanding THEN Ahead ELSE 0

-----------------------------------------------------------------------------
(* Places in the ring *)

LEMMA RingFacts == Link \in Nat /\ Link >= 3 /\ MaxTd \in Nat /\ MaxTd >= 3 /\ MaxTd <= Link
BY RingAssumption DEF Link

LEMMA Wraps ==
    ASSUME NEW d \in Cell, NEW k \in 0..Link
    PROVE  (d + k) % Link = IF d + k < Link THEN d + k ELSE d + k - Link
<1>1. PICK L \in Nat \ {0} : L = Link
  BY RingFacts
<1>2. d \in 0..L - 1 /\ k \in 0..L
  BY <1>1 DEF Cell
<1>3. (d + k) % L = IF d + k < L THEN d + k ELSE d + k - L
  BY <1>2
<1> QED
  BY <1>1, <1>3

-----------------------------------------------------------------------------
(* The invariant *)

LEMMA InvInit == Init => IInv
<1> SUFFICES ASSUME Init PROVE IInv
    OBVIOUS
<1> USE RingFacts DEF Init, Cell, Bit
<1>1. TypeOK
  <2>1. [left |-> 0, chain |-> FALSE, ioc |-> FALSE] \in Trb
    BY DEF Trb
  <2>2. trb \in [Cell -> Trb] /\ cycle \in [0..Link -> Bit]
    BY <2>1
  <2>3. /\ kind \in {"bulk", "control", "command"} /\ step \in {"idle", "queue", "wait"}
        /\ link_chain \in BOOLEAN /\ running \in BOOLEAN /\ inTd \in BOOLEAN
        /\ event \in BOOLEAN
    OBVIOUS
  <2>4. /\ enqueue \in 0..Link /\ start_trb \in Cell /\ deq \in 0..Link
        /\ num_trbs \in 0..MaxTd
        /\ cycle_state \in Bit /\ start_cycle \in Bit /\ ccs \in Bit
    OBVIOUS
  <2> QED
    BY <2>2, <2>3, <2>4 DEF TypeOK
<1>2. CycleInv
  BY DEF CycleInv, HeldBack
<1>3. TransferInv /\ ContentInv
  BY DEF TransferInv, ContentInv
<1>4. BoundaryInv
  BY DEF BoundaryInv, Preceding
<1>5. LinkInv /\ WaitingInv /\ ServingInv
  BY DEF LinkInv, WaitingInv, ServingInv, Outstanding
<1> QED
  BY <1>1, <1>2, <1>3, <1>4, <1>5 DEF IInv

LEMMA SubmitStep == IInv /\ Submit => IInv'
<1> SUFFICES ASSUME IInv, Submit PROVE IInv'
    OBVIOUS
<1> USE RingFacts DEF Cell, Bit
<1>1. TypeOK /\ step = "idle" /\ step' = "queue"
  BY DEF IInv, TypeOK, Submit
<1>2. PICK n \in 1..MaxTd :
      /\ num_trbs' = n /\ (kind = "command" => n = 1)
      /\ kind' = kind /\ trb' = trb
      /\ UNCHANGED <<deq, ccs, inTd, event, running>>
  BY <1>1 DEF TypeOK, Submit, Length, controller
<1>3. CASE enqueue = Link
  <2>1. /\ enqueue' = 0 /\ start_trb' = 0 /\ link_chain' = FALSE
        /\ cycle_state' = 1 - cycle_state /\ start_cycle' = cycle_state'
        /\ cycle' = [cycle EXCEPT ![Link] = 1 - @]
    BY <1>3 DEF Submit
  <2>2. /\ cycle_state \in Bit /\ cycle \in [0..Link -> Bit]
        /\ deq = Link /\ ccs = cycle_state /\ ~event /\ ~inTd
    BY <1>1, <1>3 DEF IInv, TypeOK, WaitingInv, Outstanding
  <2>3. TypeOK'
    <3>1. cycle' \in [0..Link -> Bit] /\ cycle_state' \in Bit
      BY <2>1, <2>2
    <3>2. enqueue' \in 0..Link /\ start_trb' \in Cell /\ num_trbs' \in 0..MaxTd
      BY <1>2, <2>1
    <3>3. link_chain' \in BOOLEAN
      BY <2>1
    <3> QED
      BY <1>1, <1>2, <2>1, <3>1, <3>2, <3>3 DEF TypeOK
  <2>4. CycleInv'
    BY <1>1, <1>3, <2>1, <2>2 DEF IInv, CycleInv, HeldBack
  <2>5. TransferInv' /\ ContentInv'
    <3>1. Queued' = 0
      BY <1>1, <1>2, <2>1, <2>2 DEF Queued
    <3>2. \A c \in Cell : ~(Back(c)' <= Queued')
      BY <2>1, <2>2, <3>1 DEF Back
    <3>3. ContentInv'
      BY <3>2 DEF ContentInv
    <3>4. TransferInv'
      BY <1>1, <1>2, <2>1, <2>2, <3>1 DEF TransferInv
    <3> QED
      BY <3>3, <3>4
  <2>6. BoundaryInv'
    BY <1>1, <1>2, <1>3, <2>1 DEF IInv, BoundaryInv, Preceding
  <2>7. LinkInv' /\ WaitingInv' /\ ServingInv'
    BY <1>1, <1>2, <2>1, <2>2 DEF LinkInv, WaitingInv, ServingInv, Outstanding, AtStart
  <2> QED
    BY <2>3, <2>4, <2>5, <2>6, <2>7 DEF IInv
<1>4. CASE enqueue # Link
  <2>1. /\ UNCHANGED <<enqueue, link_chain, cycle_state, cycle>>
        /\ start_trb' = enqueue /\ start_cycle' = cycle_state
    BY <1>4 DEF Submit
  <2>2. /\ cycle_state \in Bit /\ cycle \in [0..Link -> Bit] /\ enqueue \in 0..Link
        /\ deq = enqueue /\ ccs = cycle_state /\ ~event /\ ~inTd
    BY <1>1 DEF IInv, TypeOK, WaitingInv, Outstanding
  <2>3. TypeOK'
    BY <1>1, <1>2, <1>4, <2>1, <2>2 DEF TypeOK
  <2>4. CycleInv'
    BY <1>1, <1>4, <2>1, <2>2 DEF IInv, CycleInv, HeldBack
  <2>5. TransferInv' /\ ContentInv'
    <3>1. Queued' = 0
      BY <1>1, <1>2, <1>4, <2>1, <2>2 DEF Queued
    <3>2. \A c \in Cell : ~(Back(c)' <= Queued')
      BY <2>1, <2>2, <3>1 DEF Back
    <3>3. ContentInv'
      BY <3>2 DEF ContentInv
    <3>4. TransferInv'
      BY <1>1, <1>2, <1>4, <2>1, <2>2, <3>1 DEF TransferInv
    <3> QED
      BY <3>3, <3>4
  <2>6. BoundaryInv'
    BY <1>1, <1>2, <1>4, <2>1 DEF IInv, BoundaryInv, Preceding
  <2>7. LinkInv' /\ WaitingInv' /\ ServingInv'
    BY <1>1, <1>2, <2>1, <2>2 DEF LinkInv, WaitingInv, ServingInv, Outstanding, AtStart
  <2> QED
    BY <2>3, <2>4, <2>5, <2>6, <2>7 DEF IInv
<1> QED
  BY <1>3, <1>4

LEMMA GiveBackStep == IInv /\ GiveBack => IInv'
<1> SUFFICES ASSUME IInv, GiveBack PROVE IInv'
    OBVIOUS
<1> USE RingFacts DEF Cell, Bit
<1>1. /\ TypeOK /\ step = "queue" /\ step' = "wait" /\ num_trbs = 0
      /\ UNCHANGED <<kind, enqueue, cycle_state, start_trb, start_cycle, num_trbs,
                     trb, link_chain, deq, ccs, inTd, event>>
      /\ running' = TRUE
      /\ cycle' = IF kind = "command" THEN cycle
                  ELSE [cycle EXCEPT ![start_trb] = start_cycle]
  BY DEF IInv, GiveBack, controller
<1>2. TypeOK'
  BY <1>1 DEF TypeOK
<1>3. CycleInv'
  BY <1>1 DEF IInv, CycleInv, HeldBack, TypeOK, TransferInv, Queued
<1>4. TransferInv' /\ ContentInv' /\ BoundaryInv' /\ LinkInv'
  BY <1>1 DEF IInv, TransferInv, ContentInv, BoundaryInv, LinkInv, Queued, Back, Preceding
<1>5. WaitingInv'
  BY <1>1 DEF WaitingInv, Outstanding
<1>6. ServingInv'
  <2>1. CASE Outstanding
    BY <1>1, <2>1 DEF IInv, ServingInv, Outstanding, Ahead, Queued
  <2>2. CASE ~Outstanding
    <3>1. ~event /\ ~inTd /\ AtStart
      BY <1>1, <2>2 DEF IInv, WaitingInv
    <3>2. /\ ccs = cycle_state => deq <= enqueue
          /\ ccs # cycle_state => enqueue <= deq
          /\ Ahead = Queued /\ 0 < Ahead
      BY <1>1, <3>1 DEF IInv, TypeOK, TransferInv, AtStart, Ahead, Queued
    <3> QED
      BY <1>1, <3>1, <3>2 DEF IInv, TypeOK, ServingInv, Ahead, Queued
  <2> QED
    BY <2>1, <2>2
<1> QED
  BY <1>2, <1>3, <1>4, <1>5, <1>6 DEF IInv

LEMMA CompletedStep == IInv /\ Completed => IInv'
<1> SUFFICES ASSUME IInv, Completed PROVE IInv'
    OBVIOUS
<1> USE RingFacts DEF Cell, Bit
<1>1. /\ TypeOK /\ step = "wait" /\ step' = "idle" /\ event /\ event' = FALSE
      /\ UNCHANGED <<kind, enqueue, cycle_state, start_trb, start_cycle, num_trbs,
                     trb, cycle, link_chain, deq, ccs, inTd, running>>
  BY DEF IInv, Completed, Arrived, controller, memory
<1>2. Ahead = 0 /\ ~inTd /\ num_trbs = 0 /\ 1 <= Queued /\ Queued <= MaxTd
  <2>1. Ahead = 0 /\ ~inTd
    BY <1>1 DEF IInv, ServingInv, Outstanding
  <2>2. num_trbs = 0 /\ 1 <= Queued /\ Queued <= MaxTd
    BY <1>1 DEF IInv, TypeOK, TransferInv, Queued
  <2> QED
    BY <2>1, <2>2
<1>3. deq = enqueue /\ ccs = cycle_state
  BY <1>1, <1>2 DEF IInv, TypeOK, ServingInv, TransferInv, Outstanding, Ahead, Queued
<1>4. TypeOK'
  BY <1>1 DEF TypeOK
<1>5. CycleInv'
  BY <1>1 DEF IInv, CycleInv, HeldBack
<1>6. TransferInv' /\ ContentInv' /\ ServingInv'
  BY <1>1 DEF TransferInv, ContentInv, ServingInv, Outstanding
<1>7. LinkInv' /\ WaitingInv'
  BY <1>1, <1>2, <1>3 DEF LinkInv, WaitingInv, Outstanding
<1>8. BoundaryInv'
  <2>1. enqueue \in 1..Link
    BY <1>1, <1>2 DEF IInv, TypeOK, TransferInv, Queued
  <2>2. Preceding(enqueue) = enqueue - 1 /\ Back(enqueue - 1) = 1
    BY <2>1 DEF Preceding, Back
  <2>3. trb[enqueue - 1].left = num_trbs + 1
    BY <1>1, <1>2, <2>1, <2>2 DEF IInv, ContentInv
  <2> QED
    BY <1>1, <1>2, <2>2, <2>3 DEF BoundaryInv, Preceding
<1> QED
  BY <1>4, <1>5, <1>6, <1>7, <1>8 DEF IInv

LEMMA FollowLinkStep == IInv /\ FollowLink => IInv'
<1> SUFFICES ASSUME IInv, FollowLink PROVE IInv'
    OBVIOUS
<1> USE RingFacts DEF Cell, Bit
<1>1. /\ TypeOK /\ deq = Link /\ cycle[Link] = ccs
      /\ deq' = 0 /\ ccs' = 1 - ccs /\ inTd' = link_chain
      /\ UNCHANGED <<kind, enqueue, cycle_state, start_trb, start_cycle, step, num_trbs,
                     trb, cycle, link_chain, running, event>>
  BY DEF IInv, FollowLink, driver, memory
<1>2. ccs = 1 - cycle_state
  BY <1>1 DEF IInv, TypeOK, CycleInv
<1>3. TypeOK'
  <2>1. deq' \in 0..Link /\ ccs' \in Bit
    BY <1>1 DEF TypeOK
  <2> QED
    BY <1>1, <2>1 DEF TypeOK
<1>4. CycleInv' /\ TransferInv' /\ ContentInv' /\ BoundaryInv'
  BY <1>1 DEF IInv, CycleInv, TransferInv, ContentInv, BoundaryInv, HeldBack, Queued, Back,
              Preceding
<1>5. LinkInv'
  BY <1>1 DEF IInv, LinkInv
<1>6. WaitingInv'
  <2> SUFFICES ASSUME ~Outstanding PROVE WaitingInv'
    BY <1>1 DEF WaitingInv, Outstanding
  <2>1. step = "queue" /\ ~event /\ start_trb = 0 /\ ccs # start_cycle
    <3>1. ~event /\ step # "idle" /\ AtStart
      BY <1>1, <1>2 DEF IInv, TypeOK, WaitingInv
    <3>2. step = "queue"
      BY <1>1, <3>1 DEF TypeOK, Outstanding
    <3> QED
      BY <1>1, <3>1, <3>2 DEF TypeOK, AtStart
  <2>2. start_cycle = cycle_state
    BY <1>1, <1>2, <2>1 DEF TypeOK
  <2>3. ~link_chain
    BY <1>1, <1>2, <2>2 DEF IInv, TypeOK, LinkInv
  <2>4. AtStart'
    BY <1>1, <1>2, <2>1, <2>2 DEF AtStart, TypeOK
  <2> QED
    BY <1>1, <2>1, <2>3, <2>4 DEF WaitingInv
<1>7. ServingInv'
  <2> SUFFICES ASSUME Outstanding PROVE ServingInv'
    BY <1>1 DEF ServingInv, Outstanding
  <2>1. step # "idle" /\ num_trbs = 0
    BY <1>1 DEF IInv, TransferInv, Outstanding
  <2>2. Ahead = enqueue /\ Ahead' = enqueue
    BY <1>1, <1>2 DEF TypeOK, Ahead
  <2>3. start_cycle # cycle_state => 0 < Ahead /\ Ahead < Queued
    BY <1>1, <2>1, <2>2 DEF IInv, TypeOK, TransferInv, Queued
  <2>4. start_cycle = cycle_state => ~(Ahead < Queued)
    BY <1>1, <2>1, <2>2 DEF IInv, TypeOK, TransferInv, Queued
  <2>5. inTd' <=> kind = "bulk" /\ 0 < Ahead /\ Ahead < Queued
    BY <1>1, <1>2, <2>1, <2>3, <2>4 DEF IInv, TypeOK, LinkInv
  <2>6. Ahead' = Ahead /\ Queued' = Queued /\ Ahead <= Queued /\ (event <=> Ahead = 0)
    BY <1>1, <2>2 DEF IInv, ServingInv, Queued
  <2>7. (ccs' = cycle_state' => deq' <= enqueue') /\ ccs' = cycle_state'
    BY <1>1, <1>2 DEF TypeOK
  <2> QED
    BY <1>1, <2>5, <2>6, <2>7 DEF ServingInv
<1> QED
  BY <1>3, <1>4, <1>5, <1>6, <1>7 DEF IInv

(* What the controller executes belongs to the transfer that was handed over. *)
LEMMA Executed ==
    ASSUME IInv, deq # Link, cycle[deq] = ccs
    PROVE  /\ Outstanding /\ step # "idle" /\ num_trbs = 0
           /\ 1 <= Ahead /\ Ahead <= Queued /\ Back(deq) = Ahead
           /\ trb[deq].left = Ahead
           /\ trb[deq].chain <=> kind = "bulk" /\ 1 < Ahead
           /\ trb[deq].ioc <=> Ahead = 1
<1> USE RingFacts DEF Cell, Bit
<1>1. TypeOK /\ deq \in Cell
  BY DEF IInv, TypeOK
<1>2. Outstanding
  <2> SUFFICES ASSUME ~Outstanding PROVE FALSE
    OBVIOUS
  <2>1. CASE step = "idle"
    BY <1>1, <2>1 DEF IInv, WaitingInv, CycleInv, HeldBack, TypeOK
  <2>2. CASE HeldBack
    BY <1>1, <2>2 DEF IInv, WaitingInv, AtStart, CycleInv, HeldBack, TypeOK
  <2>3. CASE step = "queue" /\ kind = "command"
    <3>1. num_trbs # 0 /\ AtStart
      BY <2>3 DEF IInv, WaitingInv, Outstanding
    <3>2. enqueue = start_trb /\ cycle_state = start_cycle
      BY <1>1, <2>3, <3>1 DEF IInv, TransferInv, Queued, TypeOK
    <3> QED
      BY <1>1, <2>3, <3>1, <3>2 DEF IInv, AtStart, CycleInv, HeldBack, TypeOK
  <2> QED
    BY <1>1, <2>1, <2>2, <2>3 DEF HeldBack, Outstanding, TypeOK
<1>3. step # "idle" /\ num_trbs = 0 /\ Ahead <= Queued
  BY <1>2 DEF IInv, TransferInv, Outstanding, ServingInv
<1>4. 1 <= Ahead /\ Back(deq) = Ahead
  BY <1>1, <1>2 DEF IInv, ServingInv, CycleInv, HeldBack, Outstanding, TypeOK, Ahead, Back
<1>5. Ahead \in Int
  BY <1>1 DEF TypeOK, Ahead
<1>6. /\ trb[deq].left = num_trbs + Ahead
      /\ trb[deq].chain <=> kind = "bulk" /\ num_trbs + Ahead > 1
      /\ trb[deq].ioc <=> num_trbs + Ahead = 1
  BY <1>1, <1>3, <1>4 DEF IInv, ContentInv
<1> QED
  BY <1>2, <1>3, <1>4, <1>5, <1>6

LEMMA ExecuteStep == IInv /\ Execute => IInv'
<1> SUFFICES ASSUME IInv, Execute PROVE IInv'
    OBVIOUS
<1> USE RingFacts DEF Cell, Bit
<1>1. /\ TypeOK /\ deq \in Cell /\ cycle[deq] = ccs
      /\ deq' = deq + 1 /\ inTd' = trb[deq].chain /\ event' = (event \/ trb[deq].ioc)
      /\ UNCHANGED <<kind, enqueue, cycle_state, start_trb, start_cycle, step, num_trbs,
                     trb, cycle, link_chain, running, ccs>>
  BY DEF IInv, Execute, driver, memory, TypeOK
<1>2. /\ Outstanding /\ step # "idle" /\ num_trbs = 0
      /\ 1 <= Ahead /\ Ahead <= Queued
      /\ trb[deq].chain <=> kind = "bulk" /\ 1 < Ahead
      /\ trb[deq].ioc <=> Ahead = 1
  BY <1>1, Executed
<1>3. TypeOK'
  <2>1. trb[deq] \in Trb
    BY <1>1 DEF TypeOK
  <2>2. deq' \in 0..Link /\ inTd' \in BOOLEAN /\ event' \in BOOLEAN
    BY <1>1, <2>1 DEF TypeOK, Trb
  <2> QED
    BY <1>1, <2>2 DEF TypeOK
<1>4. CycleInv' /\ TransferInv' /\ ContentInv' /\ BoundaryInv'
  BY <1>1 DEF IInv, CycleInv, TransferInv, ContentInv, BoundaryInv, HeldBack, Queued, Back,
              Preceding
<1>5. Ahead' = Ahead - 1 /\ Queued' = Queued /\ Ahead \in Int /\ Queued \in Int
  BY <1>1 DEF TypeOK, Ahead, Queued
<1>6. /\ ccs' = cycle_state' => deq' <= enqueue'
      /\ ccs' # cycle_state' => enqueue' <= deq'
  BY <1>1, <1>2 DEF IInv, TypeOK, ServingInv, Ahead
<1>7. LinkInv'
  BY <1>1, <1>2 DEF IInv, TypeOK, LinkInv, Ahead, Queued
<1>8. WaitingInv'
  BY <1>1, <1>2 DEF WaitingInv, Outstanding
<1>9. ServingInv'
  <2>1. ~event
    BY <1>2, <1>5 DEF IInv, ServingInv
  <2>2. event' <=> Ahead' = 0
    <3>1. event' <=> trb[deq].ioc
      BY <1>1, <2>1
    <3>2. Ahead = 1 <=> Ahead' = 0
      BY <1>5
    <3> QED
      BY <1>2, <3>1, <3>2
  <2>3. inTd' <=> kind = "bulk" /\ 0 < Ahead' /\ Ahead' < Queued'
    BY <1>1, <1>2, <1>5
  <2>4. Ahead' <= Queued' /\ kind' = kind
    BY <1>1, <1>2, <1>5
  <2> QED
    BY <1>6, <2>2, <2>3, <2>4 DEF ServingInv
<1> QED
  BY <1>3, <1>4, <1>7, <1>8, <1>9 DEF IInv

LEMMA StopStep == IInv /\ Stop => IInv'
<1> SUFFICES ASSUME IInv, Stop PROVE IInv'
    OBVIOUS
<1>1. /\ running' = FALSE
      /\ UNCHANGED <<kind, enqueue, cycle_state, start_trb, start_cycle, step, num_trbs,
                     trb, cycle, link_chain, deq, ccs, inTd, event>>
  BY DEF Stop, driver, memory, controller
<1>2. TypeOK'
  BY <1>1 DEF IInv, TypeOK
<1>3. CycleInv' /\ TransferInv' /\ ContentInv' /\ BoundaryInv' /\ LinkInv'
  BY <1>1 DEF IInv, CycleInv, TransferInv, ContentInv, BoundaryInv, LinkInv, HeldBack, Queued,
              Back, Preceding
<1>4. WaitingInv' /\ ServingInv'
  BY <1>1 DEF IInv, WaitingInv, ServingInv, Ahead, Queued, AtStart, Outstanding
<1> QED
  BY <1>2, <1>3, <1>4 DEF IInv

(* A TRB is queued behind those of the same transfer that are there. *)
LEMMA QueueTrbStep == IInv /\ QueueTrb => IInv'
<1> SUFFICES ASSUME IInv, QueueTrb PROVE IInv'
    OBVIOUS
<1> USE RingFacts DEF Cell, Bit
<1> DEFINE more == num_trbs > 1
           chain == kind = "bulk" /\ more
           new == [left |-> num_trbs, chain |-> chain, ioc |-> ~more]
           written == [cycle EXCEPT ![enqueue] = CycleOf]
           over == enqueue + 1 = Link /\ PassLink(chain, more)
<1>1. /\ TypeOK /\ step = "queue" /\ num_trbs > 0
      /\ trb' = [trb EXCEPT ![enqueue] = new] /\ num_trbs' = num_trbs - 1
      /\ UNCHANGED <<kind, start_trb, start_cycle, step, deq, ccs, inTd, running, event>>
  BY DEF IInv, QueueTrb, controller
<1>2. enqueue \in Cell /\ num_trbs \in 1..MaxTd
  BY <1>1 DEF IInv, TypeOK, TransferInv
<1>3. over <=> enqueue = Link - 1 /\ num_trbs > 1
  BY <1>2 DEF PassLink
<1>4. trb' \in [Cell -> Trb] /\ num_trbs' \in 0..MaxTd /\ CycleOf \in Bit
  <2>1. new \in Trb
    BY <1>2 DEF Trb
  <2>2. CycleOf \in Bit
    BY <1>1 DEF CycleOf, TypeOK
  <2> QED
    BY <1>1, <1>2, <2>1, <2>2 DEF TypeOK
<1>5. /\ \A c \in Cell : c # enqueue => trb'[c] = trb[c]
      /\ trb'[enqueue].left = num_trbs
      /\ trb'[enqueue].chain <=> kind = "bulk" /\ num_trbs > 1
      /\ trb'[enqueue].ioc <=> num_trbs = 1
  <2>1. (\A c \in Cell : c # enqueue => trb'[c] = trb[c]) /\ trb'[enqueue] = new
    BY <1>1, <1>2 DEF TypeOK
  <2>2. ~more <=> num_trbs = 1
    BY <1>2
  <2>3. /\ new.left = num_trbs /\ (new.chain <=> kind = "bulk" /\ num_trbs > 1)
        /\ (new.ioc <=> ~more)
    BY Zenon
  <2> QED
    BY <2>1, <2>2, <2>3
<1>6. /\ Queued \in 0..MaxTd - num_trbs
      /\ start_cycle # cycle_state => enqueue + num_trbs <= start_trb
      /\ start_cycle = cycle_state => start_trb <= enqueue
      /\ kind = "command" => num_trbs = 1 /\ Queued = 0
  BY <1>1, <1>2 DEF IInv, TypeOK, TransferInv, Queued
<1>7. ASSUME Queued' = Queued + 1,
             \A c \in Cell : Back(c)' = IF c = enqueue THEN 1 ELSE Back(c) + 1
      PROVE  ContentInv'
  <2> SUFFICES ASSUME NEW c \in Cell, Back(c)' <= Queued'
               PROVE  /\ trb'[c].left = num_trbs' + Back(c)'
                      /\ trb'[c].chain <=> kind' = "bulk" /\ num_trbs' + Back(c)' > 1
                      /\ trb'[c].ioc <=> num_trbs' + Back(c)' = 1
    BY DEF ContentInv
  <2>1. CASE c = enqueue
    <3>1. num_trbs' + Back(c)' = num_trbs
      BY <1>1, <1>2, <1>7, <2>1
    <3> QED
      BY <1>1, <1>5, <2>1, <3>1
  <2>2. CASE c # enqueue
    <3>1. num_trbs' + Back(c)' = num_trbs + Back(c) /\ Back(c) <= Queued
      BY <1>1, <1>2, <1>6, <1>7, <2>2 DEF Back
    <3>2. trb'[c] = trb[c]
      BY <1>5, <2>2
    <3>3. /\ trb[c].left = num_trbs + Back(c)
          /\ trb[c].chain <=> kind = "bulk" /\ num_trbs + Back(c) > 1
          /\ trb[c].ioc <=> num_trbs + Back(c) = 1
      BY <1>1, <3>1 DEF IInv, ContentInv
    <3> QED
      BY <1>1, <3>1, <3>2, <3>3
  <2> QED
    BY <2>1, <2>2
<1>8. CASE over
  <2>1. /\ cycle' = [written EXCEPT ![Link] = 1 - @] /\ link_chain' = chain
        /\ cycle_state' = 1 - cycle_state /\ enqueue' = 0
    BY <1>8 DEF QueueTrb, CarryChain
  <2>2. enqueue = Link - 1 /\ num_trbs > 1 /\ start_cycle = cycle_state /\ kind # "command"
    BY <1>1, <1>2, <1>3, <1>6, <1>8 DEF TypeOK
  <2>3. TypeOK'
    <3>1. cycle' \in [0..Link -> Bit] /\ cycle_state' \in Bit
      BY <1>1, <1>2, <1>4, <2>1 DEF TypeOK
    <3>2. enqueue' \in 0..Link
      BY <2>1
    <3>3. link_chain' \in BOOLEAN
      BY <2>1
    <3> QED
      BY <1>1, <1>4, <3>1, <3>2, <3>3 DEF TypeOK
  <2>4. CycleInv'
    BY <1>1, <1>2, <1>6, <2>1, <2>2 DEF IInv, CycleInv, HeldBack, CycleOf, TypeOK
  <2>5. Queued' = Queued + 1
    BY <1>1, <1>2, <2>1, <2>2 DEF Queued, TypeOK
  <2>6. TransferInv'
    BY <1>1, <1>2, <1>6, <2>1, <2>2, <2>5 DEF TransferInv, TypeOK
  <2>7. ContentInv'
    <3>1. \A c \in Cell : Back(c)' = IF c = enqueue THEN 1 ELSE Back(c) + 1
      BY <2>1, <2>2 DEF Back
    <3> QED
      BY <1>7, <2>5, <3>1
  <2>8. BoundaryInv'
    BY <1>1, <1>2, <1>5, <1>6, <2>2 DEF IInv, BoundaryInv, Preceding, Queued, TypeOK
  <2>9. LinkInv'
    <3>1. start_cycle' # cycle_state'
      BY <1>1, <2>1, <2>2 DEF TypeOK
    <3>2. chain <=> kind = "bulk"
      BY <2>2
    <3> QED
      BY <1>1, <2>1, <3>1, <3>2 DEF LinkInv
  <2>10. WaitingInv' /\ ServingInv'
    BY <1>1, <2>2 DEF IInv, WaitingInv, ServingInv, Outstanding, AtStart
  <2> QED
    BY <2>3, <2>4, <2>6, <2>7, <2>8, <2>9, <2>10 DEF IInv
<1>9. CASE ~over
  <2>1. /\ cycle' = written /\ enqueue' = enqueue + 1
        /\ UNCHANGED <<link_chain, cycle_state>>
    BY <1>9 DEF QueueTrb
  <2>2. enqueue + 1 = Link => num_trbs = 1
    BY <1>2, <1>3, <1>9
  <2>3. TypeOK'
    <3>1. cycle' \in [0..Link -> Bit]
      BY <1>1, <1>2, <1>4, <2>1 DEF TypeOK
    <3>2. enqueue' \in 0..Link
      BY <1>2, <2>1
    <3> QED
      BY <1>1, <1>4, <2>1, <3>1, <3>2 DEF TypeOK
  <2>4. CycleInv'
    BY <1>1, <1>2, <1>6, <2>1, <2>2 DEF IInv, CycleInv, HeldBack, CycleOf, TypeOK, Queued
  <2>5. Queued' = Queued + 1
    BY <1>1, <1>2, <2>1, <2>2 DEF Queued, TypeOK
  <2>6. TransferInv'
    BY <1>1, <1>2, <1>6, <2>1, <2>2, <2>5 DEF TransferInv, TypeOK
  <2>7. ContentInv'
    <3>1. \A c \in Cell : Back(c)' = IF c = enqueue THEN 1 ELSE Back(c) + 1
      BY <1>2, <2>1 DEF Back
    <3> QED
      BY <1>7, <2>5, <3>1
  <2>8. BoundaryInv'
    BY <1>1, <1>2, <1>5, <1>6, <2>2 DEF IInv, BoundaryInv, Preceding, Queued, TypeOK
  <2>9. LinkInv'
    BY <1>1, <2>1, <2>2 DEF IInv, LinkInv, TypeOK
  <2>10. ~event /\ ~inTd /\ AtStart
    BY <1>1, <1>2, <1>6 DEF IInv, WaitingInv, Outstanding
  <2>11. WaitingInv'
    BY <1>1, <2>10 DEF WaitingInv, AtStart
  <2>12. ServingInv'
    <3> SUFFICES ASSUME Outstanding' PROVE ServingInv'
      BY DEF ServingInv
    <3>1. kind = "command" /\ num_trbs = 1 /\ Queued = 0
      BY <1>1, <1>6 DEF Outstanding
    <3>2. enqueue = start_trb /\ start_cycle = cycle_state
      BY <1>1, <1>2, <1>6, <3>1 DEF Queued, TypeOK
    <3>3. Ahead' = 1 /\ Queued' = 1
      BY <1>1, <1>2, <2>1, <2>5, <2>10, <3>1, <3>2 DEF AtStart, Ahead, TypeOK
    <3>4. /\ ccs' = cycle_state' => deq' <= enqueue'
          /\ ccs' # cycle_state' => enqueue' <= deq'
      BY <1>1, <1>2, <2>1, <2>10, <3>2 DEF AtStart, TypeOK
    <3>5. ~event' /\ ~inTd' /\ kind' # "bulk"
      BY <1>1, <2>10, <3>1
    <3> QED
      BY <3>3, <3>4, <3>5 DEF ServingInv
  <2> QED
    BY <2>3, <2>4, <2>6, <2>7, <2>8, <2>9, <2>11, <2>12 DEF IInv
<1> QED
  BY <1>8, <1>9

(* The invariant holds in every reachable state. *)
THEOREM Invariance == Spec => []IInv
<1>1. IInv /\ [Next]_vars => IInv'
  <2> SUFFICES ASSUME IInv, [Next]_vars PROVE IInv'
    OBVIOUS
  <2>1. CASE UNCHANGED vars
    <3>1. UNCHANGED <<kind, enqueue, cycle_state, start_trb, start_cycle, step, num_trbs,
                      trb, cycle, link_chain, deq, ccs, inTd, running, event>>
      BY <2>1 DEF vars, driver, memory, controller
    <3>2. (TypeOK /\ CycleInv /\ TransferInv /\ ContentInv)'
      BY <3>1 DEF IInv, TypeOK, CycleInv, TransferInv, ContentInv, HeldBack, Queued, Back
    <3>3. (BoundaryInv /\ LinkInv /\ WaitingInv /\ ServingInv)'
      BY <3>1 DEF IInv, BoundaryInv, LinkInv, WaitingInv, ServingInv, Preceding, AtStart,
                  Outstanding, Ahead, Queued
    <3> QED
      BY <3>2, <3>3 DEF IInv
  <2> QED
    BY <2>1, SubmitStep, QueueTrbStep, GiveBackStep, CompletedStep, FollowLinkStep,
       ExecuteStep, StopStep DEF Next
<1> QED
  BY <1>1, InvInit, PTL DEF Spec

(* Type correctness: among others, a TRB is only ever written to a place
   before the link, and a transfer has no more TRBs than was checked. *)
THEOREM TypeCorrect == Spec => []TypeOK
BY Invariance, PTL DEF IInv

-----------------------------------------------------------------------------
(* What the controller finds *)

LEMMA PlaceOf ==
    ASSUME TypeOK, NEW k \in 0..Link
    PROVE  At(k) = IF deq = Link THEN k
                   ELSE IF deq + k < Link THEN deq + k ELSE deq + k - Link
<1> USE RingFacts
<1>1. CASE deq = Link
  BY <1>1 DEF At
<1>2. CASE deq # Link
  <2>1. deq \in Cell
    BY <1>2 DEF TypeOK, Cell
  <2>2. (deq + k) % Link = IF deq + k < Link THEN deq + k ELSE deq + k - Link
    BY <2>1, Wraps
  <2> QED
    BY <1>2, <2>2 DEF At
<1> QED
  BY <1>1, <1>2

LEMMA OwnIs ==
    ASSUME NEW n \in 0..Link, \A k \in 0..n - 1 : IsOwn(k), n = Link \/ ~IsOwn(n)
    PROVE  Own = n
<1> USE RingFacts
<1> DEFINE P(m) == (\A k \in 0..m - 1 : IsOwn(k)) /\ (m = Link \/ ~IsOwn(m))
<1>1. Own = CHOOSE m \in 0..Link : P(m)
  BY DEF Own
<1>2. P(n)
  OBVIOUS
<1>3. ASSUME NEW m \in 0..Link, P(m) PROVE m = n
  <2>1. ~(m < n)
    <3> SUFFICES ASSUME m < n PROVE FALSE
      OBVIOUS
    <3>1. m \in 0..n - 1 /\ m # Link
      OBVIOUS
    <3> QED
      BY <1>3, <3>1
  <2>2. ~(n < m)
    <3> SUFFICES ASSUME n < m PROVE FALSE
      OBVIOUS
    <3>1. n \in 0..m - 1 /\ n # Link
      OBVIOUS
    <3> QED
      BY <1>3, <3>1
  <2> QED
    BY <2>1, <2>2
<1> HIDE DEF P
<1> QED
  BY <1>1, <1>2, <1>3

Pending == IF Outstanding THEN Ahead ELSE 0

(* The controller finds what is left of the transfer that was handed over. *)
LEMMA OwnValue ==
    ASSUME IInv
    PROVE  /\ Own = Pending /\ Pending \in 0..Link
           /\ \A k \in 0..Link - 1 : k < Own => At(k) \in Cell /\ Back(At(k)) = Own - k
<1> USE RingFacts DEF Cell, Bit
<1>1. TypeOK
  BY DEF IInv
<1>2. CASE ~Outstanding
  <2>1. Pending = 0
    BY <1>2 DEF Pending
  <2>2. ~IsOwn(0)
    <3>1. At(0) = IF deq = Link THEN 0 ELSE deq
      BY <1>1, PlaceOf DEF TypeOK
    <3>2. CASE step = "idle"
      BY <1>1, <1>2, <3>1, <3>2 DEF IInv, WaitingInv, CycleInv, HeldBack, TypeOK, IsOwn, BehindLink
    <3>3. CASE HeldBack
      BY <1>1, <1>2, <3>1, <3>3
         DEF IInv, WaitingInv, AtStart, CycleInv, HeldBack, TypeOK, IsOwn, BehindLink
    <3>4. CASE step = "queue" /\ kind = "command"
      <4>1. num_trbs # 0 /\ AtStart
        BY <1>2, <3>4 DEF IInv, WaitingInv, Outstanding
      <4>2. enqueue = start_trb /\ cycle_state = start_cycle
        BY <1>1, <3>4, <4>1 DEF IInv, TransferInv, Queued, TypeOK
      <4> QED
        BY <1>1, <3>1, <3>4, <4>1, <4>2
           DEF IInv, AtStart, CycleInv, HeldBack, TypeOK, IsOwn, BehindLink
    <3> QED
      BY <1>1, <1>2, <3>2, <3>3, <3>4 DEF HeldBack, Outstanding, TypeOK
  <2>3. Own = 0
    BY <2>2, OwnIs
  <2> QED
    BY <2>1, <2>3
<1>3. CASE Outstanding
  <2>1. /\ Pending = Ahead
        /\ ccs = cycle_state => deq <= enqueue
        /\ ccs # cycle_state => enqueue <= deq
    BY <1>3 DEF IInv, Pending, ServingInv
  <2>2. Ahead \in 0..Link
    BY <1>1, <2>1 DEF Ahead, TypeOK
  <2>3. \A p \in 0..Link : cycle[p] = IF p < enqueue THEN cycle_state ELSE 1 - cycle_state
    <3>1. step = "queue" => kind = "command"
      BY <1>1, <1>3 DEF Outstanding, TypeOK
    <3> QED
      BY <3>1 DEF IInv, CycleInv, HeldBack
  <2>4. ASSUME NEW k \in 0..Ahead - 1
        PROVE  IsOwn(k) /\ At(k) \in Cell /\ Back(At(k)) = Ahead - k
    <3>1. k \in 0..Link
      BY <2>2
    <3>2. At(k) = IF deq = Link THEN k
                  ELSE IF deq + k < Link THEN deq + k ELSE deq + k - Link
      BY <1>1, <3>1, PlaceOf
    <3>3. At(k) \in Cell /\ Back(At(k)) = Ahead - k
      BY <1>1, <2>1, <2>2, <3>2 DEF Ahead, Back, TypeOK
    <3>4. IsOwn(k)
      BY <1>1, <2>1, <2>2, <2>3, <3>2 DEF Ahead, IsOwn, BehindLink, TypeOK
    <3> QED
      BY <3>3, <3>4
  <2>5. Ahead = Link \/ ~IsOwn(Ahead)
    <3> SUFFICES ASSUME Ahead # Link PROVE ~IsOwn(Ahead)
      OBVIOUS
    <3>1. At(Ahead) = IF deq = Link THEN Ahead
                      ELSE IF deq + Ahead < Link THEN deq + Ahead ELSE deq + Ahead - Link
      BY <1>1, <2>2, PlaceOf
    <3> QED
      BY <1>1, <2>1, <2>2, <2>3, <3>1 DEF Ahead, IsOwn, BehindLink, TypeOK
  <2>6. Own = Ahead
    BY <2>2, <2>4, <2>5, OwnIs
  <2> QED
    BY <2>1, <2>2, <2>4, <2>6
<1> QED
  BY <1>2, <1>3

-----------------------------------------------------------------------------
(* The theorems *)

(* Between any two TRBs of a bulk transfer there is a chain bit, the link
   included, and nowhere else (queue_trb and inc_enq). *)
THEOREM BulkTransferIsOneTd == Spec => []ChainIsUnbroken
<1>1. IInv => ChainIsUnbroken
  <2> SUFFICES ASSUME IInv PROVE ChainIsUnbroken
    OBVIOUS
  <2> USE RingFacts DEF Cell, Bit
  <2>1. TypeOK /\ Own = Pending
    BY OwnValue DEF IInv
  <2>2. CASE ~Outstanding
    BY <2>1, <2>2 DEF IInv, WaitingInv, Pending, ChainIsUnbroken
  <2>3. CASE Outstanding
    <3>1. /\ Own = Ahead /\ Ahead <= Queued
          /\ inTd <=> kind = "bulk" /\ 0 < Ahead /\ Ahead < Queued
          /\ ccs = cycle_state => deq <= enqueue
          /\ ccs # cycle_state => enqueue <= deq
      BY <2>1, <2>3 DEF IInv, Pending, ServingInv
    <3>2. /\ step # "idle" /\ num_trbs = 0 /\ Queued <= MaxTd
          /\ start_cycle = cycle_state => start_trb <= enqueue
          /\ start_cycle # cycle_state => enqueue <= start_trb
      BY <2>1, <2>3 DEF IInv, TransferInv, Outstanding, TypeOK, Queued
    <3>3. Before \in Cell /\ Before = Preceding(deq) /\ Ahead \in Int /\ Queued \in Int
      BY <2>1 DEF Before, Preceding, TypeOK, Ahead, Queued
    <3>4. ASSUME 0 < Ahead, Ahead < Queued PROVE trb[Before].left = Ahead + 1
      <4>1. Back(Before) = Ahead + 1
        <5>1. Ahead < Link
          BY <3>2, <3>3, <3>4
        <5> QED
          BY <2>1, <3>1, <3>4, <5>1 DEF Before, Back, Ahead, TypeOK
      <4> QED
        BY <3>2, <3>3, <3>4, <4>1 DEF IInv, ContentInv
    <3>5. ASSUME 0 < Ahead, Ahead = Queued PROVE trb[Before].left # Ahead + 1
      <4>1. Before = Preceding(start_trb)
        BY <2>1, <3>1, <3>2, <3>3, <3>5 DEF Preceding, Ahead, Queued, TypeOK
      <4>2. trb[Before].left <= 1
        BY <3>2, <4>1 DEF IInv, BoundaryInv
      <4> QED
        BY <3>3, <3>5, <4>2
    <3>6. 0 < Ahead => (Ahead < Queued <=> trb[Before].left = Ahead + 1)
      BY <3>1, <3>3, <3>4, <3>5
    <3> QED
      BY <3>1, <3>6 DEF ChainIsUnbroken
  <2> QED
    BY <2>2, <2>3
<1> QED
  BY <1>1, Invariance, PTL

(* A step of the driver leaves alone whatever the controller has still to
   execute, though it never looks for room in the ring. *)
THEOREM RingNeverOverflows == Spec => NoTrbIsOverwritten
<1> DEFINE Kept == \A k \in 0..Link - 1 : k < Own /\ UNCHANGED deq =>
                       cycle'[At(k)] = cycle[At(k)] /\ trb'[At(k)] = trb[At(k)]
<1>1. IInv /\ [Next]_vars => [Kept]_vars
  <2> SUFFICES ASSUME IInv, Next, NEW k \in 0..Link - 1, k < Own
               PROVE  cycle'[At(k)] = cycle[At(k)] /\ trb'[At(k)] = trb[At(k)]
    OBVIOUS
  <2> USE RingFacts DEF Cell, Bit
  <2>1. TypeOK /\ At(k) \in Cell /\ Own = Pending /\ Own # 0
    BY OwnValue DEF IInv
  <2>2. Outstanding
    BY <2>1 DEF Pending
  <2>3. CASE Submit
    BY <2>2, <2>3 DEF Outstanding, Submit
  <2>4. CASE QueueTrb
    BY <2>1, <2>2, <2>4 DEF Outstanding, QueueTrb, TypeOK
  <2>5. CASE GiveBack
    BY <2>2, <2>5 DEF Outstanding, GiveBack
  <2>6. CASE Completed \/ FollowLink \/ Execute \/ Stop
    BY <2>6 DEF Completed, FollowLink, Execute, Stop, memory
  <2> QED
    BY <2>3, <2>4, <2>5, <2>6 DEF Next
<1>2. NoTrbIsOverwritten <=> [][Kept]_vars
  BY DEF NoTrbIsOverwritten
<1> QED
  BY <1>1, <1>2, Invariance, PTL DEF Spec

-----------------------------------------------------------------------------
(* Refinement: what the controller has to do, as TdQueue sees it *)

Todo == [k \in 1..Own |-> trb[At(k - 1)].left]
Countdown(n) == [k \in 1..n |-> n + 1 - k]

LEMMA TodoValue == IInv => Todo = Countdown(Pending)
<1> SUFFICES ASSUME IInv PROVE Todo = Countdown(Pending)
    OBVIOUS
<1>1. PICK n \in 0..Link :
          /\ n = Pending /\ Own = n
          /\ \A j \in 0..Link - 1 : j < n => At(j) \in Cell /\ Back(At(j)) = n - j
  <2>1. Pending \in 0..Link /\ Own = Pending
    BY OwnValue
  <2> QED
    BY <2>1, OwnValue
<1>2. ASSUME NEW k \in 1..n PROVE trb[At(k - 1)].left = n + 1 - k
  <2>1. k - 1 \in 0..Link - 1 /\ k - 1 < n /\ n # 0
    BY <1>2, RingFacts
  <2>2. At(k - 1) \in Cell /\ Back(At(k - 1)) = n - (k - 1)
    BY <1>1, <2>1
  <2>3. /\ step # "idle" /\ num_trbs = 0 /\ Ahead = n /\ Ahead <= Queued
    BY <1>1, <2>1 DEF IInv, TransferInv, ServingInv, Outstanding, Pending
  <2>4. Queued \in Int
    BY RingFacts DEF IInv, TypeOK, Queued, Cell
  <2>5. Back(At(k - 1)) <= Queued
    BY <2>1, <2>2, <2>3, <2>4
  <2>6. trb[At(k - 1)].left = num_trbs + Back(At(k - 1))
    BY <2>2, <2>3, <2>5 DEF IInv, ContentInv
  <2> QED
    BY <2>1, <2>2, <2>3, <2>6
<1>3. Todo = [k \in 1..n |-> trb[At(k - 1)].left]
  BY <1>1 DEF Todo
<1> QED
  BY <1>1, <1>2, <1>3 DEF Countdown

LEMMA CountdownFacts ==
    ASSUME NEW n \in Nat
    PROVE  /\ Countdown(n) = <<>> <=> n = 0
           /\ n > 0 => Tail(Countdown(n)) = Countdown(n - 1)
<1>1. Countdown(n) \in Seq(Int) /\ Len(Countdown(n)) = n
  BY DEF Countdown
<1>2. n > 0 => Tail(Countdown(n)) = Countdown(n - 1)
  <2> SUFFICES ASSUME n > 0 PROVE Tail(Countdown(n)) = Countdown(n - 1)
    OBVIOUS
  <2>1. /\ Tail(Countdown(n)) \in Seq(Int) /\ Len(Tail(Countdown(n))) = n - 1
        /\ \A i \in 1..n - 1 : Tail(Countdown(n))[i] = Countdown(n)[i + 1]
    BY <1>1, HeadTailProperties
  <2>2. \A i \in 1..n - 1 : Countdown(n)[i + 1] = n - i
    BY DEF Countdown
  <2>3. Countdown(n - 1) \in Seq(Int) /\ Len(Countdown(n - 1)) = n - 1
    BY DEF Countdown
  <2>4. \A i \in 1..n - 1 : Countdown(n - 1)[i] = n - i
    BY DEF Countdown
  <2>5. \A i \in 1..n - 1 : Tail(Countdown(n))[i] = Countdown(n - 1)[i]
    BY <2>1, <2>2, <2>4
  <2> QED
    BY <2>1, <2>3, <2>5, SeqEqual
<1> QED
  BY <1>1, <1>2

(* Every step is one of TdQueue, or nothing as it sees it. *)
LEMMA NextRefines ==
    IInv /\ IInv' /\ [Next]_vars => [Td!Next]_(Td!vars)
<1> SUFFICES ASSUME IInv, IInv', [Next]_vars
             PROVE  Td!Next \/ (Todo' = Todo /\ Outstanding' = Outstanding)
    BY DEF Td!vars, Todo
<1> USE RingFacts DEF Cell, Bit
<1>1. TypeOK /\ Todo = Countdown(Pending) /\ Pending \in 0..Link
  BY TodoValue, OwnValue DEF IInv
<1>2. Todo' = Countdown(Pending')
  <2>1. (IInv => Todo = Countdown(Pending))'
    BY TodoValue, PTL
  <2> QED
    BY <2>1
<1>3. ASSUME Pending' = Pending, Outstanding' = Outstanding
      PROVE  Todo' = Todo /\ Outstanding' = Outstanding
  BY <1>1, <1>2, <1>3
<1>4. ASSUME ~Outstanding, Outstanding', ~event' PROVE Td!Submit
  <2>1. (IInv => Pending \in 0..Link)'
    BY OwnValue, PTL
  <2>2. Pending' = Ahead' /\ Ahead' # 0 /\ Ahead' <= Queued'
    BY <1>4 DEF IInv, ServingInv, Pending
  <2>3. num_trbs' = 0 /\ Queued' + num_trbs' <= MaxTd
    BY <1>4 DEF IInv, TransferInv, Outstanding
  <2>4. Queued' \in Int
    BY DEF IInv, TypeOK, Queued
  <2>5. PICK n \in 1..MaxTd : Pending' = n
    <3>1. PICK p \in 0..Link : p = Pending'
      BY <2>1
    <3>2. PICK q \in Int : q = Queued'
      BY <2>4
    <3>3. p # 0 /\ p <= q
      BY <2>2, <3>1, <3>2
    <3>4. q <= MaxTd
      <4>1. q + 0 <= MaxTd
        BY <2>3, <3>2, Zenon
      <4> QED
        BY <4>1
    <3> QED
      BY <3>1, <3>3, <3>4
  <2> QED
    BY <1>1, <1>2, <1>4, <2>5 DEF Td!Submit, Todo, Countdown, Outstanding
<1>5. CASE UNCHANGED vars
  <2>1. Pending' = Pending /\ Outstanding' = Outstanding
    BY <1>5 DEF vars, driver, controller, Pending, Outstanding, Ahead
  <2> QED
    BY <1>3, <2>1
<1>6. CASE Submit
  <2>1. num_trbs' # 0
    BY <1>1, <1>6 DEF Submit, Length, TypeOK
  <2>2. ~Outstanding /\ ~Outstanding'
    BY <1>6, <2>1 DEF Submit, Outstanding
  <2>3. Pending' = 0 /\ Pending = 0
    BY <2>2 DEF Pending
  <2> QED
    BY <1>3, <2>2, <2>3 DEF Outstanding
<1>7. CASE QueueTrb
  <2>1. ~Outstanding /\ event' = event
    BY <1>7 DEF QueueTrb, Outstanding
  <2>2. CASE Outstanding'
    <3>1. ~event'
      BY <2>1 DEF IInv, WaitingInv
    <3> QED
      BY <1>4, <2>1, <2>2, <3>1 DEF Td!Next
  <2>3. CASE ~Outstanding'
    <3>1. Pending' = Pending
      BY <2>1, <2>3 DEF Pending
    <3> QED
      BY <1>3, <2>1, <2>3, <3>1 DEF Outstanding
  <2> QED
    BY <2>2, <2>3
<1>8. CASE GiveBack
  <2>1. /\ Outstanding' /\ event' = event
        /\ UNCHANGED <<enqueue, cycle_state, deq, ccs>>
    BY <1>8 DEF GiveBack, Outstanding, controller
  <2>2. CASE Outstanding
    <3>1. Pending' = Pending
      BY <2>1, <2>2 DEF Pending, Ahead
    <3> QED
      BY <1>3, <2>1, <2>2, <3>1 DEF Outstanding
  <2>3. CASE ~Outstanding
    <3>1. ~event'
      BY <2>1, <2>3 DEF IInv, WaitingInv
    <3> QED
      BY <1>4, <2>1, <2>3, <3>1 DEF Td!Next
  <2> QED
    BY <2>2, <2>3
<1>9. CASE Completed
  <2>1. Outstanding /\ ~Outstanding' /\ event
    BY <1>9 DEF Completed, Arrived, Outstanding
  <2>2. Pending = 0 /\ Pending' = 0
    BY <2>1 DEF IInv, ServingInv, Pending
  <2>3. Todo = <<>> /\ Todo' = Todo
    BY <1>1, <1>2, <2>2, CountdownFacts
  <2> QED
    BY <2>1, <2>3 DEF Td!Next, Td!Complete, Todo, Outstanding
<1>10. CASE FollowLink
  <2>1. /\ deq = Link /\ cycle[Link] = ccs /\ deq' = 0 /\ ccs' = 1 - ccs
        /\ UNCHANGED <<kind, step, num_trbs, enqueue, cycle_state>>
    BY <1>10 DEF FollowLink, driver
  <2>2. ccs = 1 - cycle_state
    BY <1>1, <2>1 DEF IInv, TypeOK, CycleInv
  <2>3. Ahead' = Ahead
    BY <1>1, <2>1, <2>2 DEF TypeOK, Ahead
  <2>4. Pending' = Pending /\ Outstanding' = Outstanding
    BY <2>1, <2>3 DEF Pending, Outstanding
  <2> QED
    BY <1>3, <2>4
<1>11. CASE Execute
  <2>1. /\ deq # Link /\ cycle[deq] = ccs /\ deq' = deq + 1
        /\ UNCHANGED <<kind, step, num_trbs, enqueue, cycle_state, ccs>>
    BY <1>11 DEF Execute, driver
  <2>2. Outstanding /\ 1 <= Ahead
    BY <2>1, Executed
  <2>3. Outstanding' = Outstanding
    BY <2>1 DEF Outstanding
  <2>4. Ahead' = Ahead - 1
    BY <1>1, <2>1 DEF TypeOK, Ahead
  <2>5. Pending = Ahead /\ Pending' = Pending - 1
    BY <2>2, <2>3, <2>4 DEF Pending
  <2>6. Pending \in Nat /\ Pending > 0
    BY <1>1, <2>2, <2>5
  <2>7. Todo # <<>> /\ Todo' = Tail(Todo)
    <3>1. PICK p \in Nat : p = Pending /\ p > 0
      BY <2>6
    <3>2. Todo = Countdown(p) /\ Todo' = Countdown(p - 1)
      BY <1>1, <1>2, <2>5, <3>1
    <3>3. ~(Countdown(p) = <<>>) /\ Tail(Countdown(p)) = Countdown(p - 1)
      <4>1. p # 0
        BY <3>1
      <4> QED
        BY <3>1, <4>1, CountdownFacts
    <3> QED
      BY <3>2, <3>3, Zenon
  <2> QED
    BY <2>3, <2>7 DEF Td!Next, Td!Execute, Todo, Outstanding
<1>12. CASE Stop
  <2>1. Pending' = Pending /\ Outstanding' = Outstanding
    BY <1>12 DEF Stop, driver, controller, Pending, Outstanding, Ahead
  <2> QED
    BY <1>3, <2>1
<1> QED
  BY <1>5, <1>6, <1>7, <1>8, <1>9, <1>10, <1>11, <1>12 DEF Next

(* The controller executes the TRBs of every transfer or command once and in
   order, whole transfers only, as TdQueue says; but that it does so at last is
   left to the model checker. *)
THEOREM TdsAreExecutedInOrder == Spec => Td!Init /\ [][Td!Next]_(Td!vars)
<1>1. IInv /\ Init => Td!Init
  <2> SUFFICES ASSUME IInv, Init PROVE Td!Init
    OBVIOUS
  <2>1. ~Outstanding
    BY DEF Init, Outstanding
  <2>2. Todo = <<>>
    BY <2>1, TodoValue, CountdownFacts DEF Pending
  <2> QED
    BY <2>1, <2>2 DEF Td!Init, Todo, Outstanding
<1>2. IInv /\ IInv' /\ [Next]_vars => [Td!Next]_(Td!vars)
  BY NextRefines
<1>3. Spec => []IInv /\ Init /\ [][Next]_vars
  BY Invariance, PTL DEF Spec
<1>4. Init => IInv
  BY InvInit
<1> QED
  BY <1>1, <1>2, <1>3, <1>4, PTL

-----------------------------------------------------------------------------
(* The drivers above the rings: EHCI and the disk, then xHCI *)

UsbTypeOK == DiskTypeOK /\ XhciTypeOK /\ EhciTypeOK

-----------------------------------------------------------------------------
(* EHCI: which device has which address, until there is no disk or the board
   is reset *)
Early == {"controller", "connect", "port_enable"}
ToHub == {"hub_conf", "hub_desc", "first_scan", "wake_set", "wake_clear", "scan",
          "port_clear", "port_reset", "port_speed"}
ToNew == {"dev_desc64", "child_addr"}
ToOwn == {"dev_desc2", "conf_desc2", "conf_all", "set_conf"}
Plugged == (Control \ {"set_addr"}) \union Bulk \union {"idle"}

(* Where a device behind the hub may be: without power, at its own address, or
   at address 0, but only the one that the driver is about to address. *)
Addressed(d) ==
    \/ addrs[d] \in {Off, ChildAddress(d)}
    \/ addrs[d] = 0 /\ IsHub /\ d = port /\ pc \in {"port_speed"} \union ToNew
AddressInv ==
    /\ pc \in Early => addrs[0] = Off /\ eaddr = 0
    /\ pc = "set_addr" => addrs[0] = 0 /\ eaddr = 0
    /\ pc \in Early \union {"set_addr"} => \A d \in 1..Hub : addrs[d] = Off
    /\ pc \in Plugged => addrs[0] = 1 /\ \A d \in 1..Hub : Addressed(d)
    /\ pc \in {"dev_desc8", "dev_desc", "conf_desc"} \union ToHub => eaddr = 1
    /\ pc \in ToNew \union ToOwn =>
          IF ~IsHub THEN eaddr = 1
          ELSE port <= Hub /\ addrs[port] = eaddr
               /\ eaddr = IF pc \in ToNew THEN 0 ELSE ChildAddress(port)
    /\ pc \in ToHub \union {"child_addr"} => IsHub
    /\ pc \in {"port_clear", "port_reset", "port_speed"} => port <= Hub
    /\ pc = "port_speed" => (addrs[port] = 0 <=> OnPort # "broken")
    /\ port # 0

LEMMA HubFacts ==
    ASSUME DiskTypeOK
    PROVE  /\ Hub \in Nat /\ port \in Nat
           /\ port \in 1..Hub => OnPort \in Port
<1>1. ports \in [root : Seq(Port), hub : Seq(Port \ {"hub"})]
  BY DiskAssumption DEF DiskTypeOK
<1>2. ports.hub \in Seq(Port)
  BY <1>1 DEF Port
<1> QED
  BY <1>2 DEF Hub, OnPort, DiskTypeOK

(* The steps that send requests *)
LEMMA ControlAddresses ==
    ASSUME DiskTypeOK, EhciTypeOK, host = "ehci", AddressInv,
           ResetController \/ Connect \/ PortEnable
               \/ RequestRoot \/ RequestPort \/ RequestDevice
    PROVE  AddressInv'
<1>0. /\ Hub \in Nat /\ port \in Nat /\ port # 0
      /\ eaddr \in 0..1 + Hub /\ addrs \in [0..Hub -> 0..1 + Hub \union {Off}]
      /\ pc \in Control \union Bulk \union {"controller", "connect", "port_enable", "idle",
                                           "no_disk", "reset"}
      /\ Off = -1
  BY HubFacts DEF EhciTypeOK, AddressInv, Off
<1>1. ports' = ports /\ Hub' = Hub /\ IsHub' = IsHub
  BY DEF ResetController, Connect, PortEnable, RequestRoot, RequestPort, RequestDevice,
         Request, Hub, IsHub
<1>2. CASE ResetController \/ Connect
  BY <1>0, <1>1, <1>2 DEF ResetController, Connect, AddressInv, Addressed, Early, ToHub, ToNew,
         ToOwn, Plugged, Control, Bulk, OnPort
<1>3. CASE PortEnable
  BY <1>0, <1>1, <1>3 DEF PortEnable, AddressInv, Addressed, Early, ToHub, ToNew,
         ToOwn, Plugged, Control, Bulk, OnPort
<1>4. CASE RequestRoot
  <2>1. CASE pc = "set_addr"
    BY <1>0, <1>1, <1>4, <2>1 DEF RequestRoot, Request, Obey, AfterRoot, AddressInv, Addressed,
         Early, ToHub, ToNew, ToOwn, Plugged, Control, Bulk, OnPort, IsHub
  <2>2. CASE pc \in DOMAIN AfterRoot \union {"conf_desc"} /\ pc # "set_addr"
    <3>1. addrs' = addrs /\ eaddr' = eaddr
      BY <1>4, <2>2 DEF RequestRoot, Request, Obey, AfterRoot
    <3>2. pc \in Plugged /\ pc \notin Early \union ToNew \union ToOwn \union {"port_speed"}
          /\ eaddr = 1
      BY <2>2, <1>0 DEF AfterRoot, AddressInv, ToHub, Plugged, Early, ToNew, ToOwn, Control
    <3>3. \/ pc' \in {"dev_desc", "conf_desc", "hub_desc", "first_scan", "wake_clear", "scan",
                      "no_disk"}
          \/ pc' = "hub_conf" /\ IsHub
          \/ pc' = "dev_desc64" /\ ~IsHub
      BY <1>4, <2>2 DEF RequestRoot, AfterRoot, IsHub
    <3>4. pc' \in ToHub => IsHub
      BY <1>4, <2>2 DEF RequestRoot, AfterRoot, IsHub, AddressInv, ToHub
    <3>5. port' \in {1, port}
      BY <1>4 DEF RequestRoot
    <3> QED
      BY <1>0, <1>1, <3>1, <3>2, <3>3, <3>4, <3>5 DEF AddressInv, Addressed,
         Early, ToHub, ToNew, ToOwn, Plugged, Control, Bulk, OnPort
  <2> QED
    BY <1>4, <2>1, <2>2 DEF RequestRoot
<1>5. CASE RequestPort
  <2>0. pc \in {"first_scan", "scan", "port_clear", "port_reset", "port_speed"}
        /\ eaddr = 1 /\ IsHub /\ addrs[0] = 1 /\ \A d \in 1..Hub : Addressed(d)
    BY <1>5, <1>0 DEF RequestPort, ScanNext, AddressInv, ToHub, Plugged, Control
  <2>1. CASE pc \in {"first_scan", "scan", "port_clear"}
    <3>1. addrs' = addrs /\ eaddr' = eaddr
      BY <1>5, <2>1 DEF RequestPort, Request, Obey, ScanNext
    <3>2. \/ pc' \in {"first_scan", "scan", "no_disk", "wake_set"} /\ port' \in {port, port + 1}
          \/ pc' \in {"port_clear", "port_reset"} /\ port' = port /\ port <= Hub
      BY <1>5, <2>1, <1>0 DEF RequestPort, ScanNext, AddressInv
    <3> QED
      BY <1>0, <1>1, <2>0, <2>1, <3>1, <3>2 DEF AddressInv, Addressed,
         Early, ToHub, ToNew, ToOwn, Plugged, Control, Bulk, OnPort
  <2>2. CASE pc = "port_reset"
    <3>1. port \in 1..Hub /\ pc' = "port_speed" /\ port' = port /\ eaddr' = eaddr
          /\ OnPort' = OnPort
      BY <1>5, <1>0, <1>1, <2>2 DEF RequestPort, AddressInv, ScanNext, OnPort
    <3>2. addrs' = IF OnPort # "broken" THEN [addrs EXCEPT ![port] = 0] ELSE addrs
      BY <1>5, <2>2 DEF RequestPort, Request, Obey
    <3> QED
      <4>1. addrs[port] # 0
        BY <2>0, <2>2, <3>1 DEF Addressed, ToNew, ChildAddress, Off
      <4> QED
        BY <1>0, <1>1, <2>0, <2>2, <3>1, <3>2, <4>1 DEF AddressInv, Addressed,
           Early, ToHub, ToNew, ToOwn, Plugged, Control, Bulk
  <2>3. CASE pc = "port_speed" /\ OnPort = "broken"
    <3>1. pc' = "scan" /\ port' = port + 1 /\ eaddr' = 1 /\ addrs' = addrs
      BY <1>5, <2>3 DEF RequestPort, Request, Obey, ScanNext
    <3> QED
      BY <1>0, <1>1, <2>0, <2>3, <3>1 DEF AddressInv, Addressed,
         Early, ToHub, ToNew, ToOwn, Plugged, Control, Bulk, OnPort
  <2>4. CASE pc = "port_speed" /\ OnPort # "broken"
    <3>1. pc' = "dev_desc64" /\ port' = port /\ eaddr' = 0 /\ addrs' = addrs
      BY <1>5, <2>4 DEF RequestPort, Request, Obey, ScanNext
    <3> QED
      BY <1>0, <1>1, <2>0, <2>4, <3>1 DEF AddressInv, Addressed,
         Early, ToHub, ToNew, ToOwn, Plugged, Control, Bulk, OnPort
  <2> QED
    BY <2>0, <2>1, <2>2, <2>3, <2>4
<1>6. CASE RequestDevice
  <2>0. pc \in ToNew \union ToOwn /\ addrs[0] = 1 /\ \A d \in 1..Hub : Addressed(d)
    BY <1>6, <1>0 DEF RequestDevice, ScanNext, AddressInv, ToNew, ToOwn, AfterDevice, Plugged, Control
  <2>1. CASE pc = "child_addr"
    <3>1. /\ pc' = "dev_desc2" /\ port' = port /\ eaddr' = ChildAddress(port)
          /\ addrs' = [addrs EXCEPT ![port] = ChildAddress(port)]
      BY <1>6, <2>1 DEF RequestDevice, Request, Obey, AfterDevice, ScanNext
    <3>2. IsHub /\ port \in 1..Hub /\ ChildAddress(port) = 1 + port
      BY <1>0, <2>1 DEF AddressInv, ToNew, ChildAddress
    <3> QED
      BY <1>0, <1>1, <2>0, <2>1, <3>1, <3>2 DEF AddressInv, Addressed,
         Early, ToHub, ToNew, ToOwn, Plugged, Control, Bulk, OnPort
  <2>2. CASE pc # "child_addr"
    <3>1. addrs' = addrs
      BY <1>6, <2>0, <2>2 DEF RequestDevice, Request, Obey, ToNew, ToOwn
    <3>2. \/ /\ port' = port /\ eaddr' = eaddr
             /\ \/ pc = "dev_desc64" /\ IsHub /\ pc' = "child_addr"
                \/ pc = "dev_desc64" /\ ~IsHub /\ pc' = "dev_desc2"
                \/ pc \in ToOwn /\ pc' \in ToOwn \union {"ready"}
          \/ pc \in ToOwn /\ IsHub /\ pc' = "scan" /\ port' = port + 1 /\ eaddr' = 1
      BY <1>6, <2>0, <2>2 DEF RequestDevice, AfterDevice, ScanNext, ToOwn, ToNew
    <3>3. CASE port' = port /\ eaddr' = eaddr
      <4>1. CASE pc = "dev_desc64"
        <5>1. eaddr = IF IsHub THEN 0 ELSE 1
          BY <4>1 DEF AddressInv, ToNew
        <5>2. IsHub => port <= Hub /\ addrs[port] = 0
          BY <4>1, <5>1 DEF AddressInv, ToNew
        <5>3. pc' = IF IsHub THEN "child_addr" ELSE "dev_desc2"
          BY <3>2, <3>3, <4>1 DEF ToOwn
        <5>4. \A d \in 1..Hub : Addressed(d)'
          <6> SUFFICES ASSUME NEW d \in 1..Hub PROVE Addressed(d)'
            OBVIOUS
          <6>1. CASE IsHub
            BY <1>1, <2>0, <3>1, <3>3, <4>1, <5>3, <6>1 DEF Addressed, ToNew, ChildAddress
          <6>2. CASE ~IsHub
            BY <1>1, <2>0, <3>1, <3>3, <4>1, <5>3, <6>2 DEF Addressed, ToNew, ChildAddress
          <6> QED
            BY <6>1, <6>2
        <5> QED
          BY <1>0, <1>1, <2>0, <3>1, <3>3, <5>1, <5>2, <5>3, <5>4 DEF AddressInv,
             Early, ToHub, ToNew, ToOwn, Plugged, Control, Bulk
      <4>2. CASE pc \in ToOwn /\ pc' \in ToOwn \union {"ready"}
        BY <1>0, <1>1, <2>0, <3>1, <3>3, <4>2 DEF AddressInv, Addressed,
           Early, ToHub, ToNew, ToOwn, Plugged, Control, Bulk
      <4> QED
        BY <3>2, <3>3, <4>1, <4>2, <1>0 DEF AddressInv, ToOwn
    <3>4. CASE pc \in ToOwn /\ IsHub /\ pc' = "scan" /\ port' = port + 1 /\ eaddr' = 1
      BY <1>0, <1>1, <2>0, <3>1, <3>4 DEF AddressInv, Addressed,
         Early, ToHub, ToNew, ToOwn, Plugged, Control, Bulk
    <3> QED
      BY <3>2, <3>3, <3>4
  <2> QED
    BY <2>1, <2>2
<1> QED
  BY <1>2, <1>3, <1>4, <1>5, <1>6

(* A bulk transfer addresses nobody anew, and the hub is asked again. *)
BulkStep == \/ Build \/ (pc \in Bulk /\ (SendCBW \/ ReceiveData \/ ReceiveStatus))
            \/ (pc \in Bulk /\ StatusIsThere) \/ Return \/ Unplug \/ ReadSector
LEMMA BulkPlace ==
    ASSUME BulkStep
    PROVE  /\ UNCHANGED <<ports, port, eaddr, addrs>>
           /\ pc \in Bulk \union {"idle"} /\ pc' \in Bulk \union {"idle", "reset"}
<1>1. CASE Return
  BY <1>1 DEF Return, Bulk
<1>2. CASE ReadSector
  BY <1>2 DEF ReadSector, Bulk
<1>3. CASE Build \/ (pc \in Bulk /\ (SendCBW \/ ReceiveData \/ ReceiveStatus))
           \/ (pc \in Bulk /\ StatusIsThere) \/ Unplug
  BY <1>3 DEF Build, SendCBW, ReceiveData, ReceiveStatus, StatusIsThere, Unplug, Place
<1> QED
  BY <1>1, <1>2, <1>3 DEF BulkStep

LEMMA OtherAddresses ==
    ASSUME DiskTypeOK, EhciTypeOK, host = "ehci", AddressInv,
           BulkStep \/ GiveUp \/ NextPort
    PROVE  AddressInv'
<1>0. port \in Nat /\ port # 0
  BY HubFacts DEF AddressInv
<1>1. CASE BulkStep
  <2>1. UNCHANGED <<ports, port, eaddr, addrs>> /\ pc \in Plugged
        /\ pc' \in Bulk \union {"idle", "reset"}
    BY <1>1, BulkPlace DEF Plugged
  <2>2. IsHub' = IsHub /\ Hub' = Hub
    BY <2>1 DEF IsHub, Hub
  <2>3. pc \in Bulk \union {"idle"}
    BY <1>1, BulkPlace
  <2>4. addrs[0] = 1 /\ \A d \in 1..Hub : Addressed(d)'
    BY <2>1, <2>2, <2>3 DEF AddressInv, Addressed, ToNew, Bulk, ChildAddress
  <2> QED
    BY <1>0, <2>1, <2>2, <2>4 DEF AddressInv, Early, ToHub, ToNew, ToOwn, Plugged, Control, Bulk
<1>2. CASE GiveUp
  BY <1>0, <1>2 DEF GiveUp, AddressInv, Early, ToHub, ToNew, ToOwn, Plugged, Control, Bulk
<1>3. CASE NextPort
  <2>1. /\ pc = "idle" /\ pc' = "scan" /\ port' = port + 1 /\ eaddr' = 1 /\ IsHub
        /\ ports' = ports /\ addrs' = addrs
    BY <1>3 DEF NextPort
  <2>2. IsHub' = IsHub /\ Hub' = Hub
    BY <2>1 DEF IsHub, Hub
  <2>3. addrs[0] = 1 /\ \A d \in 1..Hub : Addressed(d)'
    BY <2>1, <2>2 DEF AddressInv, Addressed, ToNew, Bulk, ChildAddress, Plugged
  <2> QED
    BY <1>0, <2>1, <2>2, <2>3 DEF AddressInv, Early, ToHub, ToNew, ToOwn, Plugged, Control, Bulk
<1> QED
  BY <1>1, <1>2, <1>3

LEMMA AddressesAreKept ==
    ASSUME DiskTypeOK, EhciTypeOK, host = "ehci", AddressInv, EhciNext
    PROVE  AddressInv'
BY ControlAddresses, OtherAddresses DEF EhciNext, EhciDriver, BulkStep

(* Every request has one receiver: the hub at address 1, the device that was
   just reset at 0, or the one that is being configured. *)
LEMMA AddressIsUnique ==
    ASSUME DiskTypeOK, EhciTypeOK, host = "ehci", AddressInv, pc \in Control
    PROVE  Cardinality({d \in DOMAIN addrs : addrs[d] = eaddr}) = 1
<1>0. /\ Hub \in Nat /\ port \in Nat /\ port # 0
      /\ eaddr \in 0..1 + Hub /\ addrs \in [0..Hub -> 0..1 + Hub \union {Off}]
      /\ Off = -1
  BY HubFacts DEF EhciTypeOK, AddressInv, Off
<1>1. \E x \in 0..Hub : \A d \in 0..Hub : addrs[d] = eaddr <=> d = x
  <2>1. CASE pc = "set_addr"
    <3>1. \A d \in 0..Hub : addrs[d] = eaddr <=> d = 0
      BY <1>0, <2>1 DEF AddressInv, Early
    <3> QED
      BY <1>0, <3>1, SMTT(30)
  <2>2. CASE pc \in {"dev_desc8", "dev_desc", "conf_desc"} \union ToHub
    <3>1. eaddr = 1 /\ addrs[0] = 1 /\ \A d \in 1..Hub : Addressed(d)
      BY <2>2 DEF AddressInv, Plugged, Control, ToHub
    <3>2. \A d \in 0..Hub : addrs[d] = eaddr <=> d = 0
      BY <1>0, <3>1 DEF Addressed, ChildAddress
    <3> QED
      BY <1>0, <3>2, SMTT(30)
  <2>3. CASE pc \in ToNew \union ToOwn
    <3>1. addrs[0] = 1 /\ \A d \in 1..Hub : Addressed(d)
      BY <2>3 DEF AddressInv, Plugged, Control, ToNew, ToOwn
    <3>2. CASE ~IsHub
      <4>1. eaddr = 1
        BY <2>3, <3>2 DEF AddressInv
      <4>2. \A d \in 0..Hub : addrs[d] = eaddr <=> d = 0
        BY <1>0, <3>1, <4>1 DEF Addressed, ChildAddress
      <4> QED
        BY <1>0, <4>2, SMTT(30)
    <3>3. CASE IsHub
      <4>1. port \in 1..Hub /\ addrs[port] = eaddr
            /\ eaddr = IF pc \in ToNew THEN 0 ELSE 1 + port
        BY <1>0, <2>3, <3>3 DEF AddressInv, ChildAddress
      <4>2. \A d \in 0..Hub : addrs[d] = eaddr <=> d = port
        BY <1>0, <2>3, <3>1, <4>1 DEF Addressed, ChildAddress, ToNew, ToOwn
      <4> QED
        BY <4>1, <4>2
    <3> QED
      BY <3>2, <3>3
  <2> QED
    BY <2>1, <2>2, <2>3 DEF Control, ToHub, ToNew, ToOwn
<1>2. PICK x \in 0..Hub : \A d \in 0..Hub : addrs[d] = eaddr <=> d = x
  BY <1>1
<1>3. {d \in DOMAIN addrs : addrs[d] = eaddr} = {x}
  BY <1>0, <1>2
<1> QED
  BY <1>3, FS_Singleton

-----------------------------------------------------------------------------
(* EHCI: transfers *)

(* Both sides turn a toggle alike when the packets of a transfer are odd in
   number: one, or eight sectors and the status block. *)
Toggles == [{"driver", "disk"} -> [{"in", "out"} -> 0..1]]
LEMMA Parity ==
    ASSUME NEW a \in 0..1
    PROVE  /\ \A n \in Nat : (a + n) % 2 \in 0..1
           /\ (a + 1) % 2 = 1 - a /\ (a + 9) % 2 = 1 - a
OBVIOUS
LEMMA Turned ==
    ASSUME toggle \in Toggles, NEW e \in {"in", "out"}, NEW n \in Nat, Turn(e, n)
    PROVE  /\ toggle' \in Toggles
           /\ n \in {1, 9} => (InStep(e)' <=> InStep(e))
           /\ \A o \in {"in", "out"} \ {e} : InStep(o)' <=> InStep(o)
<1> DEFINE drv == toggle["driver"]
           dsk == toggle["disk"]
<1>1. drv[e] \in 0..1 /\ dsk[e] \in 0..1
  BY DEF Toggles
<1>2. /\ \A k \in Nat : (dsk[e] + k) % 2 \in 0..1
      /\ (dsk[e] + 1) % 2 = 1 - dsk[e] /\ (dsk[e] + 9) % 2 = 1 - dsk[e]
  BY <1>1, Parity
<1>3. /\ toggle'["driver"] = [drv EXCEPT ![e] = 1 - drv[e]]
      /\ toggle'["disk"] = [dsk EXCEPT ![e] = (dsk[e] + n) % 2]
      /\ DOMAIN toggle' = {"driver", "disk"}
      /\ toggle' = [s \in {"driver", "disk"} |-> toggle'[s]]
  BY DEF Turn, Toggles
<1>4. /\ toggle'["driver"] \in [{"in", "out"} -> 0..1]
      /\ toggle'["disk"] \in [{"in", "out"} -> 0..1]
  <2>1. 1 - drv[e] \in 0..1 /\ (dsk[e] + n) % 2 \in 0..1
    BY <1>1, <1>2
  <2>2. drv \in [{"in", "out"} -> 0..1] /\ dsk \in [{"in", "out"} -> 0..1]
    BY DEF Toggles
  <2>3. \A f \in [{"in", "out"} -> 0..1], v \in 0..1 :
            [f EXCEPT ![e] = v] \in [{"in", "out"} -> 0..1]
    OBVIOUS
  <2> HIDE DEF drv, dsk
  <2> QED
    BY <1>3, <2>1, <2>2, <2>3
<1>5. toggle' \in Toggles
  BY <1>3, <1>4 DEF Toggles
<1>6. /\ toggle'["driver"][e] = 1 - drv[e] /\ toggle'["disk"][e] = (dsk[e] + n) % 2
      /\ \A o \in {"in", "out"} \ {e} :
            toggle'["driver"][o] = drv[o] /\ toggle'["disk"][o] = dsk[o]
  BY <1>3 DEF Toggles
<1> HIDE DEF drv, dsk
<1>7. n \in {1, 9} => (InStep(e)' <=> InStep(e))
  <2>1. SUFFICES ASSUME n \in {1, 9} PROVE InStep(e)' <=> InStep(e)
    OBVIOUS
  <2>2. toggle'["disk"][e] = 1 - dsk[e]
    BY <1>2, <1>6, <2>1
  <2>3. (1 - drv[e] = 1 - dsk[e]) <=> drv[e] = dsk[e]
    BY <1>1
  <2> QED
    BY <1>6, <2>2, <2>3 DEF InStep, drv, dsk
<1> QED
  BY <1>5, <1>6, <1>7 DEF InStep, drv, dsk

(* Where a transfer is; test unit ready has attempts left. *)
TxInv ==
    /\ tx \in {"-", "cbw", "data", "csw"}
    /\ pc \notin Bulk \union {"reset"} => tx = "-" /\ result = "none"
    /\ tx # "-" => result = "none"
    /\ pc \in {"ready", "sense"} => tries < TestTries

(* The toggles go out of step with a short transfer, at "in"; a disk that takes
   commands is in step.  One that sent all it was asked for and does not hang
   takes commands between transfers, and also when only its status block, which
   came with the data, has still to be looked at. *)
Steady == ~disk.short /\ disk.phase # "silent"
StepInv ==
    /\ pc \in Control \union Early => toggle["driver"] = [e \in {"in", "out"} |-> 0]
    /\ pc \in Bulk \union {"idle"} =>
          /\ InStep("out")
          /\ disk.phase = "cbw" => InStep("in")
          /\ Steady /\ (tx \in {"-", "cbw"} \/ (tx = "csw" /\ Behind)) => disk.phase = "cbw"

(* The data of the command that is being executed *)
AllThere == dest.no = cmd.no /\ (dest.part = "all" \/ disk.short)
ReadInv ==
    /\ cmd.len \in {0, 1, 8} /\ (cmd.len > 1 => cmd.kind = "read")
    /\ pc \in Bulk /\ tx \in {"cbw", "data"} => mem = CBW(cmd)
    /\ pc = "read" /\ tx # "-" => cmd.kind = "read" /\ cmd.len > 0
    /\ tx = "data" /\ disk.phase = "data" => disk.no = cmd.no
    /\ pc = "read" /\ (tx = "csw" \/ result = "good") => AllThere

EhciTypes == DiskTypeOK /\ EhciTypeOK
EhciInv == AddressInv /\ TxInv /\ StepInv /\ ReadInv

(* A step of the driver that sends a request *)
RequestStep == ResetController \/ Connect \/ PortEnable
                   \/ RequestRoot \/ RequestPort \/ RequestDevice
LEMMA RequestEffect ==
    ASSUME host = "ehci", EhciTypes, TxInv, RequestStep
    PROVE  /\ UNCHANGED <<ports, faults, mem, dest, cmd, reads, behind, tx, result>>
           /\ pc \in Control \union Early
           /\ pc' \in Control \union Early \union {"no_disk", "ready"}
           /\ pc' = "ready" <=> pc = "set_conf"
           /\ tx = "-" /\ result = "none"
           /\ tries' = IF pc = "set_conf" THEN 0 ELSE tries
           /\ disk' = IF pc = "set_conf" THEN Fresh ELSE disk
           /\ toggle' = IF pc = "set_conf"
                        THEN [toggle EXCEPT !["disk"] = [e \in {"in", "out"} |-> 0]] ELSE toggle
           /\ port' \in {1, port, port + 1}
<1>1. CASE ResetController \/ Connect \/ PortEnable
  BY <1>1 DEF ResetController, Connect, PortEnable, transport, Works, TxInv, Early, Control, Bulk
<1>2. CASE RequestRoot
  BY <1>2 DEF RequestRoot, Request, Obey, Works, TxInv, AfterRoot, Early, Control, Bulk
<1>3. CASE RequestPort
  BY <1>3 DEF RequestPort, ScanNext, Request, Obey, Works, TxInv, Early, Control, Bulk
<1>4. CASE RequestDevice
  BY <1>4 DEF RequestDevice, ScanNext, AfterDevice, Request, Obey, Works, TxInv, Early, Control, Bulk
<1> QED
  BY <1>1, <1>2, <1>3, <1>4 DEF RequestStep

LEMMA RequestTypes ==
    ASSUME host = "ehci", EhciTypes, AddressInv, TxInv, RequestStep, host' = host
    PROVE  EhciTypes'
<1>0. /\ Hub \in Nat /\ port \in Nat
      /\ eaddr \in 0..1 + Hub /\ addrs \in [0..Hub -> 0..1 + Hub \union {Off}]
  BY HubFacts DEF EhciTypeOK, EhciTypes
<1>1. ports' = ports /\ Hub' = Hub
  BY RequestEffect DEF Hub
<1>2. eaddr' \in 0..1 + Hub /\ addrs' \in [0..Hub -> 0..1 + Hub \union {Off}]
  <2>1. CASE ResetController \/ Connect \/ PortEnable
    BY <1>0, <2>1 DEF ResetController, Connect, PortEnable
  <2>2. CASE RequestRoot
    BY <1>0, <2>2 DEF RequestRoot, Request, Obey, AfterRoot
  <2>3. CASE RequestPort
    <3>1. eaddr' \in {eaddr, 0, 1}
      BY <2>3 DEF RequestPort, ScanNext
    <3>2. addrs' = addrs \/ addrs' = [addrs EXCEPT ![port] = 0]
      BY <2>3 DEF RequestPort, Request, Obey, ScanNext
    <3> QED
      BY <1>0, <3>1, <3>2
  <2>4. CASE RequestDevice
    <3>1. eaddr' = (IF pc = "child_addr" THEN ChildAddress(port) ELSE eaddr) \/ eaddr' = 1
      BY <2>4 DEF RequestDevice, ScanNext
    <3>2. addrs' = IF pc = "child_addr" THEN [addrs EXCEPT ![port] = ChildAddress(port)] ELSE addrs
      BY <2>4 DEF RequestDevice, Request, Obey, ScanNext, AfterDevice
    <3>3. pc = "child_addr" => ChildAddress(port) \in 0..1 + Hub
      BY <1>0 DEF AddressInv, ToHub, ToNew, ChildAddress
    <3>4. CASE pc = "child_addr"
      <4> DEFINE c == ChildAddress(port)
      <4>1. c \in 0..1 + Hub /\ addrs' = [addrs EXCEPT ![port] = c] /\ eaddr' \in {c, 1}
        BY <3>1, <3>2, <3>3, <3>4
      <4> HIDE DEF c
      <4>2. eaddr' \in 0..1 + Hub
        BY <1>0, <4>1
      <4>3. addrs' \in [0..Hub -> 0..1 + Hub \union {Off}]
        <5> DEFINE R == 0..1 + Hub \union {Off}
        <5>1. addrs \in [0..Hub -> R] /\ c \in R
          BY <1>0, <4>1
        <5> HIDE DEF R
        <5>2. addrs' \in [0..Hub -> R]
          BY <4>1, <5>1
        <5> QED
          BY <5>2 DEF R
      <4> QED
        BY <4>2, <4>3
    <3>5. CASE pc # "child_addr"
      BY <1>0, <3>1, <3>2, <3>5
    <3> QED
      BY <3>4, <3>5
  <2> QED
    BY <2>1, <2>2, <2>3, <2>4 DEF RequestStep
<1>3. toggle' \in Toggles
  BY RequestEffect DEF EhciTypes, EhciTypeOK, Toggles
<1>4. EhciTypeOK'
  <2>1. behind' = behind /\ behind \in {"zero", "old", "csw"}
    BY RequestEffect DEF EhciTypes, EhciTypeOK
  <2>2. pc' \in Control \union Bulk \union {"controller", "connect", "port_enable", "idle",
                                           "no_disk", "reset"}
    BY RequestEffect DEF Early, Bulk
  <2> QED
    BY <1>1, <1>2, <1>3, <2>1, <2>2 DEF EhciTypeOK, Toggles
<1>5. disk' \in Disk /\ tries' \in 0..TestTries /\ port' \in Nat
  <2>1. disk' \in {disk, Fresh} /\ disk \in Disk /\ Fresh \in Disk
    BY RequestEffect DEF EhciTypes, DiskTypeOK, Disk, Fresh
  <2>2. tries' \in {tries, 0} /\ tries \in 0..TestTries /\ TestTries \in Nat
    BY RequestEffect, DiskAssumption DEF EhciTypes, DiskTypeOK
  <2>3. port' \in {1, port, port + 1}
    BY RequestEffect
  <2> QED
    BY <1>0, <2>1, <2>2, <2>3
<1>6. DiskTypeOK'
  BY <1>5, RequestEffect DEF EhciTypes, DiskTypeOK
<1> QED
  BY <1>4, <1>6 DEF EhciTypes

LEMMA RequestKeeps ==
    ASSUME host = "ehci", EhciTypes, EhciInv, RequestStep
    PROVE  TxInv' /\ StepInv' /\ ReadInv'
<1>0. TxInv
  BY DEF EhciInv
<1>1. TxInv'
  BY <1>0, RequestEffect, DiskAssumption DEF TxInv, Early, Control, Bulk
<1>2. StepInv'
  <2>0. toggle \in Toggles /\ toggle["driver"] = [e \in {"in", "out"} |-> 0]
    BY <1>0, RequestEffect DEF EhciTypes, EhciTypeOK, EhciInv, StepInv, Toggles
  <2>1. CASE pc = "set_conf"
    <3>1. /\ toggle' = [toggle EXCEPT !["disk"] = [e \in {"in", "out"} |-> 0]]
          /\ pc' = "ready" /\ disk' = Fresh
      BY <1>0, <2>1, RequestEffect
    <3>2. InStep("in")' /\ InStep("out")'
      BY <2>0, <3>1 DEF InStep, Toggles
    <3> QED
      BY <3>1, <3>2 DEF StepInv, Control, Early, Fresh
  <2>2. CASE pc # "set_conf"
    <3>1. toggle' = toggle /\ pc' \notin Bulk \union {"idle"}
      BY <2>2, <1>0, RequestEffect DEF Control, Early, Bulk
    <3> QED
      BY <2>0, <3>1 DEF StepInv
  <2> QED
    BY <2>1, <2>2
<1>3. ReadInv'
  BY <1>0, RequestEffect DEF EhciInv, ReadInv, AllThere, Early, Control, Bulk
<1> QED
  BY <1>1, <1>2, <1>3

(* A step of a bulk transfer *)
LEMMA BulkTypes ==
    ASSUME host = "ehci", EhciTypes, TxInv, BulkStep, host' = host
    PROVE  EhciTypes'
<1>0. /\ disk \in Disk /\ mem \in Block /\ cmd \in Command /\ faults \in 0..MaxFaults
      /\ toggle \in Toggles /\ tries \in 0..TestTries /\ TestTries \in Nat
      /\ MaxFaults \in Nat /\ MaxReads \in Nat /\ reads \in 0..MaxReads
      /\ cmd.len \in Nat /\ disk.no \in Nat /\ cmd.no \in Nat
  BY DiskAssumption DEF EhciTypes, DiskTypeOK, EhciTypeOK, Toggles, Command, Disk
<1>1. EhciTypeOK' /\ ports' = ports /\ port' = port
  <2>1. toggle' \in Toggles /\ behind' \in {"zero", "old", "csw"}
    <3>1. CASE SendCBW
      BY <1>0, <3>1, Turned DEF SendCBW, EhciTypes, EhciTypeOK
    <3>2. CASE ReceiveData
      <4>1. \E n \in Nat : Turn("in", n)
        <5>1. Turn("in", cmd.len) \/ Turn("in", cmd.len + 1) \/ \E n \in 1..cmd.len : Turn("in", n)
          BY <3>2 DEF ReceiveData
        <5> QED
          BY <1>0, <5>1
      <4> QED
        BY <1>0, <3>2, <4>1, Turned DEF ReceiveData, EhciTypes, EhciTypeOK
    <3>3. CASE ReceiveStatus
      BY <1>0, <3>3, Turned DEF ReceiveStatus, EhciTypes, EhciTypeOK
    <3>4. CASE Build \/ StatusIsThere \/ Return \/ Unplug \/ ReadSector
      BY <1>0, <3>4 DEF Build, StatusIsThere, Return, Unplug, ReadSector, EhciTypes, EhciTypeOK
    <3> QED
      BY <3>1, <3>2, <3>3, <3>4 DEF BulkStep
  <2>2. Hub' = Hub
    BY BulkPlace DEF Hub
  <2> QED
    BY <2>1, <2>2, BulkPlace DEF EhciTypes, EhciTypeOK, Toggles
<1>2. faults' \in 0..MaxFaults
  <2>1. Works \/ Fault
    BY DEF BulkStep, Build, SendCBW, ReceiveData, ReceiveStatus, StatusIsThere, Return,
              Unplug, ReadSector
  <2> QED
    BY <1>0, <2>1 DEF Works, Fault
<1>3. disk' \in Disk
  <2>1. CASE SendCBW
    BY <1>0, <2>1 DEF SendCBW, TakeCBW, Disk, Block
  <2>2. CASE ReceiveData
    BY <1>0, <2>2 DEF ReceiveData, DataSent, Disk
  <2>3. CASE ReceiveStatus \/ Unplug
    BY <1>0, <2>3 DEF ReceiveStatus, Unplug, Disk
  <2>4. CASE Build \/ StatusIsThere \/ Return \/ ReadSector
    BY <1>0, <2>4 DEF Build, StatusIsThere, Return, ReadSector
  <2> QED
    BY <2>1, <2>2, <2>3, <2>4 DEF BulkStep
<1>4. mem' \in Block /\ cmd' \in Command
  <2>1. CASE Build
    <3>1. PICK k \in {"ready", "sense", "read"}, s \in {1, 8} : NewCommand(k, Number, s)
      BY <2>1, DiskAssumption DEF Build, Bulk
    <3>2. Packets(k, s) \in Nat /\ Number \in Nat
      BY <1>0 DEF Packets, Number
    <3> QED
      BY <1>0, <3>1, <3>2 DEF NewCommand, CBW, Command, Kind, Block
  <2>2. CASE SendCBW \/ ReceiveData \/ ReceiveStatus
    <3>1. cmd' = cmd
      BY <2>2 DEF SendCBW, ReceiveData, ReceiveStatus
    <3>2. \/ mem' \in {mem, [Zero EXCEPT !.is = "sense"]}
          \/ \E ok \in BOOLEAN : mem' = CSW(disk.no, ok)
      BY <2>2 DEF SendCBW, ReceiveData, ReceiveStatus, Status
    <3>3. [Zero EXCEPT !.is = "sense"] \in Block
      BY DEF Zero, Block
    <3>4. \A ok \in BOOLEAN : CSW(disk.no, ok) \in Block
      BY <1>0 DEF CSW, Block
    <3> QED
      BY <1>0, <3>1, <3>2, <3>3, <3>4
  <2>3. CASE StatusIsThere \/ Return \/ ReadSector \/ Unplug
    BY <1>0, <2>3 DEF StatusIsThere, Return, ReadSector, Unplug
  <2> QED
    BY <2>1, <2>2, <2>3 DEF BulkStep
<1>5. dest' \in [no : Nat, part : {"old", "some", "all"}]
  <2>0. dest \in [no : Nat, part : {"old", "some", "all"}]
    BY DEF EhciTypes, DiskTypeOK
  <2>1. CASE Build \/ ReceiveData
    BY <1>0, <2>0, <2>1 DEF Build, ReceiveData, DataSent
  <2>2. CASE SendCBW \/ ReceiveStatus \/ StatusIsThere \/ Return \/ ReadSector \/ Unplug
    BY <2>0, <2>2 DEF SendCBW, ReceiveStatus, StatusIsThere, Return, ReadSector, Unplug
  <2> QED
    BY <2>1, <2>2 DEF BulkStep
<1>6. tries' \in 0..TestTries /\ result' \in {"none", "good", "bad"} /\ reads' \in 0..MaxReads
  <2>0. result \in {"none", "good", "bad"}
    BY DEF EhciTypes, DiskTypeOK
  <2>1. CASE Return
    BY <1>0, <2>0, <2>1 DEF Return, TxInv
  <2>2. CASE ReadSector
    BY <1>0, <2>0, <2>2 DEF ReadSector
  <2>3. CASE Build \/ SendCBW \/ ReceiveData \/ ReceiveStatus \/ StatusIsThere \/ Unplug
    BY <1>0, <2>0, <2>3 DEF Build, SendCBW, ReceiveData, ReceiveStatus, StatusIsThere, Unplug, Place
  <2> QED
    BY <2>1, <2>2, <2>3 DEF BulkStep
<1> QED
  BY <1>1, <1>2, <1>3, <1>4, <1>5, <1>6 DEF EhciTypes, DiskTypeOK

LEMMA BulkKeepsTx ==
    ASSUME host = "ehci", EhciTypes, EhciInv, BulkStep
    PROVE  TxInv'
<1>0. TxInv /\ tries \in 0..TestTries /\ TestTries \in Nat
  BY DiskAssumption DEF EhciInv, EhciTypes, DiskTypeOK
<1>1. CASE Build \/ SendCBW \/ ReceiveData \/ ReceiveStatus \/ StatusIsThere \/ Unplug
  <2>1. pc' = pc /\ tries' = tries /\ pc \in Bulk \union {"idle"}
    BY <1>1, BulkPlace DEF Build, SendCBW, ReceiveData, ReceiveStatus, StatusIsThere, Unplug, Place
  <2>2. tx' \in {"-", "cbw", "data", "csw"} /\ (tx' # "-" => result' = "none")
    BY <1>0, <1>1 DEF TxInv, Build, SendCBW, ReceiveData, ReceiveStatus, StatusIsThere, Unplug
  <2>3. pc = "idle" => tx' = "-" /\ result' = "none"
    BY <1>0, <1>1, <2>1 DEF BulkStep, TxInv, Bulk, Build, Unplug, SendCBW, ReceiveData,
       ReceiveStatus, StatusIsThere
  <2> QED
    BY <1>0, <2>1, <2>2, <2>3 DEF TxInv
<1>2. CASE Return
  BY <1>0, <1>2 DEF Return, TxInv, Bulk
<1>3. CASE ReadSector
  BY <1>0, <1>3 DEF ReadSector, TxInv, Bulk
<1> QED
  BY <1>1, <1>2, <1>3 DEF BulkStep

LEMMA BulkKeepsStep ==
    ASSUME host = "ehci", EhciTypes, EhciInv, BulkStep
    PROVE  StepInv'
<1>0. /\ toggle \in Toggles /\ disk \in Disk /\ cmd.len \in {0, 1, 8}
      /\ pc \in Bulk \union {"idle"} /\ InStep("out")
      /\ disk.phase = "cbw" => InStep("in")
      /\ Steady /\ (tx \in {"-", "cbw"} \/ (tx = "csw" /\ Behind)) => disk.phase = "cbw"
  BY BulkPlace DEF EhciInv, EhciTypes, DiskTypeOK, EhciTypeOK, Toggles, StepInv, ReadInv
<1>1. pc' \notin Control \union Early
  BY BulkPlace DEF Bulk, Control, Early
<1>2. CASE SendCBW
  <2>1. mem = CBW(cmd) /\ disk.phase = "cbw" /\ Turn("out", 1) /\ mem' = mem
    BY <1>2, BulkPlace DEF SendCBW, EhciInv, ReadInv, TxInv, BulkStep, Bulk
  <2>2. InStep("in")' /\ InStep("out")'
    BY <1>0, <2>1, Turned
  <2>3. tx' = "data" \/ (tx' = "csw" /\ ~Behind')
    BY <1>0, <1>2, <2>1 DEF SendCBW, CBW, Behind
  <2> QED
    BY <1>1, <2>2, <2>3 DEF StepInv
<1>3. CASE ReceiveData
  <2>0. /\ pc \in Bulk /\ tx = "data" /\ tx' = "csw" /\ mem = CBW(cmd) /\ mem.len = cmd.len
        /\ InStep("in") /\ cmd' = cmd
    BY <1>0, <1>3, BulkPlace DEF ReceiveData, EhciInv, ReadInv, TxInv, CBW
  <2>1. CASE DataSent(FALSE) /\ Turn("in", cmd.len) /\ ~CswWithData(cmd.len)
             /\ mem' \in {mem, [Zero EXCEPT !.is = "sense"]}
    <3>1. ~Behind' /\ disk'.phase = "csw"
      BY <1>0, <2>0, <2>1 DEF Behind, CswWithData, Zero, DataSent, Disk
    <3>2. InStep("out")'
      BY <1>0, <2>1, Turned
    <3> QED
      BY <1>1, <2>0, <3>1, <3>2 DEF StepInv
  <2>2. CASE CswWithData(cmd.len) /\ Turn("in", cmd.len + 1)
             /\ disk' = [disk EXCEPT !.phase = "cbw"]
    <3>1. cmd.len + 1 = 9
      BY <1>0, <2>2 DEF CswWithData
    <3>2. InStep("in")' /\ InStep("out")'
      BY <1>0, <2>0, <2>2, <3>1, Turned
    <3>3. disk'.phase = "cbw"
      BY <1>0, <2>2 DEF Disk
    <3> QED
      BY <1>1, <3>2, <3>3 DEF StepInv
  <2>3. CASE DataSent(TRUE) /\ \E n \in 1..cmd.len : Turn("in", n)
    <3>1. disk'.phase = "csw" /\ disk'.short
      BY <1>0, <2>3 DEF DataSent, Disk
    <3>2. InStep("out")'
      BY <1>0, <2>3, Turned
    <3> QED
      BY <1>1, <3>1, <3>2 DEF StepInv, Steady
  <2> QED
    BY <1>3, <2>1, <2>2, <2>3 DEF ReceiveData
<1>4. CASE ReceiveStatus
  <2>1. Turn("in", 1) /\ InStep("in") /\ disk'.phase = "cbw"
    BY <1>0, <1>4 DEF ReceiveStatus, Disk
  <2>2. InStep("in")' /\ InStep("out")'
    BY <1>0, <2>1, Turned
  <2> QED
    BY <1>1, <2>1, <2>2 DEF StepInv
<1>5. CASE Unplug
  <2>1. toggle' = toggle /\ disk'.phase = "silent"
    BY <1>0, <1>5 DEF Unplug, Disk
  <2> QED
    BY <1>0, <1>1, <2>1 DEF StepInv, InStep, Steady
<1>6. CASE Build \/ StatusIsThere \/ Return \/ ReadSector
  <2>1. /\ toggle' = toggle /\ disk' = disk /\ tx' \in {"-", "cbw"}
        /\ tx = "-" \/ (tx = "csw" /\ Behind)
    BY <1>6, BulkPlace DEF Build, StatusIsThere, Return, ReadSector, EhciInv, TxInv, Bulk
  <2> QED
    BY <1>0, <1>1, <2>1 DEF StepInv, InStep, Steady
<1> QED
  BY <1>2, <1>3, <1>4, <1>5, <1>6 DEF BulkStep

LEMMA BulkKeepsRead ==
    ASSUME host = "ehci", EhciTypes, EhciInv, BulkStep
    PROVE  ReadInv'
<1>0. /\ disk \in Disk /\ ReadInv /\ TxInv /\ cmd.no \in Nat
      /\ pc \in Bulk \union {"idle"} /\ Sectors \subseteq {1, 8}
  BY BulkPlace, DiskAssumption DEF EhciInv, EhciTypes, DiskTypeOK, Command
<1>1. CASE Build
  <2>1. PICK s \in {1, 8} : NewCommand(IF pc = "read_sense" THEN "sense" ELSE pc, Number, s)
    BY <1>0, <1>1 DEF Build
  <2>2. /\ pc' = pc /\ pc \in Bulk /\ tx' = "cbw" /\ result' = "none"
        /\ mem' = CBW(cmd') /\ cmd'.kind = (IF pc = "read_sense" THEN "sense" ELSE pc)
        /\ cmd'.len = Packets(IF pc = "read_sense" THEN "sense" ELSE pc, s)
    BY <1>1, <2>1 DEF Build, NewCommand, Place
  <2> QED
    BY <2>2 DEF ReadInv, Packets, Bulk
<1>2. CASE SendCBW
  <2>1. /\ mem = CBW(cmd) /\ mem' = mem /\ cmd' = cmd /\ pc' = pc /\ pc \in Bulk /\ dest' = dest
        /\ result' = "none" /\ tx' = (IF cmd.len > 0 THEN "data" ELSE "csw") /\ tx = "cbw"
    BY <1>0, <1>2, BulkPlace DEF SendCBW, ReadInv, TxInv, BulkStep, Bulk, Place
  <2>2. disk'.no = cmd.no
    BY <1>2, <2>1 DEF SendCBW, TakeCBW, CBW
  <2> QED
    BY <1>0, <2>1, <2>2 DEF ReadInv
<1>3. CASE ReceiveData
  <2>1. /\ cmd' = cmd /\ pc' = pc /\ pc \in Bulk /\ tx = "data" /\ tx' = "csw" /\ result' = result
        /\ disk.phase = "data" /\ disk.no = cmd.no /\ result = "none"
    BY <1>0, <1>3 DEF ReceiveData, ReadInv, TxInv, Place
  <2>2. pc = "read" => AllThere'
    <3>1. SUFFICES ASSUME pc = "read" PROVE AllThere'
      OBVIOUS
    <3>2. cmd.kind = "read"
      BY <1>0, <2>1, <3>1 DEF ReadInv
    <3>3. CASE DataSent(FALSE) \/ dest' = [no |-> disk.no, part |-> "all"]
      BY <2>1, <3>2, <3>3 DEF DataSent, AllThere
    <3>4. CASE DataSent(TRUE)
      <4>1. disk'.short /\ dest'.no = disk.no
        BY <1>0, <3>2, <3>4 DEF DataSent, Disk
      <4> QED
        BY <2>1, <4>1 DEF AllThere
    <3> QED
      BY <1>3, <3>3, <3>4 DEF ReceiveData
  <2> QED
    BY <1>0, <2>1, <2>2 DEF ReadInv
<1>4. CASE ReceiveStatus \/ StatusIsThere
  <2>1. /\ cmd' = cmd /\ pc' = pc /\ tx = "csw" /\ tx' = "-" /\ dest' = dest
        /\ disk'.short = disk.short
    BY <1>0, <1>4 DEF ReceiveStatus, StatusIsThere, Place, Disk
  <2> QED
    BY <1>0, <2>1 DEF ReadInv, AllThere
<1>5. CASE Return \/ ReadSector
  <2>1. cmd' = cmd /\ tx' = "-" /\ result' = "none"
    BY <1>0, <1>5 DEF Return, ReadSector, TxInv, Bulk
  <2> QED
    BY <1>0, <2>1 DEF ReadInv
<1>6. CASE Unplug
  <2>1. /\ UNCHANGED <<cmd, pc, tx, result, mem, dest>>
        /\ disk'.short = disk.short /\ disk'.phase = "silent"
    BY <1>0, <1>6 DEF Unplug, Place, Disk
  <2> QED
    BY <1>0, <2>1 DEF ReadInv, AllThere
<1> QED
  BY <1>1, <1>2, <1>3, <1>4, <1>5, <1>6 DEF BulkStep

(* The driver gives up, or turns to the next port of the hub. *)
LEMMA OthersKeep ==
    ASSUME host = "ehci", EhciTypes, EhciInv, GiveUp \/ NextPort, host' = host
    PROVE  EhciTypes' /\ TxInv' /\ StepInv' /\ ReadInv'
<1>0. /\ toggle \in Toggles /\ port \in Nat /\ faults \in 0..MaxFaults /\ MaxFaults \in Nat
      /\ TxInv /\ ReadInv /\ Hub \in Nat
  BY HubFacts, DiskAssumption DEF EhciInv, EhciTypes, DiskTypeOK, EhciTypeOK, Toggles
<1>1. CASE GiveUp
  <2>1. /\ UNCHANGED <<ports, port, eaddr, addrs, disk, mem, dest, cmd, reads, toggle, behind,
                       tx, tries, result>>
        /\ pc' = "reset"
    BY <1>1 DEF GiveUp, transport
  <2>2. faults' \in 0..MaxFaults
    BY <1>0, <1>1 DEF GiveUp, Fault, Works
  <2>3. TxInv' /\ ReadInv'
    BY <1>0, <2>1 DEF TxInv, ReadInv, AllThere, Bulk
  <2>4. StepInv'
    BY <2>1 DEF StepInv, Control, Early, Bulk
  <2> QED
    BY <2>1, <2>2, <2>3, <2>4 DEF EhciTypes, DiskTypeOK, EhciTypeOK, Hub
<1>2. CASE NextPort
  <2>1. /\ UNCHANGED <<ports, addrs, disk, mem, dest, cmd, reads, behind, tx, tries, result>>
        /\ pc = "idle" /\ pc' = "scan" /\ port' = port + 1 /\ eaddr' = 1 /\ faults' = faults
        /\ toggle' = [toggle EXCEPT !["driver"] = [e \in {"in", "out"} |-> 0]]
    BY <1>2 DEF NextPort, Works
  <2>2. toggle' \in Toggles /\ toggle'["driver"] = [e \in {"in", "out"} |-> 0]
    BY <1>0, <2>1 DEF Toggles
  <2>3. TxInv' /\ ReadInv'
    BY <1>0, <2>1 DEF TxInv, ReadInv, AllThere, Bulk
  <2>4. StepInv'
    BY <2>1, <2>2 DEF StepInv, Control, Early, Bulk
  <2>5. EhciTypeOK'
    BY <1>0, <2>1, <2>2 DEF EhciTypes, EhciTypeOK, Toggles, Hub, Control
  <2>6. DiskTypeOK'
    BY <1>0, <2>1 DEF EhciTypes, DiskTypeOK
  <2> QED
    BY <2>3, <2>4, <2>5, <2>6 DEF EhciTypes
<1> QED
  BY <1>1, <1>2

LEMMA EhciStep ==
    ASSUME host = "ehci", EhciTypes, EhciInv, EhciNext
    PROVE  EhciTypes' /\ EhciInv'
<1>0. host' = host /\ AddressInv /\ TxInv
  BY DEF EhciNext, EhciInv
<1>1. AddressInv'
  BY <1>0, AddressesAreKept DEF EhciTypes
<1>2. CASE RequestStep
  BY <1>0, <1>1, <1>2, RequestTypes, RequestKeeps DEF EhciInv
<1>3. CASE BulkStep
  BY <1>0, <1>1, <1>3, BulkTypes, BulkKeepsTx, BulkKeepsStep, BulkKeepsRead DEF EhciInv
<1>4. CASE GiveUp \/ NextPort
  BY <1>0, <1>1, <1>4, OthersKeep DEF EhciInv
<1> QED
  BY <1>2, <1>3, <1>4 DEF EhciNext, EhciDriver, RequestStep, BulkStep

LEMMA EhciPromises ==
    ASSUME host = "ehci", EhciTypes, EhciInv
    PROVE  EhciReadIsWhole /\ CommandsInStep /\ OneReceiver
<1>1. EhciReadIsWhole
  BY DEF EhciReadIsWhole, EhciInv, ReadInv, AllThere
<1>2. CommandsInStep
  BY DEF CommandsInStep, EhciInv, StepInv, TxInv, Steady, Bulk
<1>3. OneReceiver
  BY AddressIsUnique DEF OneReceiver, EhciInv, EhciTypes
<1> QED
  BY <1>1, <1>2, <1>3

-----------------------------------------------------------------------------
(* xHCI: the event ring *)

(* The events that the controller has written and the driver has not looked
   at.  The cycle states say whether the controller has come round once more. *)
OnTheWay == IF ev_ccs = pcs THEN enq - ev_deq ELSE enq + EventSlots - ev_deq
IsPending(i) == IF ev_ccs = pcs THEN ev_deq <= i /\ i < enq ELSE ev_deq <= i \/ i < enq
EventCell == 0..EventSlots - 1
RingInv ==
    /\ IF ev_ccs = pcs THEN ev_deq <= enq ELSE enq < ev_deq
    /\ \A i \in EventCell : ring[i].cycle = IF i < enq THEN pcs ELSE 1 - pcs

RingTypes ==
    /\ ring \in [EventCell -> [cycle : 0..1, event : Event]]
    /\ ev_deq \in EventCell /\ enq \in EventCell /\ ev_ccs \in 0..1 /\ pcs \in 0..1

(* What the controller writes, one event or two *)
Written(i, e, bit) == ring'[i] = [cycle |-> bit, event |-> e]
LEMMA PutCells ==
    ASSUME RingTypes, NEW n \in 1..2, NEW events \in [1..n -> Event], Put(events)
    PROVE  /\ enq' \in EventCell /\ pcs' \in 0..1
           /\ enq' = IF n = 1 THEN Next1(enq) ELSE Next1(Next1(enq))
           /\ pcs' = IF enq' < enq THEN 1 - pcs ELSE pcs
           /\ ev_deq' = ev_deq /\ ev_ccs' = ev_ccs
           /\ Next1(enq) # ev_deq
           /\ n = 2 => Next1(Next1(enq)) # ev_deq
           /\ DOMAIN ring' = EventCell
           /\ Written(enq, events[1], pcs)
           /\ n = 2 => Written(Next1(enq), events[2],
                               IF enq = EventSlots - 1 THEN 1 - pcs ELSE pcs)
           /\ \A i \in EventCell :
                 i # enq /\ (n = 2 => i # Next1(enq)) => ring'[i] = ring[i]
<1>0. EventSlots \in Nat /\ EventSlots > 2 /\ enq \in 0..EventSlots - 1 /\ pcs \in 0..1
      /\ Len(events) = n /\ DOMAIN ring = EventCell
  BY XhciAssumption DEF RingTypes, EventCell
<1>1. /\ Free(1) = enq /\ Free(2) = Next1(enq) /\ Free(3) = Next1(Next1(enq))
      /\ Next1(enq) # enq /\ Next1(enq) \in EventCell /\ Next1(Next1(enq)) \in EventCell
  BY <1>0 DEF Free, Next1, EventCell
<1>2. /\ enq' = Free(n + 1) /\ pcs' = IF enq' < enq THEN 1 - pcs ELSE pcs
      /\ ev_deq' = ev_deq /\ ev_ccs' = ev_ccs
      /\ \A k \in 1..n : Free(k + 1) # ev_deq
  BY <1>0 DEF Put
<1>3. \A i \in EventCell : ring'[i] =
          IF \E k \in 1..n : i = Free(k)
          THEN LET k == CHOOSE k \in 1..n : i = Free(k)
               IN  [cycle |-> IF i < enq THEN 1 - pcs ELSE pcs, event |-> events[k]]
          ELSE ring[i]
  BY <1>0 DEF Put
<1>4. DOMAIN ring' = EventCell
  BY <1>0 DEF Put
<1>5. Written(enq, events[1], pcs)
  <2>1. (CHOOSE k \in 1..n : enq = Free(k)) = 1
    BY <1>1
  <2>2. enq \in EventCell /\ \E k \in 1..n : enq = Free(k)
    BY <1>0, <1>1 DEF EventCell
  <2>3. ~(enq < enq)
    BY <1>0
  <2> QED
    BY <1>3, <2>1, <2>2, <2>3 DEF Written
<1>6. n = 2 => Written(Next1(enq), events[2], IF enq = EventSlots - 1 THEN 1 - pcs ELSE pcs)
  <2>1. SUFFICES ASSUME n = 2
                 PROVE  Written(Next1(enq), events[2], IF enq = EventSlots - 1 THEN 1 - pcs ELSE pcs)
    OBVIOUS
  <2>2. (CHOOSE k \in 1..n : Next1(enq) = Free(k)) = 2
    BY <1>1, <2>1
  <2>3. \E k \in 1..n : Next1(enq) = Free(k)
    BY <1>1, <2>1
  <2>4. Next1(enq) < enq <=> enq = EventSlots - 1
    BY <1>0 DEF Next1
  <2> QED
    BY <1>1, <1>3, <2>2, <2>3, <2>4 DEF Written
<1>7. \A i \in EventCell : i # enq /\ (n = 2 => i # Next1(enq)) => ring'[i] = ring[i]
  <2>1. SUFFICES ASSUME NEW i \in EventCell, i # enq, n = 2 => i # Next1(enq)
                 PROVE  ring'[i] = ring[i]
    OBVIOUS
  <2>2. ~\E k \in 1..n : i = Free(k)
    BY <1>1, <2>1
  <2> QED
    BY <1>3, <2>2
<1>8. Next1(enq) # ev_deq /\ (n = 2 => Next1(Next1(enq)) # ev_deq)
  <2>1. Free(1 + 1) # ev_deq /\ (n = 2 => Free(2 + 1) # ev_deq)
    BY <1>2
  <2> QED
    BY <1>1, <2>1
<1>9. enq' = IF n = 1 THEN Next1(enq) ELSE Next1(Next1(enq))
  BY <1>1, <1>2
<1>10. enq' \in EventCell /\ pcs' \in 0..1
  BY <1>0, <1>1, <1>2, <1>9
<1> QED
  BY <1>2, <1>4, <1>5, <1>6, <1>7, <1>8, <1>9, <1>10

LEMMA PutRing ==
    ASSUME RingTypes, RingInv, NEW n \in 1..2, NEW events \in [1..n -> Event], Put(events)
    PROVE  /\ RingTypes' /\ RingInv'
           /\ OnTheWay' = OnTheWay + n
           /\ \A i \in EventCell : IsPending(i)' =>
                 \/ IsPending(i) /\ ring'[i] = ring[i]
                 \/ i = enq /\ ring'[i].event = events[1]
                 \/ n = 2 /\ ring'[i].event = events[2]
<1>0. /\ EventSlots \in Nat /\ EventSlots > 2 /\ enq \in 0..EventSlots - 1 /\ pcs \in 0..1
      /\ ev_deq \in 0..EventSlots - 1 /\ ev_ccs \in 0..1
      /\ IF ev_ccs = pcs THEN ev_deq <= enq ELSE enq < ev_deq
      /\ events[1] \in Event /\ (n = 2 => events[2] \in Event)
  BY XhciAssumption DEF RingTypes, RingInv, EventCell
<1>1. /\ enq' = IF n = 1 THEN Next1(enq) ELSE Next1(Next1(enq))
      /\ pcs' = IF enq' < enq THEN 1 - pcs ELSE pcs
      /\ ev_deq' = ev_deq /\ ev_ccs' = ev_ccs
      /\ Next1(enq) # ev_deq /\ (n = 2 => Next1(Next1(enq)) # ev_deq)
      /\ enq' \in EventCell /\ pcs' \in 0..1
  BY PutCells
<1>2. /\ DOMAIN ring' = EventCell
      /\ Written(enq, events[1], pcs)
      /\ n = 2 => Written(Next1(enq), events[2], IF enq = EventSlots - 1 THEN 1 - pcs ELSE pcs)
      /\ \A i \in EventCell : i # enq /\ (n = 2 => i # Next1(enq)) => ring'[i] = ring[i]
  BY PutCells
<1>3. IF ev_ccs = pcs' THEN ev_deq <= enq' ELSE enq' < ev_deq
  BY <1>0, <1>1 DEF Next1
<1>4. OnTheWay' = OnTheWay + n
  BY <1>0, <1>1 DEF Next1, OnTheWay
<1>5. ASSUME NEW i \in EventCell
      PROVE  /\ ring'[i] \in [cycle : 0..1, event : Event]
             /\ ring'[i].cycle = IF i < enq' THEN pcs' ELSE 1 - pcs'
             /\ IsPending(i)' =>
                   \/ IsPending(i) /\ ring'[i] = ring[i]
                   \/ i = enq /\ ring'[i].event = events[1]
                   \/ n = 2 /\ ring'[i].event = events[2]
  <2>0. i \in 0..EventSlots - 1
    BY DEF EventCell
  <2>1. CASE i = enq
    <3>1. ring'[i].cycle = pcs /\ ring'[i].event = events[1]
          /\ ring'[i] \in [cycle : 0..1, event : Event]
      BY <1>0, <1>2, <2>1 DEF Written
    <3>2. pcs = IF i < enq' THEN pcs' ELSE 1 - pcs'
      BY <1>0, <1>1, <2>0, <2>1 DEF Next1
    <3> QED
      BY <2>1, <3>1, <3>2
  <2>2. CASE n = 2 /\ i = Next1(enq) /\ i # enq
    <3>1. ring'[i].cycle = (IF enq = EventSlots - 1 THEN 1 - pcs ELSE pcs)
          /\ ring'[i].event = events[2] /\ ring'[i] \in [cycle : 0..1, event : Event]
      BY <1>0, <1>2, <2>2 DEF Written
    <3>2. (IF enq = EventSlots - 1 THEN 1 - pcs ELSE pcs) = IF i < enq' THEN pcs' ELSE 1 - pcs'
      BY <1>0, <1>1, <2>0, <2>2 DEF Next1
    <3> QED
      BY <2>2, <3>1, <3>2
  <2>3. CASE i # enq /\ (n = 2 => i # Next1(enq))
    <3>1. ring'[i] = ring[i] /\ ring[i] \in [cycle : 0..1, event : Event]
          /\ ring[i].cycle = IF i < enq THEN pcs ELSE 1 - pcs
      BY <1>2, <2>3 DEF RingTypes, RingInv
    <3>2. (IF i < enq THEN pcs ELSE 1 - pcs) = IF i < enq' THEN pcs' ELSE 1 - pcs'
      BY <1>0, <1>1, <2>0, <2>3 DEF Next1
    <3>3. IsPending(i)' => IsPending(i)
      BY <1>0, <1>1, <2>0, <2>3 DEF Next1, IsPending
    <3> QED
      BY <3>1, <3>2, <3>3
  <2> QED
    BY <2>1, <2>2, <2>3
<1>6. RingInv'
  BY <1>1, <1>3, <1>5 DEF RingInv
<1>7. ring' \in [EventCell -> [cycle : 0..1, event : Event]]
  <2>1. ring' = [i \in EventCell |-> ring'[i]]
    BY <1>0 DEF Put, RingTypes
  <2> QED
    BY <1>5, <2>1
<1>8. RingTypes'
  BY <1>1, <1>7 DEF RingTypes, EventCell
<1> QED
  BY <1>4, <1>5, <1>6, <1>8

(* What the driver takes *)
LEMMA AckRing ==
    ASSUME RingTypes, RingInv, Ready, Acknowledge
    PROVE  /\ RingTypes' /\ RingInv' /\ ring' = ring
           /\ OnTheWay > 0 /\ OnTheWay' = OnTheWay - 1
           /\ IsPending(ev_deq)
           /\ \A i \in EventCell : IsPending(i)' => IsPending(i) /\ i # ev_deq
<1>0. /\ EventSlots \in Nat /\ EventSlots > 2 /\ enq \in 0..EventSlots - 1 /\ pcs \in 0..1
      /\ ev_deq \in 0..EventSlots - 1 /\ ev_ccs \in 0..1
      /\ IF ev_ccs = pcs THEN ev_deq <= enq ELSE enq < ev_deq
  BY XhciAssumption DEF RingTypes, RingInv, EventCell
<1>1. /\ ring' = ring /\ enq' = enq /\ pcs' = pcs /\ ev_deq' = Next1(ev_deq)
      /\ ev_ccs' = IF ev_deq = EventSlots - 1 THEN 1 - ev_ccs ELSE ev_ccs
  BY DEF Acknowledge
<1>2. ev_ccs = IF ev_deq < enq THEN pcs ELSE 1 - pcs
  BY DEF Ready, RingInv, RingTypes
<1>3. RingTypes'
  BY <1>0, <1>1 DEF RingTypes, Next1, EventCell
<1>4. RingInv'
  <2>1. IF ev_ccs' = pcs' THEN ev_deq' <= enq' ELSE enq' < ev_deq'
    BY <1>0, <1>1, <1>2 DEF Next1
  <2> QED
    BY <1>1, <2>1 DEF RingInv
<1>5. OnTheWay > 0 /\ OnTheWay' = OnTheWay - 1 /\ IsPending(ev_deq)
  BY <1>0, <1>1, <1>2 DEF Next1, OnTheWay, IsPending
<1>6. \A i \in EventCell : IsPending(i)' => IsPending(i) /\ i # ev_deq
  BY <1>0, <1>1, <1>2 DEF Next1, IsPending, EventCell
<1> QED
  BY <1>1, <1>3, <1>4, <1>5, <1>6

-----------------------------------------------------------------------------
(* xHCI: what is queued *)

(* Requests for a configuration descriptor: each may cause two events. *)
Confs(q) == {i \in 1..Len(q) : q[i].what = "conf"}
NumConf(q) == Cardinality(Confs(q))
One(b) == IF b THEN 1 ELSE 0
LEMMA ConfsFinite ==
    ASSUME NEW q \in Seq(Work)
    PROVE  IsFiniteSet(Confs(q)) /\ NumConf(q) \in Nat
<1>1. IsFiniteSet(1..Len(q)) /\ Confs(q) \in SUBSET (1..Len(q))
  BY FS_Interval DEF Confs
<1> QED
  BY <1>1, FS_Subset, FS_CardinalityType DEF NumConf

LEMMA ConfsAppend ==
    ASSUME NEW q \in Seq(Work), NEW w \in Work
    PROVE  NumConf(Append(q, w)) = NumConf(q) + One(w.what = "conf")
<1> DEFINE n == Len(q)
           p == Append(q, w)
<1>1. n \in Nat /\ Len(p) = n + 1 /\ p[n + 1] = w /\ \A i \in 1..n : p[i] = q[i]
  OBVIOUS
<1>2. n + 1 \notin Confs(q) /\ IsFiniteSet(Confs(q)) /\ NumConf(q) \in Nat
  BY ConfsFinite DEF Confs
<1> HIDE DEF n, p
<1>3. CASE w.what = "conf"
  <2>1. Confs(p) = Confs(q) \union {n + 1}
    BY <1>1, <1>3 DEF Confs, n
  <2> QED
    BY <1>2, <1>3, <2>1, FS_AddElement DEF NumConf, One, p
<1>4. CASE w.what # "conf"
  <2>1. Confs(p) = Confs(q)
    BY <1>1, <1>4 DEF Confs, n
  <2> QED
    BY <1>2, <1>4, <2>1 DEF NumConf, One, p
<1> QED
  BY <1>3, <1>4

LEMMA ConfsTail ==
    ASSUME NEW q \in Seq(Work), q # <<>>
    PROVE  NumConf(Tail(q)) + One(Head(q).what = "conf") <= NumConf(q)
<1> DEFINE t == Tail(q)
           f == [i \in Confs(t) |-> i + 1]
           rest2 == Confs(q) \ {1}
<1>1. /\ t \in Seq(Work) /\ Len(q) \in Nat /\ Len(q) > 0 /\ Len(t) = Len(q) - 1
      /\ \A i \in 1..Len(t) : t[i] = q[i + 1]
      /\ Head(q) = q[1]
  OBVIOUS
<1>2. IsFiniteSet(Confs(q)) /\ NumConf(q) \in Nat /\ NumConf(t) \in Nat
  BY <1>1, ConfsFinite
<1>3. /\ IsFiniteSet(rest2)
      /\ Cardinality(rest2) = IF 1 \in Confs(q) THEN NumConf(q) - 1 ELSE NumConf(q)
  BY <1>2, FS_RemoveElement DEF NumConf
<1>4. 1 \in Confs(q) <=> Head(q).what = "conf"
  BY <1>1 DEF Confs
<1> HIDE DEF t
<1>5. f \in Injection(Confs(t), rest2)
  <2>1. \A i \in Confs(t) : i \in Nat /\ i + 1 \in rest2
    BY <1>1 DEF Confs
  <2>2. f \in [Confs(t) -> rest2]
    BY <2>1
  <2>3. \A i, j \in Confs(t) : f[i] = f[j] => i = j
    BY <2>1
  <2> QED
    BY <2>2, <2>3 DEF Injection, IsInjective
<1>6. Cardinality(Confs(t)) <= Cardinality(rest2)
  <2> HIDE DEF f, rest2
  <2> QED
    BY <1>3, <1>5, FS_Injection
<1> HIDE DEF rest2
<1>7. NumConf(t) <= IF 1 \in Confs(q) THEN NumConf(q) - 1 ELSE NumConf(q)
  BY <1>3, <1>6 DEF NumConf
<1> QED
  BY <1>2, <1>4, <1>7 DEF One, t

-----------------------------------------------------------------------------
(* xHCI: a step of the controller at a queue *)

XhciTypes == DiskTypeOK /\ XhciTypeOK
WorkTypes == work \in [Ring -> Seq(Work)]

LEMMA TypesGiven ==
    ASSUME host = "xhci", XhciTypes
    PROVE  /\ RingTypes /\ WorkTypes
           /\ disk \in Disk /\ mem \in Block /\ cmd \in Command
           /\ dest \in [no : Nat, part : {"old", "some", "all"}]
           /\ faults \in 0..MaxFaults /\ MaxFaults \in Nat /\ reads \in 0..MaxReads
           /\ slots \in Nat /\ slot \in Nat /\ r_slot \in Nat /\ sent \in 0..PortEvents
           /\ PortEvents \in Nat /\ others \in Nat /\ port \in Nat
           /\ halted \subseteq Ring \X Nat
BY DiskAssumption, XhciAssumption DEF XhciTypes, DiskTypeOK, XhciTypeOK, RingTypes, WorkTypes, EventCell

LEMMA DoneRing ==
    ASSUME RingTypes, RingInv, WorkTypes, slots' \in Nat,
           NEW r \in Ring, NEW answer \in {"transfer", "completion"},
           NEW code \in {"success", "short", "stall", "error"}, NEW n \in 1..2,
           work[r] # <<>>, Done(r, answer, code, n)
    PROVE  /\ RingTypes' /\ RingInv' /\ OnTheWay' = OnTheWay + n
           /\ \A i \in EventCell : IsPending(i)' =>
                 \/ IsPending(i) /\ ring'[i] = ring[i]
                 \/ /\ n = 1 => i = enq
                    /\ ring'[i].event = [type |-> answer, code |-> code, slot |-> slots']
           /\ WorkTypes' /\ work' = [work EXCEPT ![r] = Tail(@)]
<1> DEFINE new == [type |-> answer, code |-> code, slot |-> slots']
           events == [i \in 1..n |-> new]
<1>1. new \in Event
  BY DEF Event
<1>2. events \in [1..n -> Event] /\ events[1] = new /\ (n = 2 => events[2] = new)
  BY <1>1
<1>3. Put(events) /\ work' = [work EXCEPT ![r] = Tail(@)]
  BY DEF Done
<1>4. WorkTypes'
  BY <1>3 DEF WorkTypes
<1> HIDE DEF events
<1>5. /\ RingTypes' /\ RingInv' /\ OnTheWay' = OnTheWay + n
      /\ \A i \in EventCell : IsPending(i)' =>
            \/ IsPending(i) /\ ring'[i] = ring[i]
            \/ i = enq /\ ring'[i].event = events[1]
            \/ n = 2 /\ ring'[i].event = events[2]
  BY <1>2, <1>3, PutRing
<1> QED
  BY <1>2, <1>3, <1>4, <1>5

(* Any answer to a transfer: it leaves its queue, and one event is put, or two
   after a short packet of a bulk transfer or of a configuration descriptor. *)
Serve == ServeControl \/ ServeOut \/ ServeData \/ ServeStatus \/ ServeRefused
ServeBulk == ServeOut \/ ServeData \/ ServeStatus \/ ServeRefused
Answer(r, code, n) ==
    /\ work[r] # <<>> /\ Done(r, "transfer", code, n)
    /\ n = 2 => faults' = faults + 1 \/ (r = "ep0" /\ Head(work[r]).what = "conf")
Transfers == Ring \ {"cmd"}
Codes == {"success", "short", "stall", "error"}

LEMMA FailAnswers ==
    ASSUME XhciTypes, host = "xhci", NEW r \in Transfers, work[r] # <<>>, UNCHANGED slots,
           (Fail(r) \/ (Works /\ Refuse(r)))
    PROVE  /\ \E code \in Codes : Answer(r, code, 1)
           /\ halted' \subseteq Ring \X Nat /\ faults' \in faults..MaxFaults
<1>0. r \in Ring /\ faults \in 0..MaxFaults /\ MaxFaults \in Nat /\ halted \subseteq Ring \X Nat
  BY TypesGiven DEF Transfers
<1>1. work[r] \in Seq(Work)
  BY <1>0, TypesGiven DEF WorkTypes
<1>2. Head(work[r]).slot \in Nat
  <2>1. Head(work[r]) \in Work
    BY <1>1
  <2> QED
    BY <2>1 DEF Work
<1>3. PICK code \in {"stall", "error"} : Halt(r, code)
  BY DEF Fail, Refuse
<1>4. code \in Codes /\ Answer(r, code, 1)
  BY <1>3 DEF Halt, Answer, Codes
<1>5. halted' \subseteq Ring \X Nat
  BY <1>0, <1>2, <1>3 DEF Halt
<1>6. faults' \in faults..MaxFaults
  BY <1>0 DEF Fail, Fault, Works
<1> QED
  BY <1>4, <1>5, <1>6

LEMMA ServeAnswers ==
    ASSUME host = "xhci", XhciTypes, Serve
    PROVE  /\ UNCHANGED <<driverSide, slots, sent, cmd, reads>>
           /\ \E r \in Transfers, code \in Codes, n \in 1..2 : Answer(r, code, n)
           /\ halted' \subseteq Ring \X Nat /\ faults' \in faults..MaxFaults
<1>0. /\ halted \subseteq Ring \X Nat /\ faults \in 0..MaxFaults /\ MaxFaults \in Nat
      /\ "ep0" \in Transfers /\ "out" \in Transfers /\ "in" \in Transfers
      /\ "success" \in Codes /\ "short" \in Codes /\ 1 \in 1..2 /\ 2 \in 1..2
  BY TypesGiven DEF Transfers, Codes, Ring
<1>a. Works => faults' \in faults..MaxFaults
  BY <1>0 DEF Works
<1>1. CASE ServeControl
  <2>0. work["ep0"] # <<>> /\ UNCHANGED <<driverSide, slots, sent, cmd, reads>>
    BY <1>1 DEF ServeControl, HasWork
  <2>1. CASE Fail("ep0")
    BY <1>0, <2>0, <2>1, FailAnswers
  <2>2. CASE Works /\ UNCHANGED halted /\ Done("ep0", "transfer", "success", 1)
    <3>1. Answer("ep0", "success", 1)
      BY <2>0, <2>2 DEF Answer
    <3> QED
      BY <1>0, <1>a, <2>0, <2>2, <3>1
  <2>3. CASE /\ Works /\ UNCHANGED halted /\ Head(work["ep0"]).what = "conf"
             /\ Done("ep0", "transfer", "short", 2)
    <3>1. Answer("ep0", "short", 2)
      BY <2>0, <2>3 DEF Answer
    <3> QED
      BY <1>0, <1>a, <2>0, <2>3, <3>1
  <2>4. CASE Works /\ Refuse("ep0")
    BY <1>0, <2>0, <2>4, FailAnswers
  <2> QED
    BY <1>1, <2>1, <2>2, <2>3, <2>4 DEF ServeControl
<1>2. CASE ServeOut
  <2>0. work["out"] # <<>> /\ UNCHANGED <<driverSide, slots, sent, cmd, reads>>
    BY <1>2 DEF ServeOut, HasWork
  <2>1. CASE Fail("out") \/ (Works /\ Refuse("out"))
    BY <1>0, <2>0, <2>1, FailAnswers
  <2>2. CASE Works /\ UNCHANGED halted /\ Done("out", "transfer", "success", 1)
    <3>1. Answer("out", "success", 1)
      BY <2>0, <2>2 DEF Answer
    <3> QED
      BY <1>0, <1>a, <2>0, <2>2, <3>1
  <2> QED
    BY <1>2, <2>1, <2>2 DEF ServeOut
<1>3. CASE ServeData
  <2>0. work["in"] # <<>> /\ UNCHANGED <<driverSide, slots, sent, cmd, reads>>
    BY <1>3 DEF ServeData, HasWork
  <2>1. CASE Fail("in")
    BY <1>0, <2>0, <2>1, FailAnswers
  <2>2. CASE Works /\ UNCHANGED halted /\ Done("in", "transfer", "success", 1)
    <3>1. Answer("in", "success", 1)
      BY <2>0, <2>2 DEF Answer
    <3> QED
      BY <1>0, <1>a, <2>0, <2>2, <3>1
  <2>3. CASE /\ Fault /\ UNCHANGED halted
             /\ Done("in", "transfer", "short", Head(work["in"]).trbs)
    <3>1. work["in"] \in Seq(Work)
      BY TypesGiven DEF WorkTypes, Ring
    <3>2. Head(work["in"]).trbs \in 1..2
      <4>1. Head(work["in"]) \in Work
        BY <2>0, <3>1
      <4> QED
        BY <4>1 DEF Work
    <3>3. faults' = faults + 1 /\ faults' \in faults..MaxFaults
      BY <1>0, <2>3 DEF Fault
    <3>4. Answer("in", "short", Head(work["in"]).trbs)
      BY <2>0, <2>3, <3>3 DEF Answer
    <3> QED
      BY <1>0, <2>0, <2>3, <3>2, <3>3, <3>4
  <2> QED
    BY <1>3, <2>1, <2>2, <2>3 DEF ServeData
<1>4. CASE ServeStatus
  <2>0. work["in"] # <<>> /\ UNCHANGED <<driverSide, slots, sent, cmd, reads>>
    BY <1>4 DEF ServeStatus, HasWork
  <2>1. CASE Fail("in")
    BY <1>0, <2>0, <2>1, FailAnswers
  <2>2. CASE Works /\ UNCHANGED halted /\ Done("in", "transfer", "success", 1)
    <3>1. Answer("in", "success", 1)
      BY <2>0, <2>2 DEF Answer
    <3> QED
      BY <1>0, <1>a, <2>0, <2>2, <3>1
  <2> QED
    BY <1>4, <2>1, <2>2 DEF ServeStatus
<1>5. CASE ServeRefused
  <2>0. work["in"] # <<>> /\ UNCHANGED <<driverSide, slots, sent, cmd, reads>>
    BY <1>5 DEF ServeRefused, HasWork
  <2>1. Works /\ Refuse("in")
    BY <1>5 DEF ServeRefused
  <2> QED
    BY <1>0, <2>0, <2>1, FailAnswers
<1> QED
  BY <1>1, <1>2, <1>3, <1>4, <1>5 DEF Serve

-----------------------------------------------------------------------------
(* xHCI: a command, its data and its status.  Before anything else, what the
   disk has and what lies in the buffer are of this command or of an earlier
   one; a status block of this command came after its data. *)
DataInv ==
    /\ mem.is = "cbw" => mem = CBW(cmd)
    /\ disk.no <= cmd.no
    /\ cmd.kind = "read" => cmd.len > 0
    /\ disk.phase = "csw" /\ disk.no = cmd.no /\ cmd.kind = "read" => AllThere
    /\ mem.is = "csw" /\ mem.no = cmd.no =>
          /\ disk.phase \in {"cbw", "refuse"}
          /\ cmd.kind = "read" => AllThere
StageInv ==
    /\ pc \in BulkOp /\ (tx # "-" \/ result # "none") => cmd.kind = pc
    /\ pc \notin BulkOp => result = "none" /\ tx \in {"-", "again"}
    /\ result = "good" /\ tx = "-" => mem.is = "csw" /\ mem.no = cmd.no
    /\ pc = "ready" => tries < TestTries
CommandInv == DataInv /\ StageInv

DataTypes ==
    /\ disk \in Disk /\ mem \in Block /\ cmd \in Command
    /\ dest \in [no : Nat, part : {"old", "some", "all"}]

LEMMA ServeKeepsData ==
    ASSUME host = "xhci", XhciTypes, CommandInv, Serve
    PROVE  DataTypes' /\ CommandInv'
<1>0. /\ disk \in Disk /\ mem \in Block /\ cmd \in Command
      /\ dest \in [no : Nat, part : {"old", "some", "all"}]
      /\ DataInv /\ StageInv
  BY TypesGiven DEF CommandInv
<1>1. UNCHANGED <<pc, tx, result, tries, cmd>>
  BY ServeAnswers DEF driverSide
<1>2. CASE UNCHANGED <<disk, mem, dest>>
  BY <1>0, <1>1, <1>2 DEF DataTypes, CommandInv, DataInv, StageInv, AllThere
<1>3. CASE disk' = [disk EXCEPT !.phase = "refuse"] /\ UNCHANGED <<mem, dest>>
  <2>1. disk' \in Disk /\ disk'.phase = "refuse" /\ disk'.no = disk.no /\ disk'.short = disk.short
    BY <1>0, <1>3 DEF Disk
  <2> QED
    BY <1>0, <1>1, <1>3, <2>1 DEF DataTypes, CommandInv, DataInv, StageInv, AllThere
<1>4. CASE disk.phase = "cbw" /\ mem.is = "cbw" /\ TakeCBW(mem) /\ UNCHANGED <<mem, dest>>
  <2>1. mem = CBW(cmd) /\ cmd.no \in Nat /\ cmd.len \in Nat
    BY <1>0, <1>4 DEF DataInv, Command
  <2>2. /\ disk' = [phase |-> IF cmd.len > 0 THEN "data" ELSE "csw",
                    no |-> cmd.no, len |-> cmd.len, short |-> FALSE]
    BY <1>4, <2>1 DEF TakeCBW, CBW
  <2>3. disk' \in Disk
    BY <2>1, <2>2 DEF Disk
  <2> QED
    BY <1>0, <1>1, <1>4, <2>1, <2>2, <2>3 DEF DataTypes, CommandInv, DataInv, StageInv
<1>5. ASSUME NEW short \in BOOLEAN, disk.phase = "data", DataSent(short), UNCHANGED mem
      PROVE  DataTypes' /\ CommandInv'
  <2>1. /\ disk' = [disk EXCEPT !.phase = "csw", !.short = short]
        /\ dest' = IF cmd.kind = "read"
                   THEN [no |-> disk.no, part |-> IF short THEN "some" ELSE "all"] ELSE dest
    BY <1>5 DEF DataSent
  <2>2. disk' \in Disk /\ disk'.phase = "csw" /\ disk'.no = disk.no /\ disk'.short = short
        /\ disk.no \in Nat
    BY <1>0, <2>1 DEF Disk
  <2>3. dest' \in [no : Nat, part : {"old", "some", "all"}]
    BY <1>0, <2>1, <2>2
  <2>4. cmd.kind = "read" => dest'.no = disk.no /\ (dest'.part = "all" \/ short)
    BY <2>1
  <2>5. ~(mem.is = "csw" /\ mem.no = cmd.no)
    BY <1>0, <1>5 DEF DataInv
  <2>6. DataInv'
    BY <1>0, <1>1, <1>5, <2>2, <2>4, <2>5 DEF DataInv, AllThere
  <2>7. StageInv'
    BY <1>0, <1>1, <1>5 DEF StageInv
  <2> QED
    BY <1>0, <1>1, <1>5, <2>2, <2>3, <2>6, <2>7 DEF DataTypes, CommandInv
<1>6. CASE /\ disk.phase = "csw" /\ UNCHANGED dest
           /\ \E ok \in Status : mem' = CSW(disk.no, ok)
           /\ disk' = [disk EXCEPT !.phase = "cbw"]
  <2>0. PICK ok \in Status : mem' = CSW(disk.no, ok)
    BY <1>6
  <2>1. ok \in BOOLEAN /\ disk.no \in Nat
    BY <1>0, <2>0 DEF Status, Disk
  <2>2. mem' = [is |-> "csw", no |-> disk.no, len |-> 0, ok |-> ok]
    BY <2>0 DEF CSW
  <2>3. disk' \in Disk /\ disk'.phase = "cbw" /\ disk'.no = disk.no /\ disk'.short = disk.short
    BY <1>0, <1>6 DEF Disk
  <2>4. mem' \in Block /\ mem'.is = "csw" /\ mem'.no = disk.no
    BY <2>1, <2>2 DEF Block
  <2>5. DataInv'
    BY <1>0, <1>1, <1>6, <2>3, <2>4 DEF DataInv, AllThere
  <2>6. ~(result = "good" /\ tx = "-")
    BY <1>0, <1>6 DEF DataInv, StageInv
  <2>7. StageInv'
    BY <1>0, <1>1, <2>6 DEF StageInv
  <2> QED
    BY <1>0, <1>1, <1>6, <2>3, <2>4, <2>5, <2>7 DEF DataTypes, CommandInv
<1> QED
  <2>1. CASE ServeControl \/ ServeRefused
    BY <1>2, <2>1 DEF ServeControl, ServeRefused
  <2>2. CASE ServeOut
    BY <1>3, <1>4, <2>2 DEF ServeOut
  <2>3. CASE ServeData
    BY <1>3, <1>5, <2>3 DEF ServeData
  <2>4. CASE ServeStatus
    BY <1>2, <1>6, <2>4 DEF ServeStatus
  <2> QED
    BY <2>1, <2>2, <2>3, <2>4 DEF Serve

-----------------------------------------------------------------------------
(* xHCI: types and commands under the driver's own steps *)

XhciPc == CommandOp \union ControlOp \union BulkOp
              \union {"root_port", "next_child", "idle", "no_disk", "reset"}
XhciTx == {"-", "again", "cbw", "clear_out", "data", "clear_in", "csw", "clear_csw"}
RestTypes ==
    /\ host \in {"xhci", "ehci"} /\ ports \in Roots /\ port \in Nat
    /\ tries \in 0..TestTries /\ result \in {"none", "good", "bad"}
    /\ faults \in 0..MaxFaults /\ reads \in 0..MaxReads
    /\ pc \in XhciPc /\ tx \in XhciTx
    /\ slot \in Nat /\ r_slot \in Nat /\ slots \in Nat /\ sent \in 0..PortEvents
    /\ wait \in {"no", "transfer", "completion"} /\ others \in Nat
    /\ halted \subseteq Ring \X Nat

LEMMA TypesSplit ==
    ASSUME host = "xhci"
    PROVE  XhciTypes <=> RingTypes /\ WorkTypes /\ DataTypes /\ RestTypes
BY DEF XhciTypes, DiskTypeOK, XhciTypeOK, RingTypes, WorkTypes, DataTypes, RestTypes,
       EventCell, XhciPc, XhciTx

LEMMA TypesJoin ==
    ASSUME host' = "xhci", RingTypes', WorkTypes', DataTypes', RestTypes'
    PROVE  XhciTypes'
BY DEF XhciTypes, DiskTypeOK, XhciTypeOK, RingTypes, WorkTypes, DataTypes, RestTypes,
       EventCell, XhciPc, XhciTx

(* The driver waits only for what it has asked for. *)
WaitInv ==
    /\ wait # "no" => pc \in CommandOp \union ControlOp \union BulkOp
    /\ wait # "no" /\ pc \in BulkOp => tx # "-"
    /\ tx = "again" => pc \in ControlOp
XhciBase == XhciTypes /\ RingInv /\ CommandInv /\ WaitInv

LEMMA QueueTypes ==
    ASSUME RestTypes, WorkTypes, NEW r \in Ring, NEW n \in 1..2,
           NEW what \in CommandOp \union {"ctrl", "conf", "cbw", "data", "csw"},
           NEW type \in {"transfer", "completion"}, Queue(r, what, n, type)
    PROVE  /\ WorkTypes' /\ wait = "no" /\ wait' = type /\ others' = 0
           /\ work' = [work EXCEPT ![r] = Append(@, [what |-> what, slot |-> slot, trbs |-> n])]
           /\ [what |-> what, slot |-> slot, trbs |-> n] \in Work
<1> DEFINE w == [what |-> what, slot |-> slot, trbs |-> n]
<1>1. w \in Work
  BY DEF Work, RestTypes
<1>2. wait = "no" /\ wait' = type /\ others' = 0 /\ work' = [work EXCEPT ![r] = Append(@, w)]
  BY DEF Queue
<1> HIDE DEF w
<1>3. WorkTypes'
  <2>1. Append(work[r], w) \in Seq(Work)
    BY <1>1 DEF WorkTypes
  <2> QED
    BY <1>2, <2>1 DEF WorkTypes
<1> QED
  BY <1>1, <1>2, <1>3 DEF w

(* Something is queued: a command, a request, or a step of the transport. *)
Ask(r, what, n) == Queue(r, what, n, IF r = "cmd" THEN "completion" ELSE "transfer")
AskFrame == UNCHANGED <<host, rest, ports, pc, tx, port, slot, r_slot, tries, result, dest, cmd, reads>>
AskCommand == EnableSlot \/ SetAddress \/ SetConfiguration \/ UpdateHub
Asks == AskCommand \/ QueueControl \/ QueueBulk

LEMMA AskCases ==
    ASSUME Asks, host' = host
    PROVE  /\ AskFrame
           /\ \/ /\ UNCHANGED mem /\ pc \in CommandOp /\ Ask("cmd", pc, 1)
              \/ /\ UNCHANGED mem /\ pc \in ControlOp /\ tx # "again"
                 /\ Ask("ep0", IF pc = "conf" THEN "conf" ELSE "ctrl", 1)
              \/ /\ UNCHANGED mem /\ pc \in BulkOp /\ Clearing /\ Ask("ep0", "ctrl", 1)
              \/ UNCHANGED mem /\ pc \in BulkOp /\ tx = "cbw" /\ Ask("out", "cbw", 1)
              \/ /\ UNCHANGED mem /\ pc \in BulkOp /\ tx = "data"
                 /\ \E n \in 1..2 : Ask("in", "data", n)
              \/ mem' = Zero /\ pc \in BulkOp /\ tx = "csw" /\ Ask("in", "csw", 1)
<1>1. CASE AskCommand
  BY <1>1 DEF AskCommand, EnableSlot, SetAddress, SetConfiguration, UpdateHub, QueueCommand,
              AskFrame, Ask, CommandOp
<1>2. CASE QueueControl
  <2>1. CASE pc \in ControlOp
    BY <1>2, <2>1 DEF QueueControl, AskFrame, Ask
  <2>2. CASE pc \in BulkOp /\ Clearing
    <3>1. pc # "conf"
      BY <2>2 DEF BulkOp
    <3> QED
      BY <1>2, <2>2, <3>1 DEF QueueControl, AskFrame, Ask
  <2> QED
    BY <1>2, <2>1, <2>2 DEF QueueControl
<1>3. CASE QueueBulk
  <2>1. AskFrame /\ pc \in BulkOp
    BY <1>3 DEF QueueBulk, AskFrame
  <2>2. CASE tx = "cbw" /\ Queue("out", "cbw", 1, "transfer") /\ UNCHANGED mem
    BY <2>1, <2>2 DEF Ask
  <2>3. CASE /\ tx = "data" /\ UNCHANGED mem
             /\ \E n \in 1..(IF cmd.len > 1 THEN 2 ELSE 1) : Queue("in", "data", n, "transfer")
    <3>1. PICK n \in 1..(IF cmd.len > 1 THEN 2 ELSE 1) : Queue("in", "data", n, "transfer")
      BY <2>3
    <3>2. n \in 1..2 /\ Ask("in", "data", n)
      BY <3>1 DEF Ask
    <3> QED
      BY <2>1, <2>3, <3>2
  <2>4. CASE tx = "csw" /\ mem' = Zero /\ Queue("in", "csw", 1, "transfer")
    BY <2>1, <2>4 DEF Ask
  <2> QED
    BY <1>3, <2>2, <2>3, <2>4 DEF QueueBulk
<1> QED
  BY <1>1, <1>2, <1>3 DEF Asks

LEMMA AskTypes ==
    ASSUME RestTypes, WorkTypes, Asks, host' = host
    PROVE  WorkTypes' /\ wait = "no" /\ wait' \in {"transfer", "completion"} /\ others' = 0
           /\ mem' \in {mem, Zero}
<1>1. "cmd" \in Ring /\ "ep0" \in Ring /\ "out" \in Ring /\ "in" \in Ring /\ 1 \in 1..2
  BY DEF Ring
<1>2. ASSUME NEW r \in Ring, NEW n \in 1..2,
             NEW what \in CommandOp \union {"ctrl", "conf", "cbw", "data", "csw"}, Ask(r, what, n)
      PROVE  WorkTypes' /\ wait = "no" /\ wait' \in {"transfer", "completion"} /\ others' = 0
  BY <1>2, QueueTypes DEF Ask
<1> QED
  BY <1>1, <1>2, AskCases

LEMMA AskKeeps ==
    ASSUME host = "xhci", XhciBase, Asks, host' = host
    PROVE  XhciBase'
<1>0. RingTypes /\ WorkTypes /\ DataTypes /\ RestTypes /\ DataInv /\ StageInv /\ RingInv
  BY TypesSplit DEF XhciBase, CommandInv
<1>1. AskFrame /\ (UNCHANGED mem \/ (mem' = Zero /\ tx = "csw"))
  BY AskCases
<1>2. WorkTypes' /\ wait' \in {"transfer", "completion"} /\ others' = 0
  BY <1>0, AskTypes
<1>3. /\ UNCHANGED <<slots, ring, enq, pcs, sent, halted, disk, faults, ev_deq, ev_ccs>>
      /\ UNCHANGED <<host, ports, pc, tx, port, slot, r_slot, tries, result, dest, cmd, reads>>
  BY <1>1 DEF AskFrame, rest, hardware
<1>4. RingTypes' /\ RingInv'
  BY <1>0, <1>3 DEF RingTypes, RingInv
<1>5. RestTypes'
  BY <1>0, <1>2, <1>3 DEF RestTypes
<1>6. DataTypes' /\ DataInv' /\ StageInv'
  <2>1. CASE UNCHANGED mem
    BY <1>0, <1>3, <2>1 DEF DataTypes, DataInv, StageInv, AllThere
  <2>2. CASE mem' = Zero /\ tx = "csw"
    BY <1>0, <1>3, <2>2 DEF DataTypes, DataInv, StageInv, AllThere, Zero, Block
  <2> QED
    BY <1>1, <2>1, <2>2
<1>7. WaitInv'
  <2>1. pc \in CommandOp \union ControlOp \union BulkOp /\ (pc \in BulkOp => tx # "-")
    BY AskCases DEF Clearing, CommandOp, ControlOp, BulkOp
  <2> QED
    BY <1>3, <2>1 DEF XhciBase, WaitInv
<1> QED
  BY <1>2, <1>3, <1>4, <1>5, <1>6, <1>7, TypesJoin DEF XhciBase, CommandInv

(* An event is taken, or dropped. *)
Takes == CommandDone \/ ControlDone \/ BulkDone \/ ClearDone \/ DropEvent

LEMMA TakeRing ==
    ASSUME RingTypes, RingInv, Takes
    PROVE  /\ Ready /\ Acknowledge /\ RingTypes' /\ RingInv' /\ OnTheWay' = OnTheWay - 1
           /\ next_event \in Event /\ wait # "no"
<1>1. Ready /\ Acknowledge
  BY DEF Takes, CommandDone, ControlDone, BulkDone, ClearDone, DropEvent, Taken
<1>2. next_event \in Event
  <2>1. ring[ev_deq] \in [cycle : 0..1, event : Event]
    BY DEF RingTypes
  <2> QED
    BY <2>1 DEF next_event
<1> QED
  BY <1>1, <1>2, AckRing DEF Ready

LEMMA TakeFrame ==
    ASSUME Takes, host' = host
    PROVE  UNCHANGED <<host, ports, r_slot, slots, sent, work, halted, tries, shared>>
           \/ (CommandDone /\ UNCHANGED <<host, ports, slots, sent, work, halted, tries, shared>>)
BY DEF Takes, CommandDone, ControlDone, BulkDone, ClearDone, DropEvent, place

LEMMA ControlSteps ==
    ASSUME ControlDone, port \in Nat
    PROVE  /\ UNCHANGED <<ports, slot, r_slot, slots, sent, work, halted, tries, result, shared>>
           /\ port' \in Nat
           /\ \/ tx' = "again" /\ others' = 0 /\ UNCHANGED <<pc, port, wait>>
              \/ /\ tx' = "-" /\ wait' = "no" /\ UNCHANGED others
                 /\ pc' \in ControlOp \union CommandOp \union {"next_child", "root_port", "inquiry"}
<1>1. CASE OneMore(next_event)
  BY <1>1 DEF ControlDone
<1>2. CASE ~OneMore(next_event)
  <2>1. tx' = "-" /\ wait' = "no" /\ UNCHANGED others /\ pc \in ControlOp
    BY <1>2 DEF ControlDone
  <2>2. UNCHANGED <<ports, slot, r_slot, slots, sent, work, halted, tries, result, shared>>
    BY <1>2 DEF ControlDone
  <2>3. CASE pc = "conf_len"
    BY <1>2, <2>1, <2>2, <2>3 DEF ControlDone, ControlOp, CommandOp
  <2>4. CASE pc = "set_conf"
    BY <1>2, <2>1, <2>2, <2>4 DEF ControlDone, ControlOp, CommandOp
  <2>5. CASE pc = "hub_power"
    BY <1>2, <2>1, <2>2, <2>5 DEF ControlDone, ControlOp, CommandOp
  <2>6. CASE pc \in {"hub_port", "root_status"}
    BY <1>2, <2>1, <2>2, <2>6 DEF ControlDone, ControlOp, CommandOp
  <2>7. CASE pc \in {"dev_desc", "conf", "max_lun", "hub_desc"}
    <3>1. pc' = AfterControl[pc] /\ port' = port
      BY <1>2, <2>7 DEF ControlDone
    <3> QED
      BY <2>1, <2>2, <2>7, <3>1 DEF AfterControl, ControlOp, CommandOp
  <2> QED
    BY <2>1, <2>3, <2>4, <2>5, <2>6, <2>7 DEF ControlOp
<1> QED
  BY <1>1, <1>2

LEMMA TakeKeeps ==
    ASSUME host = "xhci", XhciBase, Takes, host' = host
    PROVE  XhciBase'
<1>0. /\ RingTypes /\ WorkTypes /\ DataTypes /\ RestTypes /\ DataInv /\ StageInv /\ RingInv
      /\ WaitInv /\ port \in Nat
  BY TypesSplit DEF XhciBase, CommandInv, RestTypes
<1>1. RingTypes' /\ RingInv' /\ next_event.slot \in Nat /\ wait # "no"
  BY <1>0, TakeRing DEF Event
<1>2. UNCHANGED <<host, ports, slots, sent, work, halted, tries, shared>>
  BY TakeFrame
<1>3. WorkTypes' /\ DataTypes' /\ DataInv'
  BY <1>0, <1>2 DEF WorkTypes, DataTypes, DataInv, AllThere, shared
<1>4. RestTypes' /\ StageInv' /\ WaitInv'
  <2>1. CASE DropEvent
    BY <1>0, <1>2, <2>1 DEF DropEvent, place, RestTypes, StageInv, WaitInv, shared
  <2>2. CASE CommandDone
    <3>1. /\ pc \in CommandOp /\ pc' \in {"set_address", "dev_desc", "set_conf", "hub_power"}
          /\ wait' = "no" /\ UNCHANGED <<port, tx, result, others>>
          /\ slot' \in {slot, next_event.slot} /\ r_slot' \in {r_slot, next_event.slot}
      BY <2>2 DEF CommandDone, Taken, AfterCommand, CommandOp
    <3>2. pc \notin BulkOp /\ pc' \notin BulkOp /\ pc' \in XhciPc /\ pc' # "ready"
          /\ pc \notin ControlOp
      BY <3>1 DEF BulkOp, XhciPc, CommandOp, ControlOp
    <3>3. RestTypes'
      BY <1>0, <1>1, <1>2, <3>1, <3>2 DEF RestTypes, shared
    <3> QED
      BY <1>0, <1>2, <3>1, <3>2, <3>3 DEF StageInv, WaitInv, shared
  <2>3. CASE ControlDone
    <3>0. pc \in ControlOp /\ pc \notin BulkOp /\ pc # "ready"
      BY <2>3 DEF ControlDone, ControlOp, BulkOp
    <3>1. UNCHANGED <<slot, r_slot, result>> /\ port' \in Nat
      BY <1>0, <2>3, ControlSteps
    <3>2. CASE tx' = "again" /\ others' = 0 /\ UNCHANGED <<pc, port, wait>>
      <4>1. RestTypes'
        BY <1>0, <1>2, <3>1, <3>2 DEF RestTypes, shared, XhciTx
      <4> QED
        BY <1>0, <1>2, <3>0, <3>1, <3>2, <4>1 DEF StageInv, WaitInv, shared
    <3>3. CASE /\ tx' = "-" /\ wait' = "no" /\ UNCHANGED others
               /\ pc' \in ControlOp \union CommandOp \union {"next_child", "root_port", "inquiry"}
      <4>1. pc' \in XhciPc /\ pc' # "ready"
        BY <3>3 DEF XhciPc, ControlOp, CommandOp, BulkOp
      <4>2. RestTypes'
        BY <1>0, <1>2, <3>1, <3>3, <4>1 DEF RestTypes, shared, XhciTx
      <4> QED
        BY <1>0, <1>2, <3>0, <3>1, <3>3, <4>1, <4>2 DEF StageInv, WaitInv, shared
    <3> QED
      BY <1>0, <2>3, <3>2, <3>3, ControlSteps
  <2>4. CASE BulkDone \/ ClearDone
    <3>1. /\ pc \in BulkOp /\ UNCHANGED <<pc, port, slot, r_slot, others>> /\ wait' = "no"
          /\ result' = Verdict
      BY <2>4 DEF BulkDone, ClearDone, Taken, place
    <3>2. tx \in {"cbw", "data", "csw", "clear_out", "clear_in", "clear_csw"}
      BY <1>0, <1>1, <3>1 DEF WaitInv, RestTypes, XhciTx, ControlOp, BulkOp
    <3>3. tx' \in {"-", "clear_out", "clear_in", "clear_csw", "data", "csw"}
      BY <2>4, <3>2 DEF BulkDone, ClearDone, Clearing
    <3>4. result' \in {"none", "good", "bad"}
      BY <1>0, <3>1 DEF Verdict, RestTypes
    <3>5. RestTypes'
      BY <1>0, <1>2, <3>1, <3>3, <3>4 DEF RestTypes, shared, XhciTx
    <3>6. cmd.kind = pc
      BY <1>0, <3>1, <3>2 DEF StageInv
    <3>7. result' = "good" /\ tx' = "-" => mem.is = "csw" /\ mem.no = cmd.no
      BY <3>1 DEF Verdict, StatusGood
    <3> QED
      BY <1>0, <1>2, <3>1, <3>3, <3>5, <3>6, <3>7 DEF StageInv, WaitInv, shared
  <2> QED
    BY <2>1, <2>2, <2>3, <2>4 DEF Takes
<1> QED
  BY <1>1, <1>2, <1>3, <1>4, TypesJoin DEF XhciBase, CommandInv

(* Between two waits: the next command block, the next port, the next call *)
Moves == CommandReturns \/ TestRootPort \/ NextHubPort \/ CallRead \/ CallNextPort

LEMMA BuildKeeps ==
    ASSUME host = "xhci", XhciBase, BuildCBW, host' = host
    PROVE  XhciBase'
<1>0. /\ RingTypes /\ WorkTypes /\ DataTypes /\ RestTypes /\ DataInv /\ StageInv /\ RingInv
      /\ WaitInv /\ cmd.no \in Nat /\ disk.no \in Nat
  BY TypesSplit DEF XhciBase, CommandInv, DataTypes, Command, Disk
<1>1. /\ UNCHANGED <<slots, ring, enq, pcs, sent, halted, disk, faults, ev_deq, ev_ccs>>
      /\ UNCHANGED <<ports, pc, port, slot, r_slot, tries, wait, others, work, reads>>
      /\ tx = "-" /\ tx' = "cbw" /\ result' = "none" /\ pc \in BulkOp
      /\ dest' = IF pc = "read" THEN [no |-> 0, part |-> "old"] ELSE dest
  BY DEF BuildCBW, rest, hardware
<1>2. PICK s \in Sectors : NewCommand(pc, cmd.no + 1, s)
  BY DEF BuildCBW
<1>3. s \in {1, 8}
  BY DiskAssumption
<1>4. /\ cmd' = [kind |-> pc, no |-> cmd.no + 1, len |-> Packets(pc, s)]
      /\ mem' = [is |-> "cbw", no |-> cmd'.no, len |-> cmd'.len, ok |-> FALSE]
      /\ mem' = CBW(cmd')
  BY <1>2 DEF NewCommand, CBW
<1>5. pc \in Kind /\ Packets(pc, s) \in Nat /\ (pc = "read" => Packets(pc, s) > 0)
  BY <1>1, <1>3 DEF Packets, BulkOp, Kind
<1>6. cmd' \in Command /\ mem' \in Block
  BY <1>0, <1>4, <1>5 DEF Command, Block
<1>7. dest' \in [no : Nat, part : {"old", "some", "all"}]
  BY <1>0, <1>1 DEF DataTypes
<1>8. DataInv'
  <2>1. disk'.no < cmd'.no
    BY <1>0, <1>1, <1>4 DEF DataInv
  <2>2. mem'.is = "cbw"
    BY <1>4
  <2>3. cmd'.kind = "read" => cmd'.len > 0
    BY <1>4, <1>5
  <2>4. disk'.no \in Nat /\ cmd'.no \in Nat
    BY <1>0, <1>1, <1>4
  <2>5. disk'.no <= cmd'.no /\ disk'.no # cmd'.no
    BY <2>1, <2>4
  <2>6. mem' = CBW(cmd')
    BY <1>4
  <2> QED
    BY <2>2, <2>3, <2>5, <2>6 DEF DataInv
<1>9. RingTypes' /\ RingInv' /\ WorkTypes'
  BY <1>0, <1>1 DEF RingTypes, RingInv, WorkTypes
<1>10. RestTypes' /\ DataTypes'
  BY <1>0, <1>1, <1>6, <1>7 DEF RestTypes, XhciTx, DataTypes
<1>11. StageInv' /\ WaitInv'
  BY <1>0, <1>1, <1>4 DEF StageInv, WaitInv
<1> QED
  BY <1>8, <1>9, <1>10, <1>11, TypesJoin DEF XhciBase, CommandInv

LEMMA MoveFrame ==
    ASSUME Moves, host' = host
    PROVE  /\ UNCHANGED <<ports, r_slot, slots, tx, wait, others, eventVars, sent, work, halted>>
           /\ UNCHANGED <<host, disk, faults, mem, dest, cmd>>
BY DEF Moves, CommandReturns, TestRootPort, NextHubPort, CallRead, CallNextPort, shared, place,
       diskVars

LEMMA MoveKeeps ==
    ASSUME host = "xhci", XhciBase, Moves, host' = host
    PROVE  XhciBase'
<1>0. /\ RingTypes /\ WorkTypes /\ DataTypes /\ RestTypes /\ DataInv /\ StageInv /\ RingInv
      /\ WaitInv /\ port \in Nat
  BY TypesSplit DEF XhciBase, CommandInv, RestTypes
<1>1. /\ UNCHANGED <<ports, r_slot, slots, tx, wait, others, ring, ev_deq, ev_ccs, enq, pcs>>
      /\ UNCHANGED <<sent, work, halted, host, disk, faults, mem, dest, cmd>>
  BY MoveFrame DEF eventVars
<1>2. WorkTypes' /\ DataTypes' /\ DataInv' /\ RingTypes' /\ RingInv'
  BY <1>0, <1>1 DEF WorkTypes, DataTypes, DataInv, AllThere, RingTypes, RingInv
<1>3. RestTypes' /\ StageInv' /\ WaitInv'
  <2>1. CASE CommandReturns
    <3>1. /\ UNCHANGED <<port, slot, reads>> /\ tx = "-" /\ wait = "no" /\ result' = "none"
      BY <2>1 DEF CommandReturns, place, shared
    <3>2. TestTries \in Nat /\ TestTries > 0 /\ tries \in 0..TestTries
      BY <1>0, DiskAssumption DEF RestTypes
    <3>3. /\ pc' \in {"ready", "capacity", "sense", "reset", "idle"} /\ tries' \in 0..TestTries
          /\ pc' = "ready" => tries' < TestTries
      BY <1>0, <2>1, <3>2 DEF CommandReturns, StageInv
    <3>4. pc' \in XhciPc
      BY <3>3 DEF XhciPc, BulkOp
    <3> QED
      BY <1>0, <1>1, <3>1, <3>3, <3>4 DEF RestTypes, StageInv, WaitInv
  <2>2. CASE TestRootPort \/ NextHubPort \/ CallNextPort
    <3>1. /\ pc \in {"root_port", "next_child", "idle"} /\ UNCHANGED <<tries, result, reads>>
          /\ pc' \in {"no_disk", "enable_slot", "root_port", "root_status", "hub_port", "next_child"}
          /\ port' \in Nat /\ slot' \in {slot, r_slot}
      BY <1>0, <2>2 DEF TestRootPort, NextHubPort, CallNextPort, shared, HubSlot
    <3>2. pc \notin BulkOp \union ControlOp \union CommandOp /\ pc' \notin BulkOp
          /\ pc' \in XhciPc
      BY <3>1 DEF BulkOp, ControlOp, CommandOp, XhciPc
    <3>3. wait = "no" /\ tx = "-" /\ result = "none"
      BY <1>0, <3>2 DEF WaitInv, StageInv
    <3>4. RestTypes'
      BY <1>0, <1>1, <3>1, <3>2 DEF RestTypes
    <3> QED
      BY <1>0, <1>1, <3>1, <3>2, <3>3, <3>4 DEF StageInv, WaitInv
  <2>3. CASE CallRead
    <3>1. /\ pc = "idle" /\ UNCHANGED <<tries, result, port, slot>> /\ pc' = "read"
          /\ reads < MaxReads /\ reads' = reads + 1
      BY <1>0, <2>3 DEF CallRead, place
    <3>2. pc \notin BulkOp \union ControlOp \union CommandOp /\ pc' \in XhciPc
      BY <3>1 DEF BulkOp, ControlOp, CommandOp, XhciPc
    <3>3. wait = "no" /\ tx = "-" /\ result = "none"
      BY <1>0, <3>2 DEF WaitInv, StageInv
    <3>4. reads' \in 0..MaxReads
      BY <1>0, <3>1, DiskAssumption DEF RestTypes
    <3> QED
      BY <1>0, <1>1, <3>1, <3>2, <3>3, <3>4 DEF RestTypes, StageInv, WaitInv
  <2> QED
    BY <2>1, <2>2, <2>3 DEF Moves
<1> QED
  BY <1>2, <1>3, TypesJoin, <1>1 DEF XhciBase, CommandInv

(* The controller's other steps: commands, transfers that are passed over,
   changes of ports, and a device that hangs *)
Others == ServeCommand \/ PassOver \/ PortChange \/ FallSilent

LEMMA OtherFrame ==
    ASSUME Others, host' = host
    PROVE  UNCHANGED <<host, driverSide, disk, mem, dest, cmd, reads>>
BY DEF Others, ServeCommand, PassOver, PortChange, FallSilent, driverSide

LEMMA CommandServed ==
    ASSUME host = "xhci", XhciTypes, RingInv, ServeCommand
    PROVE  /\ slots' = slots + One(Head(work["cmd"]).what = "enable_slot")
           /\ UNCHANGED <<sent, halted, faults>>
           /\ work["cmd"] # <<>> /\ work' = [work EXCEPT !["cmd"] = Tail(@)]
           /\ RingTypes' /\ RingInv' /\ WorkTypes' /\ slots' \in Nat /\ OnTheWay' = OnTheWay + 1
           /\ \A i \in EventCell : IsPending(i)' =>
                 \/ IsPending(i) /\ ring'[i] = ring[i]
                 \/ /\ i = enq
                    /\ ring'[i].event = [type |-> "completion", code |-> "success", slot |-> slots']
<1>1. RingTypes /\ WorkTypes /\ slots \in Nat
  BY TypesGiven
<1>2. /\ work["cmd"] # <<>> /\ Done("cmd", "completion", "success", 1)
      /\ slots' = slots + One(Head(work["cmd"]).what = "enable_slot")
      /\ UNCHANGED <<sent, halted, faults>>
  BY <1>1 DEF ServeCommand, Works, One
<1>3. slots' \in Nat
  BY <1>1, <1>2 DEF One
<1>4. "cmd" \in Ring /\ 1 \in 1..2
  BY DEF Ring
<1> QED
  BY <1>1, <1>2, <1>3, <1>4, DoneRing, SMTT(30)

LEMMA PortChanged ==
    ASSUME host = "xhci", XhciTypes, RingInv, PortChange
    PROVE  /\ sent' = sent + 1 /\ sent' \in 0..PortEvents
           /\ UNCHANGED <<slots, work, halted, faults>>
           /\ RingTypes' /\ RingInv' /\ OnTheWay' = OnTheWay + 1
           /\ \A i \in EventCell : IsPending(i)' =>
                 \/ IsPending(i) /\ ring'[i] = ring[i]
                 \/ ring'[i].event.type = "port"
<1> DEFINE e == [NoEvent EXCEPT !.type = "port"]
           events == <<e>>
<1>1. RingTypes /\ sent \in 0..PortEvents /\ PortEvents \in Nat
  BY TypesGiven
<1>2. sent < PortEvents /\ sent' = sent + 1 /\ UNCHANGED <<slots, work, halted, faults>>
      /\ Put(events)
  BY DEF PortChange, Works
<1>3. e \in Event /\ e.type = "port"
  BY DEF NoEvent, Event
<1> HIDE DEF e
<1>4. events \in [1..1 -> Event] /\ events[1] = e
  BY <1>3
<1> HIDE DEF events
<1>5. /\ RingTypes' /\ RingInv' /\ OnTheWay' = OnTheWay + 1
      /\ \A i \in EventCell : IsPending(i)' =>
            \/ IsPending(i) /\ ring'[i] = ring[i]
            \/ i = enq /\ ring'[i].event = events[1]
            \/ 1 = 2 /\ ring'[i].event = events[2]
  BY <1>1, <1>2, <1>4, PutRing
<1> QED
  BY <1>1, <1>2, <1>3, <1>4, <1>5

LEMMA Passed ==
    ASSUME host = "xhci", XhciTypes, PassOver
    PROVE  /\ UNCHANGED <<slots, eventVars, sent, halted, faults>>
           /\ work["ep0"] # <<>> /\ work' = [work EXCEPT !["ep0"] = Tail(@)] /\ WorkTypes'
<1>1. WorkTypes /\ "ep0" \in Ring
  BY TypesGiven DEF Ring
<1>2. /\ UNCHANGED <<slots, eventVars, sent, halted, faults>>
      /\ work["ep0"] # <<>> /\ work' = [work EXCEPT !["ep0"] = Tail(@)]
  BY DEF PassOver, Works
<1>3. WorkTypes'
  BY <1>1, <1>2 DEF WorkTypes
<1> QED
  BY <1>2, <1>3

LEMMA OthersKeepBase ==
    ASSUME host = "xhci", XhciBase, Others, host' = host
    PROVE  XhciBase'
<1>0. /\ RingTypes /\ WorkTypes /\ DataTypes /\ RestTypes /\ DataInv /\ StageInv /\ RingInv
      /\ WaitInv /\ XhciTypes
  BY TypesSplit DEF XhciBase, CommandInv
<1>1. UNCHANGED <<host, ports, pc, tx, port, slot, r_slot, wait, others, tries, result,
                  disk, mem, dest, cmd, reads>>
  BY OtherFrame DEF driverSide
<1>2. DataTypes' /\ DataInv' /\ StageInv' /\ WaitInv'
  BY <1>0, <1>1 DEF DataTypes, DataInv, AllThere, StageInv, WaitInv
<1>3. RingTypes' /\ RingInv' /\ WorkTypes' /\ slots' \in Nat /\ sent' \in 0..PortEvents
      /\ faults' \in 0..MaxFaults /\ halted' \subseteq Ring \X Nat
  <2>0. slots \in Nat /\ sent \in 0..PortEvents /\ faults \in 0..MaxFaults /\ MaxFaults \in Nat
        /\ halted \subseteq Ring \X Nat /\ slot \in Nat
    BY <1>0, DiskAssumption DEF RestTypes
  <2>1. CASE ServeCommand
    BY <1>0, <2>0, <2>1, CommandServed
  <2>2. CASE PassOver
    BY <1>0, <2>0, <2>2, Passed DEF eventVars, RingTypes, RingInv
  <2>3. CASE PortChange
    BY <1>0, <2>0, <2>3, PortChanged DEF WorkTypes
  <2>4. CASE FallSilent
    <3>1. /\ UNCHANGED <<slots, ring, ev_deq, ev_ccs, enq, pcs, sent, work>>
          /\ faults < MaxFaults /\ faults' = faults + 1
          /\ halted' = halted \union Endpoints(slot)
      BY <2>4 DEF FallSilent, Fault, eventVars
    <3>2. Endpoints(slot) \subseteq Ring \X Nat
      BY <2>0 DEF Endpoints
    <3> QED
      BY <1>0, <2>0, <3>1, <3>2 DEF RingTypes, RingInv, WorkTypes
  <2> QED
    BY <2>1, <2>2, <2>3, <2>4 DEF Others
<1>4. RestTypes'
  BY <1>0, <1>1, <1>3 DEF RestTypes
<1> QED
  BY <1>1, <1>2, <1>3, <1>4, TypesJoin DEF XhciBase, CommandInv

LEMMA ServeRing ==
    ASSUME host = "xhci", XhciTypes, RingInv, NEW r \in Transfers, NEW code \in Codes,
           NEW n \in 1..2, Answer(r, code, n), slots' = slots
    PROVE  /\ RingTypes' /\ RingInv' /\ OnTheWay' = OnTheWay + n
           /\ \A i \in EventCell : IsPending(i)' =>
                 \/ IsPending(i) /\ ring'[i] = ring[i]
                 \/ ring'[i].event.type = "transfer"
           /\ WorkTypes' /\ work' = [work EXCEPT ![r] = Tail(@)]
<1>1. RingTypes /\ WorkTypes /\ slots' \in Nat /\ r \in Ring
  BY TypesGiven DEF Transfers
<1>2. work[r] # <<>> /\ Done(r, "transfer", code, n) /\ code \in {"success", "short", "stall", "error"}
  BY DEF Answer, Codes
<1> QED
  BY <1>1, <1>2, DoneRing

LEMMA ServeKeepsBase ==
    ASSUME host = "xhci", XhciBase, Serve, host' = host
    PROVE  XhciBase'
<1>0. /\ RestTypes /\ RingInv /\ WaitInv /\ XhciTypes /\ CommandInv
  BY TypesSplit DEF XhciBase
<1>1. /\ UNCHANGED <<ports, pc, tx, port, slot, r_slot, wait, others, tries, result,
                     slots, sent, cmd, reads>>
      /\ \E r \in Transfers, code \in Codes, n \in 1..2 : Answer(r, code, n)
      /\ halted' \subseteq Ring \X Nat /\ faults' \in faults..MaxFaults
  BY <1>0, ServeAnswers DEF driverSide
<1>2. RingTypes' /\ RingInv' /\ WorkTypes'
  BY <1>0, <1>1, ServeRing
<1>3. DataTypes' /\ CommandInv'
  BY <1>0, ServeKeepsData
<1>4. faults' \in 0..MaxFaults
  <2>1. faults \in 0..MaxFaults /\ MaxFaults \in Nat
    BY <1>0, DiskAssumption DEF RestTypes
  <2> QED
    BY <1>1, <2>1
<1>5. RestTypes' /\ WaitInv'
  BY <1>0, <1>1, <1>4 DEF RestTypes, WaitInv
<1> QED
  BY <1>2, <1>3, <1>5, TypesJoin DEF XhciBase

LEMMA XhciCases ==
    ASSUME XhciNext
    PROVE  host' = host /\ host = "xhci"
           /\ (Asks \/ Takes \/ BuildCBW \/ Moves \/ Others \/ Serve)
BY DEF XhciNext, Driver, Caller, Controller, Asks, AskCommand, Takes, Moves, Others, Serve

LEMMA XhciBaseStep ==
    ASSUME XhciBase, XhciNext
    PROVE  XhciBase'
BY XhciCases, AskKeeps, TakeKeeps, BuildKeeps, MoveKeeps, OthersKeepBase, ServeKeepsBase

-----------------------------------------------------------------------------
(* xHCI: how much is queued, in events that may come of it *)

Supply == Len(work["cmd"]) + Len(work["ep0"]) + Len(work["out"]) + Len(work["in"])
              + NumConf(work["ep0"])

(* the lengths of the queues *)
Total(w) == Len(w["cmd"]) + Len(w["ep0"]) + Len(w["out"]) + Len(w["in"])

LEMMA FourNats ==
    ASSUME NEW a \in Nat, NEW b \in Nat, NEW c \in Nat, NEW d \in Nat
    PROVE  a + b + c + d \in Nat
OBVIOUS

LEMMA SupplyNat ==
    ASSUME WorkTypes
    PROVE  /\ Supply \in Nat /\ NumConf(work["ep0"]) \in Nat /\ Total(work) \in Nat
           /\ Supply = Total(work) + NumConf(work["ep0"])
           /\ \A r \in Ring : work[r] \in Seq(Work) /\ Len(work[r]) \in Nat
<1>1. \A r \in Ring : work[r] \in Seq(Work) /\ Len(work[r]) \in Nat
  BY DEF WorkTypes
<1>2. "cmd" \in Ring /\ "ep0" \in Ring /\ "out" \in Ring /\ "in" \in Ring
  BY DEF Ring
<1>3. NumConf(work["ep0"]) \in Nat
  BY <1>1, <1>2, ConfsFinite
<1>4. Len(work["cmd"]) \in Nat /\ Len(work["ep0"]) \in Nat /\ Len(work["out"]) \in Nat
      /\ Len(work["in"]) \in Nat
  BY <1>1, <1>2
<1>5. Supply = Total(work) + NumConf(work["ep0"])
  BY DEF Supply, Total
<1>6. Total(work) \in Nat
  BY <1>4, FourNats, Zenon DEF Total
<1> QED
  BY <1>1, <1>3, <1>5, <1>6

LEMMA TotalChanges ==
    ASSUME WorkTypes, NEW r \in Ring, NEW q \in Seq(Work), work' = [work EXCEPT ![r] = q]
    PROVE  /\ Total(work') + Len(work[r]) = Total(work) + Len(q)
           /\ r # "ep0" => work'["ep0"] = work["ep0"]
           /\ r = "ep0" => work'["ep0"] = q
<1> DEFINE L(s) == Len(work[s])
           M(s) == Len(work'[s])
<1>1. \A s \in Ring : L(s) \in Nat
  BY SupplyNat
<1>2. \A s \in Ring : work'[s] = IF s = r THEN q ELSE work[s]
  BY DEF WorkTypes
<1>3. Len(q) \in Nat
  OBVIOUS
<1>4. \A s \in Ring : M(s) = IF s = r THEN Len(q) ELSE L(s)
  BY <1>2
<1>5. "cmd" \in Ring /\ "ep0" \in Ring /\ "out" \in Ring /\ "in" \in Ring
  BY DEF Ring
<1>6. /\ Total(work) = L("cmd") + L("ep0") + L("out") + L("in")
      /\ Total(work') = M("cmd") + M("ep0") + M("out") + M("in")
  BY DEF Total
<1> HIDE DEF L, M
<1>7. L("cmd") \in Nat /\ L("ep0") \in Nat /\ L("out") \in Nat /\ L("in") \in Nat
  BY <1>1, <1>5
<1>8. /\ M("cmd") = IF "cmd" = r THEN Len(q) ELSE L("cmd")
      /\ M("ep0") = IF "ep0" = r THEN Len(q) ELSE L("ep0")
      /\ M("out") = IF "out" = r THEN Len(q) ELSE L("out")
      /\ M("in") = IF "in" = r THEN Len(q) ELSE L("in")
  BY <1>4, <1>5
<1>9. r \in {"cmd", "ep0", "out", "in"}
  BY DEF Ring
<1>10. Total(work') + L(r) = Total(work) + Len(q)
  <2>1. CASE r = "cmd"
    BY <1>3, <1>6, <1>7, <1>8, <2>1
  <2>2. CASE r = "ep0"
    BY <1>3, <1>6, <1>7, <1>8, <2>2
  <2>3. CASE r = "out"
    BY <1>3, <1>6, <1>7, <1>8, <2>3
  <2>4. CASE r = "in"
    BY <1>3, <1>6, <1>7, <1>8, <2>4
  <2> QED
    BY <1>9, <2>1, <2>2, <2>3, <2>4
<1> QED
  BY <1>2, <1>5, <1>10 DEF L

LEMMA SupplyAppend ==
    ASSUME WorkTypes, NEW r \in Ring, NEW w \in Work, work' = [work EXCEPT ![r] = Append(@, w)]
    PROVE  Supply' = Supply + 1 + One(r = "ep0" /\ w.what = "conf")
<1> DEFINE q == Append(work[r], w)
           o == One(r = "ep0" /\ w.what = "conf")
<1>1. work[r] \in Seq(Work) /\ Len(work[r]) \in Nat /\ Supply \in Nat
      /\ NumConf(work["ep0"]) \in Nat /\ Total(work) \in Nat
      /\ Supply = Total(work) + NumConf(work["ep0"])
  BY SupplyNat
<1>2. q \in Seq(Work) /\ Len(q) = Len(work[r]) + 1
  BY <1>1
<1>3. work' = [work EXCEPT ![r] = q]
  OBVIOUS
<1> HIDE DEF q
<1>4. /\ Total(work') + Len(work[r]) = Total(work) + Len(q)
      /\ r # "ep0" => work'["ep0"] = work["ep0"]
      /\ r = "ep0" => work'["ep0"] = q
  BY <1>2, <1>3, TotalChanges
<1>5. WorkTypes'
  BY <1>2, <1>3 DEF WorkTypes
<1>6. Total(work') \in Nat /\ Supply' = Total(work') + NumConf(work'["ep0"])
  <2>1. \A s \in Ring : work'[s] \in Seq(Work) /\ Len(work'[s]) \in Nat
    BY <1>5 DEF WorkTypes
  <2>0. "cmd" \in Ring /\ "ep0" \in Ring /\ "out" \in Ring /\ "in" \in Ring
    BY DEF Ring
  <2>2. Total(work') \in Nat
    BY <2>0, <2>1, FourNats, Zenon DEF Total
  <2> QED
    BY <2>2 DEF Supply, Total
<1>7. NumConf(work'["ep0"]) = NumConf(work["ep0"]) + o /\ o \in Nat
  <2>1. CASE r = "ep0"
    <3>1. NumConf(q) = NumConf(work["ep0"]) + One(w.what = "conf")
      BY <1>1, <2>1, ConfsAppend DEF q
    <3> QED
      BY <1>4, <2>1, <3>1 DEF One
  <2>2. CASE r # "ep0"
    BY <1>1, <1>4, <2>2 DEF One
  <2> QED
    BY <2>1, <2>2
<1> HIDE DEF o
<1>8. Total(work') = Total(work) + 1
  BY <1>1, <1>2, <1>4, <1>6, SMTT(30)
<1>9. Supply' = Supply + 1 + o
  BY <1>1, <1>6, <1>7, <1>8
<1> QED
  BY <1>9 DEF o

LEMMA SupplyTail ==
    ASSUME WorkTypes, NEW r \in Ring, work[r] # <<>>, work' = [work EXCEPT ![r] = Tail(@)]
    PROVE  /\ Supply' + 1 + One(r = "ep0" /\ Head(work[r]).what = "conf") <= Supply
           /\ Supply' \in Nat
<1> DEFINE q == Tail(work[r])
           o == One(r = "ep0" /\ Head(work[r]).what = "conf")
<1>1. work[r] \in Seq(Work) /\ Len(work[r]) \in Nat /\ Supply \in Nat
      /\ NumConf(work["ep0"]) \in Nat /\ Total(work) \in Nat
      /\ Supply = Total(work) + NumConf(work["ep0"])
  BY SupplyNat
<1>2. q \in Seq(Work) /\ Len(q) \in Nat /\ Len(work[r]) = Len(q) + 1
  BY <1>1
<1>3. work' = [work EXCEPT ![r] = q]
  OBVIOUS
<1> HIDE DEF q
<1>4. /\ Total(work') + Len(work[r]) = Total(work) + Len(q)
      /\ r # "ep0" => work'["ep0"] = work["ep0"]
      /\ r = "ep0" => work'["ep0"] = q
  BY <1>2, <1>3, TotalChanges
<1>5. WorkTypes'
  BY <1>2, <1>3 DEF WorkTypes
<1>6. /\ Total(work') \in Nat /\ Supply' = Total(work') + NumConf(work'["ep0"])
      /\ NumConf(work'["ep0"]) \in Nat
  <2>1. \A s \in Ring : work'[s] \in Seq(Work) /\ Len(work'[s]) \in Nat
    BY <1>5 DEF WorkTypes
  <2>0. "cmd" \in Ring /\ "ep0" \in Ring /\ "out" \in Ring /\ "in" \in Ring
    BY DEF Ring
  <2>2. Total(work') \in Nat
    BY <2>0, <2>1, FourNats, Zenon DEF Total
  <2>3. NumConf(work'["ep0"]) \in Nat
    BY <2>1, ConfsFinite DEF Ring
  <2> QED
    BY <2>2, <2>3 DEF Supply, Total
<1>7. NumConf(work'["ep0"]) + o <= NumConf(work["ep0"]) /\ o \in Nat
  <2>1. CASE r = "ep0"
    <3>1. NumConf(q) + One(Head(work["ep0"]).what = "conf") <= NumConf(work["ep0"])
      BY <1>1, <2>1, ConfsTail DEF q
    <3> QED
      BY <1>4, <2>1, <3>1 DEF One
  <2>2. CASE r # "ep0"
    BY <1>1, <1>4, <2>2 DEF One
  <2> QED
    BY <2>1, <2>2
<1> HIDE DEF o
<1>8. Total(work') + 1 = Total(work)
  BY <1>1, <1>2, <1>4, <1>6, SMTT(30)
<1>9. Supply' + 1 + o <= Supply /\ Supply' \in Nat
  BY <1>1, <1>6, <1>7, <1>8
<1> QED
  BY <1>9 DEF o

-----------------------------------------------------------------------------
(* xHCI: a command has one completion.  It is queued, or its event is on its
   way, only while the driver waits for it; the event names the last slot that
   was given out. *)
Completes(i) == IsPending(i) /\ ring[i].event.type = "completion"
CompletionInv ==
    /\ work["cmd"] # <<>> =>
          wait = "completion" /\ Len(work["cmd"]) = 1 /\ Head(work["cmd"]).what = pc
    /\ \A i \in EventCell : Completes(i) =>
          /\ wait = "completion" /\ work["cmd"] = <<>> /\ ring[i].event.slot = slots
          /\ \A j \in EventCell : Completes(j) => j = i
    /\ wait = "completion" <=> pc \in CommandOp /\ wait # "no"

LEMMA CompletionFrame ==
    ASSUME CompletionInv, wait' = wait, pc' = pc, work'["cmd"] = work["cmd"], slots' = slots,
           \A i \in EventCell : Completes(i)' => Completes(i) /\ ring'[i] = ring[i]
    PROVE  CompletionInv'
BY DEF CompletionInv

LEMMA NothingPending ==
    ASSUME CompletionInv, wait # "completion"
    PROVE  work["cmd"] = <<>> /\ \A i \in EventCell : ~Completes(i)
BY DEF CompletionInv

LEMMA AskCompletion ==
    ASSUME host = "xhci", XhciBase, CompletionInv, Asks, host' = host
    PROVE  CompletionInv'
<1>0. RestTypes /\ WorkTypes
  BY TypesSplit DEF XhciBase
<1>1. /\ wait = "no" /\ UNCHANGED <<slots, ring, enq, pcs, ev_deq, ev_ccs, pc>>
  BY <1>0, AskTypes, AskCases DEF AskFrame, rest, hardware
<1>2. work["cmd"] = <<>> /\ \A i \in EventCell : ~Completes(i)
  BY <1>1, NothingPending
<1>3. \A i \in EventCell : ~Completes(i)'
  BY <1>1, <1>2 DEF Completes, IsPending
<1>4. "cmd" \in Ring /\ "ep0" \in Ring /\ "out" \in Ring /\ "in" \in Ring
  BY DEF Ring
<1>5. CASE pc \in CommandOp /\ Ask("cmd", pc, 1)
  <2>1. /\ wait' = "completion"
        /\ work' = [work EXCEPT !["cmd"] = Append(@, [what |-> pc, slot |-> slot, trbs |-> 1])]
    BY <1>5 DEF Ask, Queue
  <2>2. work'["cmd"] = <<[what |-> pc, slot |-> slot, trbs |-> 1]>>
    BY <1>0, <1>2, <1>4, <2>1 DEF WorkTypes
  <2>3. Len(work'["cmd"]) = 1 /\ Head(work'["cmd"]).what = pc
    BY <2>2
  <2> QED
    BY <1>1, <1>3, <1>5, <2>1, <2>3 DEF CompletionInv
<1>6. ASSUME NEW r \in {"ep0", "out", "in"}, NEW what, NEW n \in 1..2, Ask(r, what, n),
             pc \notin CommandOp
      PROVE  CompletionInv'
  <2>1. wait' = "transfer" /\ work'["cmd"] = work["cmd"]
    BY <1>0, <1>4, <1>6 DEF Ask, Queue, WorkTypes
  <2> QED
    BY <1>1, <1>2, <1>3, <1>6, <2>1 DEF CompletionInv
<1>7. \/ pc \in CommandOp /\ Ask("cmd", pc, 1)
      \/ \E r \in {"ep0", "out", "in"}, n \in 1..2 :
            pc \in ControlOp \union BulkOp /\ \E what \in {"ctrl", "conf", "cbw", "data", "csw"} : Ask(r, what, n)
  <2>1. 1 \in 1..2 /\ (IF pc = "conf" THEN "conf" ELSE "ctrl") \in {"ctrl", "conf", "cbw", "data", "csw"}
    OBVIOUS
  <2> QED
    BY <2>1, AskCases
<1>8. pc \in ControlOp \union BulkOp => pc \notin CommandOp
  BY DEF ControlOp, BulkOp, CommandOp
<1> QED
  BY <1>5, <1>6, <1>7, <1>8

LEMMA TakeCompletion ==
    ASSUME host = "xhci", XhciBase, CompletionInv, Takes, host' = host
    PROVE  CompletionInv'
<1>0. RestTypes /\ RingTypes /\ RingInv /\ port \in Nat /\ ev_deq \in EventCell
  BY TypesSplit DEF XhciBase, RestTypes, RingTypes
<1>1. /\ Ready /\ ring' = ring /\ IsPending(ev_deq) /\ wait # "no"
      /\ \A i \in EventCell : IsPending(i)' => IsPending(i) /\ i # ev_deq
  BY <1>0, TakeRing, AckRing
<1>2. UNCHANGED <<slots, work>>
  BY TakeFrame
<1>3. \A i \in EventCell : Completes(i)' => Completes(i) /\ i # ev_deq
  BY <1>1 DEF Completes
<1>4. CASE DropEvent
  <2>1. wait' = wait /\ pc' = pc
    BY <1>4 DEF DropEvent
  <2> QED
    BY <1>1, <1>2, <1>3, <2>1, CompletionFrame
<1>5. CASE CommandDone
  <2>1. wait' = "no" /\ pc \in CommandOp /\ next_event.type = wait
    BY <1>5 DEF CommandDone, Taken
  <2>2. Completes(ev_deq) /\ wait = "completion"
    BY <1>1, <2>1 DEF Completes, next_event, CompletionInv
  <2>3. \A i \in EventCell : ~Completes(i)'
    BY <1>0, <1>3, <2>2 DEF CompletionInv
  <2>4. work'["cmd"] = <<>>
    BY <1>0, <1>2, <2>2 DEF CompletionInv
  <2> QED
    BY <2>1, <2>3, <2>4 DEF CompletionInv
<1>6. CASE ControlDone \/ BulkDone \/ ClearDone
  <2>1. pc \in ControlOp \union BulkOp
    BY <1>6 DEF ControlDone, BulkDone, ClearDone
  <2>2. wait # "completion"
    BY <2>1 DEF CompletionInv, ControlOp, BulkOp, CommandOp
  <2>3. work'["cmd"] = <<>> /\ \A i \in EventCell : ~Completes(i)'
    BY <1>2, <1>3, <2>2, NothingPending
  <2>4. wait' = "no" \/ (wait' = wait /\ pc' = pc)
    BY <1>0, <1>6, ControlSteps DEF BulkDone, ClearDone, Taken
  <2> QED
    BY <2>2, <2>3, <2>4 DEF CompletionInv
<1> QED
  BY <1>4, <1>5, <1>6 DEF Takes

LEMMA MoveCompletion ==
    ASSUME host = "xhci", XhciBase, CompletionInv, Moves \/ BuildCBW, host' = host
    PROVE  CompletionInv'
<1>0. RestTypes /\ WaitInv
  BY TypesSplit DEF XhciBase
<1>1. CASE BuildCBW
  <2>1. UNCHANGED <<slots, ring, enq, pcs, ev_deq, ev_ccs, pc, wait, work>>
    BY <1>1 DEF BuildCBW, rest, hardware
  <2> QED
    BY <2>1, CompletionFrame DEF Completes, IsPending
<1>2. CASE Moves
  <2>1. UNCHANGED <<slots, ring, enq, pcs, ev_deq, ev_ccs, wait, work>>
    BY <1>2, MoveFrame DEF eventVars
  <2>2. wait = "no"
    <3>1. CASE CommandReturns
      BY <3>1 DEF CommandReturns
    <3>2. CASE pc \in {"root_port", "next_child", "idle"}
      BY <1>0, <3>2 DEF WaitInv, CommandOp, ControlOp, BulkOp
    <3> QED
      BY <1>2, <3>1, <3>2 DEF Moves, TestRootPort, NextHubPort, CallRead, CallNextPort
  <2>3. work["cmd"] = <<>> /\ \A i \in EventCell : ~Completes(i)
    BY <2>2, NothingPending
  <2>4. \A i \in EventCell : ~Completes(i)'
    BY <2>1, <2>3 DEF Completes, IsPending
  <2> QED
    BY <2>1, <2>2, <2>3, <2>4 DEF CompletionInv
<1> QED
  BY <1>1, <1>2

LEMMA OtherCompletion ==
    ASSUME host = "xhci", XhciBase, CompletionInv, Others, host' = host
    PROVE  CompletionInv'
<1>0. XhciTypes /\ RingInv /\ WorkTypes /\ RingTypes /\ "cmd" \in Ring
  BY TypesSplit DEF XhciBase, Ring
<1>1. UNCHANGED <<pc, wait>>
  BY OtherFrame DEF driverSide
<1>2. CASE ServeCommand
  <2>1. /\ work["cmd"] # <<>> /\ work' = [work EXCEPT !["cmd"] = Tail(@)]
        /\ \A i \in EventCell : IsPending(i)' =>
                 \/ IsPending(i) /\ ring'[i] = ring[i]
                 \/ /\ i = enq
                    /\ ring'[i].event = [type |-> "completion", code |-> "success", slot |-> slots']
    BY <1>0, <1>2, CommandServed
  <2>2. wait = "completion" /\ Len(work["cmd"]) = 1
    BY <2>1 DEF CompletionInv
  <2>3. work["cmd"] \in Seq(Work)
    BY <1>0 DEF WorkTypes
  <2>4. work'["cmd"] = <<>>
    <3>1. work'["cmd"] = Tail(work["cmd"])
      BY <1>0, <2>1 DEF WorkTypes
    <3>2. Tail(work["cmd"]) \in Seq(Work) /\ Len(Tail(work["cmd"])) = 0
      BY <2>1, <2>2, <2>3
    <3> QED
      BY <3>1, <3>2, EmptySeq
  <2>5. \A i \in EventCell : ~Completes(i)
    BY <2>1 DEF CompletionInv
  <2>6. \A i \in EventCell : Completes(i)' => i = enq /\ ring'[i].event.slot = slots'
    BY <2>1, <2>5 DEF Completes
  <2> QED
    BY <1>1, <2>2, <2>4, <2>6 DEF CompletionInv
<1>3. CASE PassOver
  <2>1. UNCHANGED <<slots, eventVars>> /\ work' = [work EXCEPT !["ep0"] = Tail(@)]
    BY <1>0, <1>3, Passed
  <2>2. work'["cmd"] = work["cmd"]
    BY <1>0, <2>1 DEF WorkTypes
  <2> QED
    BY <1>1, <2>1, <2>2, CompletionFrame DEF Completes, IsPending, eventVars
<1>4. CASE PortChange
  <2>1. /\ UNCHANGED <<slots, work>>
        /\ \A i \in EventCell : IsPending(i)' =>
                 \/ IsPending(i) /\ ring'[i] = ring[i]
                 \/ ring'[i].event.type = "port"
    BY <1>0, <1>4, PortChanged
  <2>2. \A i \in EventCell : Completes(i)' => Completes(i) /\ ring'[i] = ring[i]
    BY <2>1 DEF Completes
  <2> QED
    BY <1>1, <2>1, <2>2, CompletionFrame
<1>5. CASE FallSilent
  <2>1. UNCHANGED <<slots, work, eventVars>>
    BY <1>5 DEF FallSilent
  <2> QED
    BY <1>1, <2>1, CompletionFrame DEF Completes, IsPending, eventVars
<1> QED
  BY <1>2, <1>3, <1>4, <1>5 DEF Others

LEMMA ServeCompletion ==
    ASSUME host = "xhci", XhciBase, CompletionInv, Serve, host' = host
    PROVE  CompletionInv'
<1>0. XhciTypes /\ RingInv /\ WorkTypes /\ "cmd" \in Ring
  BY TypesSplit DEF XhciBase, Ring
<1>1. UNCHANGED <<pc, wait, slots>>
  BY <1>0, ServeAnswers DEF driverSide
<1>2. PICK r \in Transfers, code \in Codes, n \in 1..2 : Answer(r, code, n)
  BY <1>0, ServeAnswers
<1>3. /\ work' = [work EXCEPT ![r] = Tail(@)]
      /\ \A i \in EventCell : IsPending(i)' =>
            \/ IsPending(i) /\ ring'[i] = ring[i]
            \/ ring'[i].event.type = "transfer"
  BY <1>0, <1>1, <1>2, ServeRing
<1>4. work'["cmd"] = work["cmd"]
  BY <1>0, <1>3 DEF WorkTypes, Transfers
<1>5. \A i \in EventCell : Completes(i)' => Completes(i) /\ ring'[i] = ring[i]
  BY <1>3 DEF Completes
<1> QED
  BY <1>1, <1>4, <1>5, CompletionFrame

LEMMA CompletionStep ==
    ASSUME XhciBase, CompletionInv, XhciNext
    PROVE  CompletionInv'
BY XhciCases, AskCompletion, TakeCompletion, MoveCompletion, OtherCompletion, ServeCompletion

-----------------------------------------------------------------------------
(* xHCI: slots.  A root port gets the first, and each port of the hub one at
   most. *)

(* a slot was given out that the driver has not heard of *)
Given == pc = "enable_slot" /\ wait = "completion" /\ work["cmd"] = <<>>
NoSlotYet ==
    /\ slot = 0 /\ pc \in {"root_port", "enable_slot", "no_disk"} /\ slots = One(Given)
    /\ pc = "enable_slot" => port \in 1..Len(ports.root) /\ Usable(ports.root[port])
AtRoot ==
    /\ slots = 1
    /\ IF pc \in {"root_port", "root_status"}
       THEN \E p \in 1..Len(ports.root) : p < port /\ ports.root[p] = "other"
       ELSE port \in 1..Len(ports.root) /\ Usable(ports.root[port])
AtHub ==
    /\ port \in 1..Len(ports.hub) /\ slots <= 1 + port
    /\ pc \notin {"root_port", "root_status", "hub_port", "enable_slot", "hub_desc",
                  "hub_configure", "hub_power"}
FirstSlot ==
    /\ slot \in 1..slots /\ slots <= 1 + Len(ports.hub)
    /\ slot = 1 /\ pc \notin {"next_child", "hub_port", "enable_slot", "no_disk"} => AtRoot
    /\ slot # 1 /\ pc # "next_child" => AtHub
    /\ pc \in {"next_child", "hub_port"} => slots <= port
    /\ pc = "hub_port" => port <= Len(ports.hub)
    /\ pc = "enable_slot" =>
          /\ port \in 1..Len(ports.hub) /\ slots <= port + One(Given)
          /\ Given => slots > 1
SlotInv ==
    /\ OneDevice /\ port > 0
    /\ (r_slot = 0 /\ NoSlotYet) \/ (r_slot = 1 /\ FirstSlot)

LEMMA SlotFrame ==
    ASSUME SlotInv, UNCHANGED <<ports, port, slot, r_slot, slots, pc>>, Given' <=> Given
    PROVE  SlotInv'
<1>1. One(Given)' = One(Given)
  BY DEF One
<1>2. OneDevice' /\ port' > 0
  BY DEF SlotInv, OneDevice
<1>3. CASE r_slot = 0 /\ NoSlotYet
  BY <1>1, <1>2, <1>3 DEF SlotInv, NoSlotYet
<1>4. CASE r_slot = 1 /\ FirstSlot
  <2>1. AtRoot' <=> AtRoot
    BY DEF AtRoot
  <2>2. AtHub' <=> AtHub
    BY DEF AtHub
  <2> QED
    BY <1>1, <1>2, <1>4, <2>1, <2>2 DEF SlotInv, FirstSlot
<1> QED
  BY <1>3, <1>4 DEF SlotInv

LEMMA PortFacts ==
    ASSUME ports \in Roots
    PROVE  /\ Len(ports.root) \in Nat /\ Len(ports.hub) \in Nat
           /\ \A p \in 1..Len(ports.root) : ports.root[p] \in Port
           /\ \A p \in 1..Len(ports.hub) : ports.hub[p] \in Port /\ ports.hub[p] # "hub"
           /\ OneDevice => \A p, q \in 1..Len(ports.root) :
                              Usable(ports.root[p]) /\ Usable(ports.root[q]) => p = q
<1>1. ports.root \in Seq(Port) /\ ports.hub \in Seq(Port \ {"hub"})
  BY DiskAssumption
<1>2. Len(ports.root) \in Nat /\ \A p \in 1..Len(ports.root) : ports.root[p] \in Port
  BY <1>1
<1>3. /\ Len(ports.hub) \in Nat
      /\ \A p \in 1..Len(ports.hub) : ports.hub[p] \in Port /\ ports.hub[p] # "hub"
  BY <1>1
<1>4. ASSUME OneDevice, NEW p \in 1..Len(ports.root), NEW q \in 1..Len(ports.root),
             Usable(ports.root[p]), Usable(ports.root[q])
      PROVE  p = q
  <2>1. ports.root[p] \in {"disk", "hub", "other"} /\ ports.root[q] \in {"disk", "hub", "other"}
    BY <1>2, <1>4 DEF Usable, Port
  <2>2. p \in DOMAIN ports.root /\ q \in DOMAIN ports.root
    BY <1>1
  <2> QED
    BY <1>4, <2>1, <2>2 DEF OneDevice, Holding
<1> QED
  BY <1>2, <1>3, <1>4

LEMMA AskNotGiven ==
    ASSUME host = "xhci", XhciBase, Asks, host' = host
    PROVE  ~Given /\ ~Given'
<1>0. RestTypes /\ WorkTypes /\ "cmd" \in Ring
  BY TypesSplit DEF XhciBase, Ring
<1>1. wait = "no" /\ pc' = pc
  BY <1>0, AskTypes, AskCases DEF AskFrame
<1>2. pc = "enable_slot" => work'["cmd"] # <<>>
  <2>1. SUFFICES ASSUME pc = "enable_slot" PROVE work'["cmd"] # <<>>
    OBVIOUS
  <2>2. Ask("cmd", pc, 1)
    BY <2>1, AskCases DEF CommandOp, ControlOp, BulkOp
  <2>3. work' = [work EXCEPT !["cmd"] = Append(@, [what |-> pc, slot |-> slot, trbs |-> 1])]
    BY <2>2 DEF Ask, Queue
  <2>4. work["cmd"] \in Seq(Work)
    BY <1>0 DEF WorkTypes
  <2>5. [what |-> pc, slot |-> slot, trbs |-> 1] \in Work
    BY <1>0, <2>1 DEF Work, CommandOp, RestTypes
  <2>6. work'["cmd"] = Append(work["cmd"], [what |-> pc, slot |-> slot, trbs |-> 1])
    BY <1>0, <2>3 DEF WorkTypes
  <2> HIDE DEF Work
  <2> QED
    BY <2>4, <2>5, <2>6
<1> QED
  BY <1>1, <1>2 DEF Given

LEMMA AskSlot ==
    ASSUME host = "xhci", XhciBase, SlotInv, Asks, host' = host
    PROVE  SlotInv'
<1>1. UNCHANGED <<ports, port, slot, r_slot, slots, pc>>
  BY AskCases DEF AskFrame, rest, hardware
<1> QED
  BY <1>1, AskNotGiven, SlotFrame

LEMMA CommandSlot ==
    ASSUME host = "xhci", XhciBase, CompletionInv, SlotInv, CommandDone, host' = host
    PROVE  SlotInv'
<1>0. /\ RestTypes /\ RingTypes /\ RingInv /\ port \in Nat /\ ev_deq \in EventCell /\ slots \in Nat
      /\ ports \in Roots
  BY TypesSplit DEF XhciBase, RestTypes, RingTypes
<1>1. IsPending(ev_deq) /\ UNCHANGED <<ports, port, slots>> /\ OneDevice' /\ port' > 0
  BY <1>0, TakeRing, AckRing DEF Takes, CommandDone, SlotInv, OneDevice
<1>2. /\ pc \in CommandOp /\ pc' = AfterCommand[pc] /\ next_event.type = wait /\ wait' = "no"
      /\ wait # "no"
      /\ slot' = IF pc = "enable_slot" THEN next_event.slot ELSE slot
      /\ r_slot' = IF pc = "enable_slot" /\ r_slot = 0 THEN next_event.slot ELSE r_slot
  BY DEF CommandDone, Taken, Ready
<1>3. wait = "completion" /\ work["cmd"] = <<>> /\ next_event.slot = slots
  <2>1. wait = "completion"
    BY <1>2 DEF CompletionInv
  <2>2. Completes(ev_deq)
    BY <1>1, <1>2, <2>1 DEF Completes, next_event
  <2> QED
    BY <1>0, <2>1, <2>2 DEF CompletionInv, next_event
<1>4. CASE pc = "enable_slot"
  <2>1. Given /\ slot' = slots /\ pc' = "set_address" /\ One(Given) = 1
    BY <1>2, <1>3, <1>4 DEF Given, AfterCommand, One, CommandOp
  <2>2. CASE r_slot = 0 /\ NoSlotYet
    <3>1. r_slot' = 1 /\ slot' = 1 /\ slots' = 1 /\ AtRoot'
      BY <1>1, <1>2, <1>3, <1>4, <2>1, <2>2 DEF NoSlotYet, AtRoot
    <3> QED
      BY <1>0, <1>1, <2>1, <3>1, PortFacts DEF SlotInv, FirstSlot
  <2>3. CASE r_slot = 1 /\ FirstSlot
    <3>0. slots > 1 /\ port \in 1..Len(ports.hub) /\ slots <= port + One(Given)
      BY <1>4, <2>1, <2>3 DEF FirstSlot
    <3>1. r_slot' = 1 /\ slot' = slots /\ slots > 1 /\ port \in 1..Len(ports.hub)
          /\ slots <= port + 1
      <4>1. r_slot' = r_slot
        BY <1>2, <2>3
      <4>2. One(Given) = 1
        BY <2>1
      <4> QED
        BY <2>1, <2>3, <3>0, <4>1, <4>2
    <3>2. AtHub'
      BY <1>0, <1>1, <2>1, <3>1, PortFacts DEF AtHub
    <3> QED
      BY <1>0, <1>1, <2>1, <2>3, <3>1, <3>2 DEF SlotInv, FirstSlot
  <2> QED
    BY <2>2, <2>3 DEF SlotInv
<1>5. CASE pc # "enable_slot"
  <2>1. /\ slot' = slot /\ r_slot' = r_slot
        /\ pc \in {"set_address", "configure", "hub_configure"}
        /\ pc' \in {"dev_desc", "set_conf", "hub_power"}
        /\ pc' = "hub_power" => pc = "hub_configure"
    BY <1>2, <1>5 DEF AfterCommand, CommandOp
  <2>2. r_slot = 1 /\ FirstSlot
    BY <2>1 DEF SlotInv, NoSlotYet
  <2>3. slot = 1 => AtRoot'
    BY <1>1, <2>1, <2>2 DEF FirstSlot, AtRoot
  <2>4. slot # 1 => AtHub'
    BY <1>1, <2>1, <2>2 DEF FirstSlot, AtHub
  <2> QED
    BY <1>1, <2>1, <2>2, <2>3, <2>4 DEF SlotInv, FirstSlot
<1> QED
  BY <1>4, <1>5

LEMMA ControlSlot ==
    ASSUME host = "xhci", XhciBase, SlotInv, ControlDone, host' = host
    PROVE  SlotInv'
<1>0. /\ RestTypes /\ port \in Nat /\ slots \in Nat /\ ports \in Roots /\ slot \in Nat
  BY TypesSplit DEF XhciBase, RestTypes
<1>1. /\ UNCHANGED <<ports, slot, r_slot, slots>> /\ OneDevice' /\ OneDevice /\ port > 0
      /\ pc \in ControlOp
  BY <1>0, ControlSteps DEF SlotInv, OneDevice, ControlDone
<1>2. r_slot = 1 /\ FirstSlot
  BY <1>1 DEF SlotInv, NoSlotYet, ControlOp
<1>a. slot \in 1..slots /\ slots <= 1 + Len(ports.hub) /\ Len(ports.hub) \in Nat
      /\ Len(ports.root) \in Nat
  BY <1>0, <1>2, PortFacts DEF FirstSlot
<1>b. OnHub <=> slot # 1
  BY <1>0, <1>2 DEF OnHub
<1>3. CASE OneMore(next_event)
  <2>1. UNCHANGED <<pc, port>>
    BY <1>3 DEF ControlDone
  <2>2. ~Given /\ ~Given'
    BY <1>1, <2>1 DEF Given, ControlOp
  <2> QED
    BY <1>1, <2>1, <2>2, SlotFrame
<1>4. CASE ~OneMore(next_event)
  <2>0. wait' = "no" /\ ~Given'
    BY <1>4 DEF ControlDone, Given
  <2>1. ASSUME UNCHANGED port, pc \notin {"hub_port", "root_status"},
               pc' \in {"conf_len", "conf", "configure", "hub_desc", "hub_configure", "max_lun", "inquiry"},
               pc' \in {"hub_desc", "hub_configure"} => slot = 1
        PROVE  SlotInv'
    <3>1. slot = 1 => AtRoot'
      BY <1>1, <1>2, <2>1 DEF FirstSlot, AtRoot, ControlOp
    <3>2. slot # 1 => AtHub'
      BY <1>1, <1>2, <2>1 DEF FirstSlot, AtHub, ControlOp
    <3> QED
      BY <1>1, <1>2, <1>a, <2>1, <3>1, <3>2 DEF SlotInv, FirstSlot
  <2>2. CASE pc = "conf_len"
    <3>1. /\ pc' = IF Device # "other" THEN "conf" ELSE IF OnHub THEN "next_child" ELSE "root_port"
          /\ port' = IF Device = "other" THEN port + 1 ELSE port
      BY <1>4, <2>2 DEF ControlDone
    <3>2. CASE Device # "other"
      BY <2>1, <2>2, <3>1, <3>2
    <3>3. CASE Device = "other" /\ OnHub
      <4>1. pc' = "next_child" /\ port' = port + 1 /\ AtHub
        BY <1>2, <1>b, <2>2, <3>1, <3>3 DEF FirstSlot
      <4>2. slots <= port'
        BY <1>0, <4>1 DEF AtHub
      <4> QED
        BY <1>0, <1>1, <1>2, <1>a, <4>1, <4>2 DEF SlotInv, FirstSlot
    <3>4. CASE Device = "other" /\ ~OnHub
      <4>1. pc' = "root_port" /\ port' = port + 1 /\ AtRoot /\ slot = 1
        BY <1>2, <1>b, <2>2, <3>1, <3>4 DEF FirstSlot
      <4>2. port \in 1..Len(ports.root) /\ ports.root[port] = "other" /\ slots = 1
        BY <2>2, <3>4, <4>1 DEF AtRoot, Device
      <4>3. AtRoot'
        BY <1>0, <1>1, <4>1, <4>2 DEF AtRoot
      <4> QED
        BY <1>0, <1>1, <1>2, <1>a, <4>1, <4>3 DEF SlotInv, FirstSlot
    <3> QED
      BY <3>2, <3>3, <3>4
  <2>3. CASE pc = "set_conf"
    <3>1. pc' = (IF Device = "hub" THEN "hub_desc" ELSE "max_lun") /\ UNCHANGED port
      BY <1>4, <2>3 DEF ControlDone
    <3>2. Device = "hub" => slot = 1
      <4>1. SUFFICES ASSUME slot # 1 PROVE Device # "hub"
        OBVIOUS
      <4>2. port \in 1..Len(ports.hub)
        BY <1>2, <2>3, <4>1 DEF FirstSlot, AtHub
      <4> QED
        BY <1>0, <1>b, <4>1, <4>2, PortFacts DEF Device
    <3> QED
      BY <2>1, <2>3, <3>1, <3>2
  <2>4. CASE pc = "hub_power"
    <3>1. pc' = "next_child" /\ port' = 1
      BY <1>4, <2>4 DEF ControlDone
    <3>2. slot = 1 /\ slots = 1
      BY <1>2, <2>4 DEF FirstSlot, AtHub, AtRoot
    <3> QED
      BY <1>1, <1>2, <1>a, <3>1, <3>2 DEF SlotInv, FirstSlot
  <2>5. CASE pc = "hub_port"
    <3>1. \/ pc' = "enable_slot" /\ UNCHANGED port
          \/ pc' = "next_child" /\ port' = port + 1
      BY <1>4, <2>5 DEF ControlDone
    <3>2. slot = 1 /\ slots <= port /\ port <= Len(ports.hub)
      BY <1>2, <2>5 DEF FirstSlot, AtHub
    <3>3. One(Given)' = 0
      BY <2>0 DEF One
    <3>4. CASE pc' = "enable_slot" /\ UNCHANGED port
      BY <1>0, <1>1, <1>2, <1>a, <2>0, <3>2, <3>3, <3>4 DEF SlotInv, FirstSlot
    <3>5. CASE pc' = "next_child" /\ port' = port + 1
      BY <1>0, <1>1, <1>2, <1>a, <3>2, <3>5 DEF SlotInv, FirstSlot
    <3> QED
      BY <3>1, <3>4, <3>5
  <2>6. CASE pc \in {"dev_desc", "conf", "max_lun", "hub_desc"}
    <3>1. pc' = AfterControl[pc] /\ UNCHANGED port
      BY <1>4, <2>6 DEF ControlDone
    <3>2. pc = "hub_desc" => slot = 1
      BY <1>2 DEF FirstSlot, AtHub
    <3> QED
      BY <2>1, <2>6, <3>1, <3>2 DEF AfterControl
  <2>7. CASE pc = "root_status"
    <3>1. pc' = "root_port" /\ port' = port + 1
      BY <1>4, <2>7 DEF ControlDone
    <3>2. slot = 1 /\ AtRoot
      BY <1>2, <2>7 DEF FirstSlot, AtHub
    <3>3. PICK p \in 1..Len(ports.root) : p < port /\ ports.root[p] = "other"
      BY <2>7, <3>2 DEF AtRoot
    <3>4. p < port'
      BY <1>0, <1>a, <3>1, <3>3
    <3>5. AtRoot'
      BY <1>1, <3>1, <3>2, <3>3, <3>4 DEF AtRoot
    <3> QED
      BY <1>0, <1>1, <1>2, <1>a, <3>1, <3>2, <3>5 DEF SlotInv, FirstSlot
  <2> QED
    BY <1>1, <2>2, <2>3, <2>4, <2>5, <2>6, <2>7 DEF ControlOp
<1> QED
  BY <1>3, <1>4

LEMMA BulkSlot ==
    ASSUME host = "xhci", XhciBase, SlotInv, BulkDone \/ ClearDone \/ DropEvent \/ BuildCBW, host' = host
    PROVE  SlotInv'
<1>1. UNCHANGED <<ports, port, slot, r_slot, slots, pc>>
  BY DEF BulkDone, ClearDone, DropEvent, BuildCBW, place, rest, hardware
<1>2. Given' <=> Given
  <2>1. CASE pc \in BulkOp
    BY <1>1, <2>1 DEF Given, BulkOp
  <2>2. CASE DropEvent
    BY <1>1, <2>2 DEF Given, DropEvent
  <2> QED
    BY <2>1, <2>2 DEF BulkDone, ClearDone, BuildCBW
<1> QED
  BY <1>1, <1>2, SlotFrame

LEMMA MoveSlot ==
    ASSUME host = "xhci", XhciBase, SlotInv, Moves, host' = host
    PROVE  SlotInv'
<1>0. /\ RestTypes /\ WaitInv /\ port \in Nat /\ slots \in Nat /\ ports \in Roots /\ slot \in Nat
      /\ Len(ports.root) \in Nat /\ Len(ports.hub) \in Nat
  BY TypesSplit, PortFacts DEF XhciBase, RestTypes
<1>1. UNCHANGED <<ports, r_slot, slots, wait, work>> /\ OneDevice' /\ port > 0
  BY MoveFrame DEF SlotInv, OneDevice
<1>2. wait = "no"
  <2>1. CASE CommandReturns
    BY <2>1 DEF CommandReturns
  <2>2. CASE pc \in {"root_port", "next_child", "idle"}
    BY <1>0, <2>2 DEF WaitInv, CommandOp, ControlOp, BulkOp
  <2> QED
    BY <2>1, <2>2 DEF Moves, TestRootPort, NextHubPort, CallRead, CallNextPort
<1>3. ~Given /\ ~Given' /\ One(Given) = 0 /\ One(Given)' = 0
  BY <1>1, <1>2 DEF Given, One
<1>4. CASE CommandReturns \/ CallRead
  <2>1. /\ UNCHANGED <<port, slot>> /\ pc \in BulkOp \union {"idle"}
        /\ pc' \in {"ready", "sense", "capacity", "idle", "reset", "read"}
    BY <1>4 DEF CommandReturns, CallRead, place
  <2>2. r_slot = 1 /\ FirstSlot
    BY <2>1 DEF SlotInv, NoSlotYet, BulkOp
  <2>3. slot = 1 => AtRoot'
    BY <1>1, <2>1, <2>2 DEF FirstSlot, AtRoot, BulkOp
  <2>4. slot # 1 => AtHub'
    BY <1>1, <2>1, <2>2 DEF FirstSlot, AtHub, BulkOp
  <2> QED
    BY <1>1, <2>1, <2>2, <2>3, <2>4 DEF SlotInv, FirstSlot
<1>5. CASE CallNextPort
  <2>1. pc = "idle" /\ OnHub /\ pc' = "next_child" /\ port' = port + 1 /\ UNCHANGED slot
    BY <1>5 DEF CallNextPort
  <2>2. r_slot = 1 /\ FirstSlot /\ slot # 1
    BY <2>1 DEF SlotInv, NoSlotYet, OnHub
  <2>3. AtHub
    BY <2>1, <2>2 DEF FirstSlot
  <2>4. slots <= port'
    BY <1>0, <2>1, <2>3 DEF AtHub
  <2> QED
    BY <1>0, <1>1, <2>1, <2>2, <2>4 DEF SlotInv, FirstSlot
<1>6. CASE NextHubPort
  <2>1. /\ pc = "next_child" /\ slot' = r_slot /\ UNCHANGED port
        /\ pc' = IF port > Len(ports.hub) THEN "no_disk" ELSE "hub_port"
    BY <1>6 DEF NextHubPort, HubSlot
  <2>2. r_slot = 1 /\ FirstSlot
    BY <2>1 DEF SlotInv, NoSlotYet
  <2>3. slot \in 1..slots /\ slots <= 1 + Len(ports.hub) /\ slots <= port
    BY <2>1, <2>2 DEF FirstSlot
  <2> QED
    BY <1>0, <1>1, <2>1, <2>2, <2>3 DEF SlotInv, FirstSlot
<1>7. CASE TestRootPort
  <2>1. /\ pc = "root_port" /\ UNCHANGED slot
        /\ IF port > Len(ports.root) THEN pc' = "no_disk" /\ UNCHANGED port
           ELSE IF r_slot # 0 THEN pc' = "root_status" /\ UNCHANGED port
           ELSE IF Usable(ports.root[port]) THEN pc' = "enable_slot" /\ UNCHANGED port
           ELSE port' = port + 1 /\ UNCHANGED pc
    BY <1>7 DEF TestRootPort, Counted
  <2>2. CASE r_slot = 0 /\ NoSlotYet
    <3>1. slot' = 0 /\ slots' = 0 /\ pc' \in {"no_disk", "enable_slot", "root_port"}
      BY <1>1, <1>3, <2>1, <2>2 DEF NoSlotYet
    <3>2. pc' = "enable_slot" => port \in 1..Len(ports.root) /\ Usable(ports.root[port]) /\ port' = port
      BY <1>0, <1>1, <2>1
    <3>3. port' > 0
      BY <1>0, <1>1, <2>1
    <3>4. NoSlotYet'
      BY <1>1, <1>3, <3>1, <3>2 DEF NoSlotYet
    <3> QED
      BY <1>1, <2>2, <3>3, <3>4 DEF SlotInv
  <2>3. CASE r_slot = 1 /\ FirstSlot
    <3>1. slot = 1 /\ AtRoot
      BY <2>1, <2>3 DEF FirstSlot, AtHub
    <3>2. PICK p \in 1..Len(ports.root) : p < port /\ ports.root[p] = "other"
      BY <2>1, <3>1 DEF AtRoot
    <3>4. pc' \in {"no_disk", "root_status"} /\ port' = port
      BY <2>1, <2>3
    <3>5. AtRoot' \/ pc' = "no_disk"
      <4>1. slots' = 1 /\ p < port' /\ ports'.root[p] = "other" /\ p \in 1..Len(ports'.root)
        BY <1>0, <1>1, <3>1, <3>2, <3>4 DEF AtRoot
      <4> QED
        BY <3>4, <4>1 DEF AtRoot
    <3>6. slot' = 1 /\ port' > 0 /\ slot' \in 1..slots' /\ slots' <= 1 + Len(ports'.hub)
      BY <1>0, <1>1, <2>1, <2>3, <3>1, <3>4 DEF FirstSlot
    <3>7. FirstSlot'
      BY <3>4, <3>5, <3>6 DEF FirstSlot
    <3> QED
      BY <1>1, <2>3, <3>6, <3>7 DEF SlotInv
  <2> QED
    BY <2>2, <2>3 DEF SlotInv
<1> QED
  BY <1>4, <1>5, <1>6, <1>7 DEF Moves

LEMMA ControllerSlot ==
    ASSUME host = "xhci", XhciBase, CompletionInv, SlotInv, Others \/ Serve, host' = host
    PROVE  SlotInv'
<1>0. /\ XhciTypes /\ RingInv /\ WorkTypes /\ slots \in Nat /\ port \in Nat /\ ports \in Roots
      /\ "cmd" \in Ring /\ Len(ports.hub) \in Nat
  BY TypesSplit, PortFacts DEF XhciBase, Ring, RestTypes
<1>1. UNCHANGED <<ports, port, slot, r_slot, pc, wait>>
  BY <1>0, OtherFrame, ServeAnswers DEF driverSide
<1>2. CASE slots' = slots /\ work'["cmd"] = work["cmd"]
  BY <1>1, <1>2, SlotFrame DEF Given
<1>3. CASE ServeCommand
  <2>1. /\ work["cmd"] # <<>> /\ slots' = slots + One(Head(work["cmd"]).what = "enable_slot")
    BY <1>0, <1>3, CommandServed
  <2>2. wait = "completion" /\ Head(work["cmd"]).what = pc /\ work'["cmd"] = <<>>
    <3>1. CompletionInv' /\ wait = "completion" /\ Head(work["cmd"]).what = pc /\ Len(work["cmd"]) = 1
      BY <1>3, <2>1, OtherCompletion DEF CompletionInv, Others
    <3>2. work'["cmd"] = Tail(work["cmd"]) /\ work["cmd"] \in Seq(Work)
      BY <1>0, <1>3, CommandServed DEF WorkTypes
    <3>3. Tail(work["cmd"]) \in Seq(Work) /\ Len(Tail(work["cmd"])) = 0
      BY <2>1, <3>1, <3>2
    <3> QED
      BY <3>1, <3>2, <3>3, EmptySeq
  <2>3. CASE pc = "enable_slot"
    <3>1. slots' = slots + 1 /\ ~Given /\ Given' /\ One(Given) = 0 /\ One(Given)' = 1
      BY <1>1, <2>1, <2>2, <2>3 DEF Given, One
    <3>2. CASE r_slot = 0 /\ NoSlotYet
      <4>1. slots' = 1
        BY <3>1, <3>2 DEF NoSlotYet
      <4> QED
        BY <1>1, <3>1, <3>2, <4>1 DEF SlotInv, NoSlotYet, OneDevice
    <3>3. CASE r_slot = 1 /\ FirstSlot
      <4>1. port \in 1..Len(ports.hub) /\ slots <= port + One(Given) /\ slot \in 1..slots
        BY <2>3, <3>3 DEF FirstSlot
      <4>2. slot = 1
        BY <2>3, <3>3 DEF FirstSlot, AtHub
      <4>3. slots' <= port + 1 /\ slots' <= 1 + Len(ports.hub) /\ slots' > 1 /\ slot \in 1..slots'
        <5>1. One(Given) = 0 /\ slots' = slots + 1
          BY <3>1
        <5> QED
          BY <1>0, <4>1, <5>1
      <4>4. FirstSlot'
        <5>1. One(Given)' = 1
          BY <3>1
        <5>2. port' = port /\ ports' = ports /\ slot' = 1 /\ pc' = "enable_slot"
          BY <1>1, <2>3, <4>2
        <5> QED
          BY <4>1, <4>2, <4>3, <5>1, <5>2 DEF FirstSlot
      <4> QED
        BY <1>1, <3>3, <4>4 DEF SlotInv, OneDevice
    <3> QED
      BY <3>2, <3>3 DEF SlotInv
  <2>4. CASE pc # "enable_slot"
    <3>1. slots' = slots
      BY <1>0, <2>1, <2>2, <2>4 DEF One
    <3> QED
      BY <1>1, <2>4, <3>1, SlotFrame DEF Given
  <2> QED
    BY <2>3, <2>4
<1>4. CASE PassOver \/ PortChange \/ FallSilent
  <2>1. CASE PassOver
    BY <1>0, <1>2, <2>1, Passed DEF WorkTypes
  <2>2. CASE PortChange
    BY <1>0, <1>2, <2>2, PortChanged
  <2>3. CASE FallSilent
    BY <1>2, <2>3 DEF FallSilent
  <2> QED
    BY <1>4, <2>1, <2>2, <2>3
<1>5. CASE Serve
  <2>1. PICK r \in Transfers, code \in Codes, n \in 1..2 : Answer(r, code, n)
    BY <1>0, <1>5, ServeAnswers
  <2>2. slots' = slots
    BY <1>0, <1>5, ServeAnswers
  <2>3. work' = [work EXCEPT ![r] = Tail(@)]
    BY <1>0, <2>1, <2>2, ServeRing
  <2>4. work'["cmd"] = work["cmd"]
    BY <1>0, <2>3 DEF WorkTypes, Transfers
  <2> QED
    BY <1>2, <2>2, <2>4
<1> QED
  BY <1>3, <1>4, <1>5 DEF Others

LEMMA SlotStep ==
    ASSUME XhciBase, CompletionInv, SlotInv, XhciNext
    PROVE  SlotInv'
BY XhciCases, AskSlot, CommandSlot, ControlSlot, BulkSlot, MoveSlot, ControllerSlot DEF Takes

-----------------------------------------------------------------------------
(* xHCI: the balance of events.  What is on its way, what may still come of
   what is queued, and what this wait has dropped so far, are together no more
   than what was caused from outside: a fault and a change of a port each
   bring one event too many, and so may the configuration descriptor that is
   read once for a slot. *)
Spare == \/ Given
         \/ pc \in {"set_address", "dev_desc", "conf_len"}
         \/ pc = "conf" /\ wait = "no"
Budget == faults + sent + slots
Load == OnTheWay + Supply + One(Spare)
CountInv == IF wait = "no" THEN Load <= Budget ELSE Load + others <= Budget + 1

LEMMA CountNats ==
    ASSUME host = "xhci", XhciBase
    PROVE  /\ RingTypes /\ RingInv /\ WorkTypes /\ XhciTypes /\ RestTypes /\ WaitInv
           /\ OnTheWay \in Nat /\ Supply \in Nat /\ others \in Nat
           /\ faults \in Nat /\ sent \in Nat /\ slots \in Nat /\ port \in Nat
<1>1. /\ RingTypes /\ RingInv /\ WorkTypes /\ XhciTypes /\ RestTypes /\ WaitInv
      /\ faults \in Nat /\ sent \in Nat /\ slots \in Nat /\ others \in Nat /\ port \in Nat
  BY TypesSplit, DiskAssumption, XhciAssumption DEF XhciBase, RestTypes
<1>2. OnTheWay \in Nat
  <2>1. /\ EventSlots \in Nat /\ enq \in 0..EventSlots - 1 /\ ev_deq \in 0..EventSlots - 1
        /\ IF ev_ccs = pcs THEN ev_deq <= enq ELSE enq < ev_deq
    BY <1>1, XhciAssumption DEF RingTypes, RingInv, EventCell
  <2> QED
    BY <2>1 DEF OnTheWay
<1> QED
  BY <1>1, <1>2, SupplyNat

LEMMA AskCount ==
    ASSUME host = "xhci", XhciBase, CountInv, Asks, host' = host
    PROVE  CountInv'
<1>0. /\ WorkTypes /\ RestTypes /\ OnTheWay \in Nat /\ Supply \in Nat
      /\ faults \in Nat /\ sent \in Nat /\ slots \in Nat
  BY CountNats
<1>1. /\ wait = "no" /\ wait' # "no" /\ others' = 0
      /\ UNCHANGED <<pc, slots, sent, faults, ring, enq, pcs, ev_deq, ev_ccs>>
  BY <1>0, AskTypes, AskCases DEF AskFrame, rest, hardware
<1>2. OnTheWay' = OnTheWay /\ Budget' = Budget /\ Budget \in Nat
  BY <1>0, <1>1 DEF OnTheWay, Budget
<1>3. ~Given /\ ~Given'
  BY AskNotGiven
<1>4. ASSUME NEW r \in Ring, NEW n \in 1..2,
             NEW what \in CommandOp \union {"ctrl", "conf", "cbw", "data", "csw"},
             Ask(r, what, n), r = "ep0" /\ what = "conf" <=> pc = "conf"
      PROVE  CountInv'
  <2>1. Supply' = Supply + 1 + One(r = "ep0" /\ what = "conf")
    <3>1. [what |-> what, slot |-> slot, trbs |-> n] \in Work
          /\ work' = [work EXCEPT ![r] = Append(@, [what |-> what, slot |-> slot, trbs |-> n])]
      BY <1>0, <1>4, QueueTypes DEF Ask
    <3> QED
      BY <1>0, <3>1, SupplyAppend
  <2>2. One(r = "ep0" /\ what = "conf") + One(Spare)' = One(Spare) /\ One(Spare)' \in Nat
        /\ One(r = "ep0" /\ what = "conf") \in Nat
    <3>1. CASE pc = "conf"
      <4>1. Spare /\ ~Spare'
        BY <1>1, <1>3, <3>1 DEF Spare
      <4> QED
        BY <1>4, <3>1, <4>1 DEF One
    <3>2. CASE pc # "conf"
      <4>1. Spare <=> Spare'
        BY <1>1, <1>3, <3>2 DEF Spare
      <4> QED
        BY <1>4, <3>2, <4>1 DEF One
    <3> QED
      BY <3>1, <3>2
  <2>3. Load <= Budget
    BY <1>1 DEF CountInv
  <2>4. Load = OnTheWay + Supply + One(Spare) /\ Load' = OnTheWay' + Supply' + One(Spare)'
    BY DEF Load
  <2>5. Load' + others' <= Budget' + 1
    BY <1>0, <1>1, <1>2, <2>1, <2>2, <2>3, <2>4
  <2> QED
    BY <1>1, <2>5 DEF CountInv
<1>5. "cmd" \in Ring /\ "ep0" \in Ring /\ "out" \in Ring /\ "in" \in Ring /\ 1 \in 1..2
  BY DEF Ring
<1>6. CASE pc \in CommandOp /\ Ask("cmd", pc, 1)
  BY <1>4, <1>5, <1>6 DEF CommandOp
<1>7. CASE pc \in ControlOp /\ Ask("ep0", IF pc = "conf" THEN "conf" ELSE "ctrl", 1)
  <2>1. CASE pc = "conf"
    BY <1>4, <1>5, <1>7, <2>1
  <2>2. CASE pc # "conf"
    BY <1>4, <1>5, <1>7, <2>2
  <2> QED
    BY <2>1, <2>2
<1>8. CASE pc \in BulkOp /\ Ask("ep0", "ctrl", 1)
  BY <1>4, <1>5, <1>8 DEF BulkOp
<1>9. CASE pc \in BulkOp /\ (Ask("out", "cbw", 1) \/ (\E n \in 1..2 : Ask("in", "data", n))
                             \/ Ask("in", "csw", 1))
  BY <1>4, <1>5, <1>9 DEF BulkOp
<1> QED
  BY <1>6, <1>7, <1>8, <1>9, AskCases

LEMMA TakeSpare ==
    ASSUME host = "xhci", XhciBase, CompletionInv, Takes, host' = host
    PROVE  /\ Spare' => Spare
           /\ \/ wait' = "no"
              \/ wait' = wait /\ others' = 0
              \/ wait' = wait /\ others' = others + 1
<1>0. RingTypes /\ RingInv /\ WaitInv /\ port \in Nat /\ ev_deq \in EventCell
  BY CountNats DEF RingTypes
<1>1. CASE DropEvent
  BY <1>1 DEF DropEvent, Spare, Given
<1>2. CASE CommandDone
  <2>1. wait' = "no" /\ pc \in CommandOp /\ pc' = AfterCommand[pc] /\ next_event.type = wait
    BY <1>2 DEF CommandDone, Taken
  <2>2. CASE pc = "enable_slot"
    <3>1. wait = "completion"
      BY <1>0, <2>1, TakeRing DEF CompletionInv
    <3>2. Completes(ev_deq)
      BY <1>0, <2>1, <3>1, TakeRing, AckRing DEF Completes, next_event
    <3>3. Given
      BY <1>0, <2>2, <3>1, <3>2 DEF Given, CompletionInv
    <3> QED
      BY <2>1, <3>3 DEF Spare
  <2>3. CASE pc # "enable_slot"
    BY <2>1, <2>3 DEF Spare, Given, AfterCommand, CommandOp
  <2> QED
    BY <2>1, <2>2, <2>3
<1>3. CASE BulkDone \/ ClearDone
  BY <1>3 DEF BulkDone, ClearDone, Taken, BulkOp, Spare, Given
<1>4. CASE ControlDone
  <2>1. CASE OneMore(next_event)
    <3>1. /\ UNCHANGED <<pc, wait>> /\ others' = 0 /\ pc \in ControlOp
      BY <1>4, <2>1 DEF ControlDone
    <3> QED
      BY <3>1 DEF Spare, Given, ControlOp
  <2>2. CASE ~OneMore(next_event)
    <3>1. wait' = "no" /\ pc \in ControlOp /\ ~Given'
      BY <1>4, <2>2 DEF ControlDone, Given
    <3>2. pc' \in {"set_address", "dev_desc", "conf_len", "conf"} => pc \in {"dev_desc", "conf_len"}
      <4>1. CASE pc \in {"conf_len", "set_conf", "hub_power", "hub_port", "root_status"}
        BY <1>4, <2>2, <4>1 DEF ControlDone
      <4>2. CASE pc \in {"dev_desc", "conf", "max_lun", "hub_desc"}
        <5>1. pc' = AfterControl[pc]
          BY <1>4, <2>2, <4>2 DEF ControlDone
        <5> QED
          BY <4>2, <5>1 DEF AfterControl
      <4> QED
        BY <3>1, <4>1, <4>2 DEF ControlOp
    <3> QED
      BY <3>1, <3>2 DEF Spare
  <2> QED
    BY <2>1, <2>2
<1> QED
  BY <1>1, <1>2, <1>3, <1>4 DEF Takes

LEMMA TakeCount ==
    ASSUME host = "xhci", XhciBase, CompletionInv, CountInv, Takes, host' = host
    PROVE  CountInv'
<1>0. /\ OnTheWay \in Nat /\ Supply \in Nat /\ others \in Nat
      /\ faults \in Nat /\ sent \in Nat /\ slots \in Nat /\ RingTypes /\ RingInv
  BY CountNats
<1>1. OnTheWay' = OnTheWay - 1 /\ wait # "no"
  BY <1>0, TakeRing
<1>2. Supply' = Supply /\ Budget' = Budget /\ Budget \in Nat
  <2>1. UNCHANGED <<work, slots, sent, faults>>
    BY TakeFrame DEF shared
  <2> QED
    BY <1>0, <2>1 DEF Supply, Budget
<1>3. One(Spare)' <= One(Spare) /\ One(Spare) \in Nat /\ One(Spare)' \in Nat
  BY TakeSpare DEF One
<1>4. Load + others <= Budget + 1
  BY <1>1 DEF CountInv
<1>5. Load = OnTheWay + Supply + One(Spare) /\ Load' = OnTheWay' + Supply' + One(Spare)'
  BY DEF Load
<1>6. CASE wait' = "no"
  <2>1. Load' <= Budget'
    BY <1>0, <1>1, <1>2, <1>3, <1>4, <1>5
  <2> QED
    BY <1>6, <2>1 DEF CountInv
<1>7. CASE wait' = wait /\ others' \in {0, others + 1}
  <2>1. Load' + others' <= Budget' + 1
    BY <1>0, <1>1, <1>2, <1>3, <1>4, <1>5, <1>7
  <2> QED
    BY <1>1, <1>7, <2>1 DEF CountInv
<1> QED
  BY <1>6, <1>7, TakeSpare

LEMMA NoConf ==
    ASSUME NEW s \in Nat, NEW s2 \in Nat, NEW o, o = 0, s2 + 1 + o <= s
    PROVE  s2 + 1 <= s
OBVIOUS

LEMMA Difference ==
    ASSUME NEW a \in Nat, NEW b \in Nat, NEW c \in a..b
    PROVE  c - a \in Nat
OBVIOUS

LEMMA LessLoad ==
    ASSUME NEW load \in Nat, NEW load2 \in Nat, NEW x \in Nat, NEW b \in Nat, NEW x2, NEW b2,
           load2 <= load, x2 = x, b2 = b, load + x <= b + 1
    PROVE  load2 + x2 <= b2 + 1
OBVIOUS

LEMMA MoveCount ==
    ASSUME host = "xhci", XhciBase, CountInv, Moves \/ BuildCBW, host' = host
    PROVE  CountInv'
<1>0. /\ OnTheWay \in Nat /\ Supply \in Nat /\ others \in Nat /\ WaitInv
      /\ faults \in Nat /\ sent \in Nat /\ slots \in Nat
  BY CountNats
<1>1. UNCHANGED <<ring, enq, pcs, ev_deq, ev_ccs, work, slots, sent, faults, wait, others>>
  BY MoveFrame DEF BuildCBW, rest, hardware, eventVars
<1>2. OnTheWay' = OnTheWay /\ Supply' = Supply /\ Budget' = Budget /\ Budget \in Nat
  BY <1>0, <1>1 DEF OnTheWay, Supply, Budget
<1>3. Spare' => Spare
  <2>1. CASE BuildCBW
    BY <1>1, <2>1 DEF BuildCBW, Spare, Given
  <2>2. CASE Moves
    <3>1. pc' \in {"ready", "sense", "capacity", "idle", "reset", "read", "next_child",
                   "no_disk", "hub_port", "enable_slot", "root_port", "root_status"}
          /\ pc \in BulkOp \union {"root_port", "next_child", "idle"}
      BY <2>2 DEF Moves, CommandReturns, TestRootPort, NextHubPort, CallRead, CallNextPort, BulkOp
    <3>2. wait' # "completion" \/ pc' # "enable_slot"
      <4>1. SUFFICES ASSUME pc' = "enable_slot" PROVE wait' # "completion"
        OBVIOUS
      <4>2. pc = "root_port"
        BY <2>2, <4>1 DEF Moves, CommandReturns, TestRootPort, NextHubPort, CallRead, CallNextPort
      <4> QED
        BY <1>0, <1>1, <4>2 DEF WaitInv, CommandOp, ControlOp, BulkOp
    <3> QED
      BY <3>1, <3>2 DEF Spare, Given
  <2> QED
    BY <2>1, <2>2
<1>4. One(Spare)' <= One(Spare) /\ One(Spare) \in Nat /\ One(Spare)' \in Nat
  BY <1>3 DEF One
<1>5. Load' <= Load /\ Load \in Nat /\ Load' \in Nat
  BY <1>0, <1>2, <1>4 DEF Load
<1>6. CASE wait = "no"
  <2>1. Load' <= Budget'
    BY <1>2, <1>5, <1>6 DEF CountInv
  <2> QED
    BY <1>1, <1>6, <2>1 DEF CountInv
<1>7. CASE wait # "no"
  <2>0. Load + others <= Budget + 1
    BY <1>7 DEF CountInv
  <2>2. others' = others /\ Budget' = Budget
    BY <1>1, <1>2
  <2>3. others \in Nat /\ Budget \in Nat
    BY <1>0, <1>2
  <2>1. Load' + others' <= Budget' + 1
    BY <1>0, <1>2, <1>5, <2>0, <2>2, LessLoad
  <2> QED
    BY <1>1, <1>7, <2>1 DEF CountInv
<1> QED
  BY <1>6, <1>7

LEMMA SumBound ==
    ASSUME NEW p \in Nat, NEW s \in Nat, NEW u \in Nat, NEW w \in Nat, NEW s2 \in Nat,
           NEW u2 \in Nat, NEW p2, p2 = p + 1, s2 + 1 <= s, u2 <= u + w
    PROVE  p2 + s2 + u2 <= p + s + u + w
OBVIOUS

LEMMA ServedBound ==
    ASSUME NEW p \in Nat, NEW s \in Nat, NEW u \in Nat, NEW w \in Nat, NEW s2 \in Nat,
           NEW o \in Nat, NEW n \in 1..2, NEW u2, NEW p2,
           p2 = p + n, s2 + 1 + o <= s, u2 = u, n <= 1 + o + w
    PROVE  p2 \in Nat /\ p2 + s2 + u2 <= p + s + u + w
OBVIOUS

LEMMA DroppedBound ==
    ASSUME NEW load \in Nat, NEW x \in Nat, NEW f \in Nat, NEW e \in Nat, NEW s \in Nat,
           NEW mf \in Nat, NEW me \in Nat, NEW len \in Nat, NEW b, b = f + e + s,
           load + x <= b + 1, f <= mf, e <= me, s <= 1 + len
    PROVE  x <= mf + me + 2 + len
OBVIOUS

(* a step of the controller or of the world: w is what it adds to the budget *)
LEMMA Balance ==
    ASSUME host = "xhci", XhciBase, CountInv, UNCHANGED <<wait, others>>,
           NEW w \in Nat, Budget' = Budget + w,
           OnTheWay' \in Nat, Supply' \in Nat,
           OnTheWay' + Supply' + One(Spare)' <= OnTheWay + Supply + One(Spare) + w
    PROVE  CountInv'
<1>0. /\ OnTheWay \in Nat /\ Supply \in Nat /\ others \in Nat
      /\ faults \in Nat /\ sent \in Nat /\ slots \in Nat
  BY CountNats
<1>1. Budget \in Nat /\ One(Spare) \in Nat /\ One(Spare)' \in Nat
  BY <1>0 DEF Budget, One
<1>2. /\ Load = OnTheWay + Supply + One(Spare) /\ Load' = OnTheWay' + Supply' + One(Spare)'
      /\ Load \in Nat /\ Load' \in Nat /\ Load' <= Load + w
  BY <1>0, <1>1 DEF Load
<1>6. CASE wait = "no"
  <2>1. Load' <= Budget'
    BY <1>1, <1>2, <1>6 DEF CountInv
  <2> QED
    BY <1>6, <2>1 DEF CountInv
<1>7. CASE wait # "no"
  <2>1. Load' + others' <= Budget' + 1
    BY <1>0, <1>1, <1>2, <1>7 DEF CountInv
  <2> QED
    BY <1>7, <2>1 DEF CountInv
<1> QED
  BY <1>6, <1>7

LEMMA OtherCount ==
    ASSUME host = "xhci", XhciBase, CompletionInv, CountInv, Others, host' = host
    PROVE  CountInv'
<1>0. /\ OnTheWay \in Nat /\ Supply \in Nat /\ others \in Nat /\ XhciTypes /\ RingInv /\ WorkTypes
      /\ faults \in Nat /\ sent \in Nat /\ slots \in Nat /\ "cmd" \in Ring /\ "ep0" \in Ring
  BY CountNats DEF Ring
<1>1. UNCHANGED <<wait, others, pc>>
  BY OtherFrame DEF driverSide
<1>n. OnTheWay \in Nat /\ Supply \in Nat
  BY <1>0
<1>b. One(Spare) \in Nat /\ One(Spare)' \in Nat
  BY DEF One
<1>2. CASE ServeCommand
  <2>1. /\ slots' = slots + One(Head(work["cmd"]).what = "enable_slot")
        /\ UNCHANGED <<sent, faults>> /\ OnTheWay' = OnTheWay + 1
        /\ work["cmd"] # <<>> /\ work' = [work EXCEPT !["cmd"] = Tail(@)]
    BY <1>0, <1>2, CommandServed
  <2>2. Supply' + 1 <= Supply /\ Supply' \in Nat
    <3> DEFINE o == One("cmd" = "ep0" /\ Head(work["cmd"]).what = "conf")
    <3>1. Supply' + 1 + o <= Supply /\ Supply' \in Nat
      BY <1>0, <2>1, SupplyTail
    <3>2. o = 0
      BY DEF One
    <3> HIDE DEF o
    <3>3. Supply \in Nat
      BY <1>n
    <3> QED
      BY <3>1, <3>2, <3>3, NoConf
  <2>3. DEFINE w == One(Head(work["cmd"]).what = "enable_slot")
  <2>4. w \in Nat
    BY DEF One
  <2>5. One(Spare)' <= One(Spare) + w
    <3>1. CASE pc = "enable_slot"
      <4>1. w = 1
        BY <2>1, <3>1 DEF One, CompletionInv
      <4> QED
        BY <4>1 DEF One
    <3>2. CASE pc # "enable_slot"
      <4>1. Spare' <=> Spare
        BY <1>1, <3>2 DEF Spare, Given
      <4>2. One(Spare)' = One(Spare)
        BY <4>1 DEF One
      <4> QED
        BY <1>b, <2>4, <4>2
    <3> QED
      BY <3>1, <3>2
  <2>6. Budget' = Budget + w
    <3>1. slots' = slots + w /\ faults' = faults /\ sent' = sent
      BY <2>1
    <3> HIDE DEF w
    <3> QED
      BY <1>0, <2>4, <3>1 DEF Budget
  <2>7. OnTheWay' \in Nat
    BY <1>0, <2>1
  <2> HIDE DEF w
  <2>8. OnTheWay' + Supply' + One(Spare)' <= OnTheWay + Supply + One(Spare) + w
    <3>1. OnTheWay' = OnTheWay + 1
      BY <2>1
    <3> QED
      BY <1>n, <1>b, <2>2, <2>4, <2>5, <3>1, SumBound
  <2> QED
    BY <1>1, <2>2, <2>4, <2>6, <2>7, <2>8, Balance
<1>3. ASSUME work'["cmd"] = work["cmd"] PROVE One(Spare)' = One(Spare)
  <2>1. Spare' <=> Spare
    BY <1>1, <1>3 DEF Spare, Given
  <2> QED
    BY <2>1 DEF One
<1>4. CASE PassOver
  <2>1. /\ UNCHANGED <<slots, eventVars, sent, faults>>
        /\ work["ep0"] # <<>> /\ work' = [work EXCEPT !["ep0"] = Tail(@)]
    BY <1>0, <1>4, Passed
  <2>2. Supply' <= Supply /\ Supply' \in Nat
    <3>1. Supply' + 1 + One("ep0" = "ep0" /\ Head(work["ep0"]).what = "conf") <= Supply
          /\ Supply' \in Nat
      BY <1>0, <2>1, SupplyTail
    <3>2. One("ep0" = "ep0" /\ Head(work["ep0"]).what = "conf") \in Nat
      BY DEF One
    <3> QED
      BY <1>0, <3>1, <3>2
  <2>3. OnTheWay' = OnTheWay /\ Budget' = Budget + 0
    BY <1>0, <2>1 DEF OnTheWay, Budget, eventVars
  <2>4. work'["cmd"] = work["cmd"]
    BY <1>0, <2>1 DEF WorkTypes
  <2>5. One(Spare)' = One(Spare)
    BY <1>3, <2>4
  <2>6. OnTheWay' \in Nat /\ OnTheWay' + Supply' + One(Spare)' <= OnTheWay + Supply + One(Spare) + 0
    BY <1>0, <1>b, <2>2, <2>3, <2>5
  <2> QED
    BY <1>1, <2>2, <2>3, <2>6, Balance
<1>5. CASE PortChange \/ FallSilent
  <2>1. UNCHANGED work /\ UNCHANGED slots
    BY <1>0, <1>5, PortChanged DEF FallSilent
  <2>2. OnTheWay' \in Nat /\ OnTheWay' <= OnTheWay + 1 /\ Budget' = Budget + 1
    <3>1. CASE PortChange
      BY <1>0, <2>1, <3>1, PortChanged DEF Budget
    <3>2. CASE FallSilent
      BY <1>0, <2>1, <3>2 DEF FallSilent, Fault, Budget, OnTheWay, eventVars
    <3> QED
      BY <1>5, <3>1, <3>2
  <2>3. One(Spare)' = One(Spare) /\ Supply' = Supply
    BY <1>3, <2>1 DEF Supply
  <2>4. Supply' \in Nat /\ OnTheWay' + Supply' + One(Spare)' <= OnTheWay + Supply + One(Spare) + 1
    BY <1>0, <1>b, <2>2, <2>3
  <2> QED
    BY <1>1, <2>2, <2>4, Balance
<1> QED
  BY <1>2, <1>4, <1>5 DEF Others

LEMMA ServeCount ==
    ASSUME host = "xhci", XhciBase, CountInv, Serve, host' = host
    PROVE  CountInv'
<1>0. /\ OnTheWay \in Nat /\ Supply \in Nat /\ others \in Nat /\ XhciTypes /\ RingInv /\ WorkTypes
      /\ faults \in Nat /\ sent \in Nat /\ slots \in Nat /\ "cmd" \in Ring /\ MaxFaults \in Nat
  BY CountNats, DiskAssumption DEF Ring
<1>1. UNCHANGED <<wait, others, pc, slots, sent>> /\ faults' \in faults..MaxFaults
  BY <1>0, ServeAnswers DEF driverSide
<1>2. PICK r \in Transfers, code \in Codes, n \in 1..2 : Answer(r, code, n)
  BY <1>0, ServeAnswers
<1>3. work' = [work EXCEPT ![r] = Tail(@)] /\ OnTheWay' = OnTheWay + n /\ r \in Ring
      /\ r # "cmd" /\ work[r] # <<>>
  BY <1>0, <1>1, <1>2, ServeRing DEF Answer, Transfers
<1> DEFINE o == One(r = "ep0" /\ Head(work[r]).what = "conf")
           w == faults' - faults
<1>4. Supply' + 1 + o <= Supply /\ Supply' \in Nat
  BY <1>0, <1>3, SupplyTail
<1>5. o \in Nat /\ w \in Nat /\ n <= 1 + o + w
  <2>1. o \in Nat
    BY DEF One
  <2>2. w \in Nat
    <3>1. faults \in Nat /\ MaxFaults \in Nat /\ faults' \in faults..MaxFaults
      BY <1>0, <1>1
    <3> QED
      BY <3>1, Difference
  <2>3. n = 2 => w = 1 \/ o = 1
    BY <1>0, <1>2 DEF Answer, One
  <2> HIDE DEF o, w
  <2> QED
    BY <2>1, <2>2, <2>3
<1>6. Budget' = Budget + w
  BY <1>0, <1>1 DEF Budget
<1>7. One(Spare)' = One(Spare) /\ One(Spare) \in Nat
  <2>1. work'["cmd"] = work["cmd"]
    BY <1>0, <1>3 DEF WorkTypes
  <2>2. Spare' <=> Spare
    BY <1>1, <2>1 DEF Spare, Given
  <2> QED
    BY <2>2 DEF One
<1> HIDE DEF o, w
<1>8. OnTheWay' \in Nat /\ OnTheWay' + Supply' + One(Spare)' <= OnTheWay + Supply + One(Spare) + w
  <2>1. OnTheWay \in Nat /\ Supply \in Nat /\ OnTheWay' = OnTheWay + n
    BY <1>0, <1>3
  <2> QED
    BY <1>4, <1>5, <1>7, <2>1, ServedBound
<1> QED
  BY <1>1, <1>4, <1>5, <1>6, <1>8, Balance

LEMMA CountStep ==
    ASSUME XhciBase, CompletionInv, CountInv, XhciNext
    PROVE  CountInv'
BY XhciCases, AskCount, TakeCount, MoveCount, OtherCount, ServeCount

(* So the events that one wait drops are bounded, as the slots are. *)
OthersInv == others <= MaxFaults + PortEvents + 2 + Len(ports.hub)

LEMMA OthersStep ==
    ASSUME host = "xhci", XhciBase, CompletionInv, CountInv, SlotInv, OthersInv, XhciNext
    PROVE  OthersInv'
<1>0. /\ host' = host /\ RestTypes /\ MaxFaults \in Nat /\ PortEvents \in Nat
      /\ faults \in 0..MaxFaults /\ sent \in 0..PortEvents /\ slots \in Nat /\ others \in Nat
      /\ Len(ports.hub) \in Nat /\ WorkTypes /\ Supply \in Nat /\ OnTheWay \in Nat
      /\ RingTypes /\ RingInv /\ XhciTypes
  BY XhciCases, CountNats, PortFacts, DiskAssumption, XhciAssumption DEF RestTypes
<1>1. ports' = ports
  BY <1>0, XhciCases, AskCases, TakeFrame, MoveFrame, OtherFrame, ServeAnswers
     DEF AskFrame, BuildCBW, rest, hardware, driverSide
<1>2. slots <= 1 + Len(ports.hub)
  <2>1. CASE r_slot = 0 /\ NoSlotYet
    BY <1>0, <2>1 DEF NoSlotYet, One
  <2>2. CASE r_slot = 1 /\ FirstSlot
    BY <2>2 DEF FirstSlot
  <2> QED
    BY <2>1, <2>2 DEF SlotInv
<1>n. MaxFaults \in Nat /\ PortEvents \in Nat /\ Len(ports.hub) \in Nat /\ others \in Nat
      /\ faults <= MaxFaults /\ sent <= PortEvents /\ faults \in Nat /\ sent \in Nat
      /\ slots \in Nat
  BY <1>0
<1>3. CASE others' \in {others, 0}
  <2>0. others <= MaxFaults + PortEvents + 2 + Len(ports.hub)
    BY DEF OthersInv
  <2>1. 0 <= MaxFaults + PortEvents + 2 + Len(ports.hub)
    <3>1. MaxFaults \in Nat /\ PortEvents \in Nat /\ Len(ports.hub) \in Nat
      BY <1>n
    <3>2. 2 \in Nat
      OBVIOUS
    <3>3. MaxFaults + PortEvents + 2 + Len(ports.hub) \in Nat
      BY <3>1, <3>2, FourNats, Zenon
    <3> QED
      BY <3>3
  <2> QED
    BY <1>1, <1>3, <2>0, <2>1 DEF OthersInv
<1>4. CASE DropEvent
  <2>1. /\ others' = others + 1 /\ UNCHANGED <<wait, faults, sent, slots>>
    BY <1>4 DEF DropEvent, place, shared
  <2>2. CountInv' /\ wait' # "no" /\ OnTheWay' \in Nat /\ Supply' = Supply
    <3>1. wait' # "no" /\ OnTheWay' = OnTheWay - 1 /\ OnTheWay > 0
      BY <1>0, <1>4, <2>1, TakeRing, AckRing DEF Takes
    <3>2. UNCHANGED work
      BY <1>4 DEF DropEvent
    <3> QED
      BY <1>0, <3>1, <3>2, CountStep DEF Supply
  <2>3. One(Spare)' \in Nat
    BY DEF One
  <2>4. Load' \in Nat
    BY <1>0, <2>2, <2>3 DEF Load
  <2>5. Load' + others' <= Budget' + 1
    BY <2>2 DEF CountInv
  <2>6. Budget' = faults + sent + slots
    BY <2>1 DEF Budget
  <2>7. others' \in Nat
    BY <1>n, <2>1
  <2>8. others' <= MaxFaults + PortEvents + 2 + Len(ports.hub)
    BY <1>n, <1>2, <2>4, <2>5, <2>6, <2>7, DroppedBound
  <2> QED
    BY <1>1, <2>8 DEF OthersInv
<1>5. \/ others' \in {others, 0}
      \/ DropEvent
  <2>1. CASE Asks
    BY <1>0, <2>1, AskTypes
  <2>2. CASE BuildCBW \/ Moves
    BY <1>0, <2>2, MoveFrame DEF BuildCBW
  <2>3. CASE Others \/ Serve
    BY <1>0, <2>3, OtherFrame, ServeAnswers DEF driverSide
  <2>4. CASE CommandDone \/ BulkDone \/ ClearDone
    BY <2>4 DEF CommandDone, BulkDone, ClearDone
  <2>5. CASE ControlDone
    BY <2>5, <1>0, ControlSteps DEF RestTypes
  <2> QED
    BY <2>1, <2>2, <2>3, <2>4, <2>5, XhciCases DEF Takes
<1> QED
  BY <1>3, <1>4, <1>5

-----------------------------------------------------------------------------
(* Both drivers *)

EventInv == CompletionInv /\ SlotInv /\ CountInv /\ OthersInv
UsbInv ==
    /\ UsbTypeOK /\ HubIsAsked
    /\ host = "xhci" => XhciBase /\ EventInv
    /\ host = "ehci" => EhciInv /\ others = 0

LEMMA XhciEventStep ==
    ASSUME XhciBase, EventInv, XhciNext
    PROVE  XhciBase' /\ EventInv'
<1>1. host = "xhci" /\ CompletionInv /\ SlotInv /\ CountInv /\ OthersInv
  BY XhciCases DEF EventInv
<1>2. XhciBase'
  BY XhciBaseStep
<1>3. CompletionInv'
  BY <1>1, CompletionStep
<1>4. SlotInv'
  BY <1>1, SlotStep
<1>5. CountInv'
  BY <1>1, CountStep
<1>6. OthersInv'
  BY <1>1, OthersStep
<1> QED
  BY <1>2, <1>3, <1>4, <1>5, <1>6 DEF EventInv

LEMMA PortsStay ==
    ASSUME XhciBase, XhciNext
    PROVE  ports' = ports
<1>1. host' = host /\ host = "xhci" /\ XhciTypes
  BY XhciCases DEF XhciBase
<1>2. CASE Asks
  BY <1>1, <1>2, AskCases DEF AskFrame
<1>3. CASE Takes
  BY <1>1, <1>3, TakeFrame
<1>4. CASE BuildCBW
  BY <1>4 DEF BuildCBW
<1>5. CASE Moves
  BY <1>1, <1>5, MoveFrame
<1>6. CASE Others
  BY <1>1, <1>6, OtherFrame DEF driverSide
<1>7. CASE Serve
  BY <1>1, <1>7, ServeAnswers DEF driverSide
<1> QED
  BY <1>2, <1>3, <1>4, <1>5, <1>6, <1>7, XhciCases

(* HubIsAsked: the ports of a hub, and those of the root *)
ChildAsked == pc = "hub_port" => slot = r_slot

LEMMA RootAsked ==
    ASSUME host = "xhci", SlotInv, ChildAsked
    PROVE  HubIsAsked
<1>1. SUFFICES ASSUME pc = "root_status"
               PROVE  \E p \in 1..Len(ports.root) : p < port /\ ports.root[p] = "other"
  BY DEF HubIsAsked, ChildAsked
<1>2. FirstSlot
  BY <1>1 DEF SlotInv, NoSlotYet
<1>3. AtRoot
  BY <1>1, <1>2 DEF FirstSlot, AtHub
<1> QED
  BY <1>1, <1>3 DEF AtRoot

LEMMA HubAsked ==
    ASSUME XhciBase, ChildAsked, XhciNext
    PROVE  ChildAsked'
<1>1. host' = host /\ host = "xhci" /\ XhciTypes /\ port \in Nat
  BY XhciCases, CountNats DEF XhciBase
<1>2. CASE UNCHANGED <<pc, slot, r_slot>>
  BY <1>2 DEF ChildAsked
<1>3. CASE pc' # "hub_port"
  BY <1>3 DEF ChildAsked
<1>4. CASE Asks
  BY <1>1, <1>2, <1>4, AskCases DEF AskFrame
<1>5. CASE BuildCBW
  BY <1>2, <1>5 DEF BuildCBW
<1>6. CASE Others
  BY <1>1, <1>2, <1>6, OtherFrame DEF driverSide
<1>7. CASE Serve
  BY <1>1, <1>2, <1>7, ServeAnswers DEF driverSide
<1>8. CASE BulkDone \/ ClearDone \/ DropEvent
  BY <1>2, <1>8 DEF BulkDone, ClearDone, DropEvent, place
<1>9. CASE CommandDone
  BY <1>3, <1>9 DEF CommandDone, AfterCommand, CommandOp
<1>10. CASE ControlDone
  <2>1. UNCHANGED <<slot, r_slot>>
    BY <1>1, <1>10, ControlSteps
  <2>2. CASE UNCHANGED pc
    BY <1>2, <2>1, <2>2
  <2>3. CASE pc' # pc
    BY <1>3, <1>10, <2>3 DEF ControlDone, ControlOp, AfterControl
  <2> QED
    BY <2>2, <2>3
<1>11. CASE NextHubPort
  BY <1>11 DEF NextHubPort, HubSlot, ChildAsked
<1>12. CASE CommandReturns \/ TestRootPort \/ CallRead \/ CallNextPort
  BY <1>2, <1>3, <1>12 DEF CommandReturns, TestRootPort, CallRead, CallNextPort, place, BulkOp
<1> QED
  BY <1>4, <1>5, <1>6, <1>7, <1>8, <1>9, <1>10, <1>11, <1>12, XhciCases DEF Takes, Moves

LEMMA RootAskedNext == (host = "xhci" /\ SlotInv /\ ChildAsked => HubIsAsked)'
BY RootAsked, PTL

(* One step of either driver; what the other one has does not change. *)
LEMMA XhciUsbStep ==
    ASSUME UsbInv, XhciNext, UNCHANGED ehciOwn
    PROVE  UsbInv'
<1>1. host = "xhci" /\ host' = host
  BY XhciCases
<1>2. XhciBase /\ EventInv /\ HubIsAsked /\ EhciTypeOK
  BY <1>1 DEF UsbInv, UsbTypeOK
<1>3. XhciBase' /\ EventInv' /\ HubIsAsked' /\ ports' = ports
  <2>1. XhciBase' /\ EventInv' /\ ports' = ports
    BY <1>2, XhciEventStep, PortsStay
  <2>2. ChildAsked'
    BY <1>2, HubAsked DEF HubIsAsked, ChildAsked
  <2> QED
    BY <1>1, <2>1, <2>2, RootAskedNext DEF EventInv
<1>4. EhciTypeOK'
  BY <1>1, <1>2, <1>3 DEF EhciTypeOK, ehciOwn, Hub
<1>5. DiskTypeOK' /\ XhciTypeOK'
  BY <1>3 DEF XhciBase, XhciTypes
<1> QED
  BY <1>1, <1>3, <1>4, <1>5 DEF UsbInv, UsbTypeOK

LEMMA EhciUsbStep ==
    ASSUME UsbInv, EhciNext, UNCHANGED xhciOwn
    PROVE  UsbInv'
<1>1. host = "ehci" /\ host' = "ehci"
  BY DEF EhciNext
<1>2. EhciTypes /\ EhciInv /\ XhciTypeOK
  BY <1>1 DEF UsbInv, UsbTypeOK, EhciTypes
<1>3. EhciTypes' /\ EhciInv'
  BY <1>1, <1>2, EhciStep
<1>4. tx' \in {"-", "cbw", "data", "csw"}
  BY <1>3 DEF EhciInv, TxInv
<1>5. XhciTypeOK'
  BY <1>1, <1>2, <1>4 DEF XhciTypeOK, xhciOwn, eventVars
<1>6. DiskTypeOK' /\ EhciTypeOK'
  BY <1>3 DEF EhciTypes
<1>7. HubIsAsked'
  <2>1. pc' \notin {"hub_port", "root_status"}
    BY <1>1, <1>6 DEF EhciTypeOK, Control, Bulk
  <2> QED
    BY <2>1 DEF HubIsAsked
<1>8. others' = 0
  BY <1>1 DEF UsbInv, xhciOwn
<1> QED
  BY <1>1, <1>3, <1>5, <1>6, <1>7, <1>8 DEF UsbInv, UsbTypeOK

LEMMA UsbStutter ==
    ASSUME UsbInv, UNCHANGED usbVars
    PROVE  UsbInv'
<1>1. /\ UNCHANGED <<host, disk, faults, mem, dest, cmd, reads>>
      /\ UNCHANGED <<ports, pc, port, tx, tries, result>>
      /\ UNCHANGED <<slot, r_slot, slots, wait, others, sent, work, halted>>
      /\ UNCHANGED <<ring, ev_deq, ev_ccs, enq, pcs>>
      /\ UNCHANGED <<eaddr, addrs, toggle, behind>>
  BY DEF usbVars, shared, xhciVars, driverVars, xhciOwn, eventVars, ehciOwn
<1>2. UsbTypeOK' = UsbTypeOK /\ HubIsAsked' = HubIsAsked
  BY <1>1 DEF UsbTypeOK, DiskTypeOK, XhciTypeOK, EhciTypeOK, HubIsAsked, Hub
<1>3. XhciBase' = XhciBase
  <2>1. XhciTypes' = XhciTypes
    BY <1>1 DEF XhciTypes, DiskTypeOK, XhciTypeOK
  <2>2. RingInv' = RingInv
    BY <1>1 DEF RingInv
  <2>3. CommandInv' = CommandInv
    BY <1>1 DEF CommandInv, DataInv, StageInv, AllThere, CBW
  <2>4. WaitInv' = WaitInv
    BY <1>1 DEF WaitInv
  <2> QED
    BY <2>1, <2>2, <2>3, <2>4 DEF XhciBase
<1>4. EventInv' = EventInv
  <2>1. CompletionInv' = CompletionInv
    BY <1>1 DEF CompletionInv, Completes, IsPending
  <2>2. SlotInv' = SlotInv
    BY <1>1 DEF SlotInv, OneDevice, Holding, NoSlotYet, FirstSlot, AtRoot, AtHub, Given
  <2>3. CountInv' = CountInv
    BY <1>1 DEF CountInv, Load, Budget, OnTheWay, Supply, Spare, Given
  <2>4. OthersInv' = OthersInv
    BY <1>1 DEF OthersInv
  <2> QED
    BY <2>1, <2>2, <2>3, <2>4 DEF EventInv
<1>5. EhciInv' = EhciInv
  <2>1. AddressInv' = AddressInv
    BY <1>1 DEF AddressInv, Addressed, Hub, IsHub, OnPort
  <2>2. TxInv' = TxInv
    BY <1>1 DEF TxInv
  <2>3. StepInv' = StepInv
    BY <1>1 DEF StepInv, InStep, Behind, Steady
  <2>4. ReadInv' = ReadInv
    BY <1>1 DEF ReadInv, AllThere, CBW
  <2> QED
    BY <2>1, <2>2, <2>3, <2>4 DEF EhciInv
<1> QED
  BY <1>1, <1>2, <1>3, <1>4, <1>5 DEF UsbInv

(* The start, with nothing queued and nothing on its way *)
LEMMA UsbStartTypes ==
    ASSUME UsbInit
    PROVE  UsbTypeOK
<1>1. DiskTypeOK
  BY DiskAssumption DEF UsbInit, DiskInit, DiskTypeOK, Disk, Fresh, Block, Zero, Command, Kind
<1>2. XhciTypeOK
  <2>1. /\ 0 \in 0..EventSlots - 1 /\ 0 \in 0..PortEvents
    BY XhciAssumption
  <2>2. NoEvent \in Event
    BY DEF NoEvent, Event
  <2>3. [i \in 0..EventSlots - 1 |-> [cycle |-> 0, event |-> NoEvent]]
            \in [0..EventSlots - 1 -> [cycle : 0..1, event : Event]]
    BY <2>2
  <2>4. [r \in Ring |-> <<>>] \in [Ring -> Seq(Work)]
    OBVIOUS
  <2> QED
    BY <2>1, <2>3, <2>4 DEF UsbInit, DiskInit, XhciInit, EventRingInit, XhciTypeOK
<1>3. EhciTypeOK
  <2>1. Hub \in Nat
    BY <1>1, HubFacts
  <2>2. 0 \in 0..1 + Hub
    BY <2>1
  <2> QED
    BY <2>2 DEF UsbInit, DiskInit, EhciInit, EhciTypeOK
<1> QED
  BY <1>1, <1>2, <1>3 DEF UsbTypeOK

LEMMA XhciStart ==
    ASSUME UsbInit, host = "xhci"
    PROVE  XhciBase /\ EventInv
<1>1. /\ pc = "root_port" /\ port = 1 /\ tx = "-" /\ result = "none" /\ wait = "no"
      /\ others = 0 /\ slot = 0 /\ r_slot = 0 /\ slots = 0 /\ sent = 0 /\ faults = 0
      /\ OneDevice /\ work = [r \in Ring |-> <<>>] /\ mem = Zero /\ disk = Fresh
      /\ cmd = [kind |-> "none", no |-> 0, len |-> 0]
      /\ ring = [i \in 0..EventSlots - 1 |-> [cycle |-> 0, event |-> NoEvent]]
      /\ ev_deq = 0 /\ ev_ccs = 1 /\ enq = 0 /\ pcs = 1
  BY DEF UsbInit, DiskInit, XhciInit, EventRingInit
<1>2. XhciTypes
  BY UsbStartTypes DEF UsbTypeOK, XhciTypes
<1>3. RingInv
  BY <1>1 DEF RingInv, EventCell
<1>4. CommandInv /\ WaitInv
  BY <1>1 DEF CommandInv, DataInv, StageInv, WaitInv, Zero, Fresh, BulkOp
<1>5. \A r \in Ring : work[r] = <<>>
  BY <1>1
<1>6. CompletionInv
  <2>1. work["cmd"] = <<>>
    BY <1>5 DEF Ring
  <2>2. \A i \in EventCell : ~Completes(i)
    BY <1>1 DEF Completes, IsPending, EventCell
  <2> QED
    BY <1>1, <2>1, <2>2 DEF CompletionInv
<1>7. SlotInv
  <2>1. ~Given
    BY <1>1 DEF Given
  <2> QED
    BY <1>1, <2>1 DEF SlotInv, NoSlotYet, One
<1>8. CountInv
  <2>1. OnTheWay = 0
    BY <1>1 DEF OnTheWay
  <2>2. NumConf(<<>>) = 0
    <3>1. Confs(<<>>) = {}
      BY DEF Confs
    <3> QED
      BY <3>1, FS_EmptySet DEF NumConf
  <2>3. Supply = 0
    <3>1. /\ work["cmd"] = <<>> /\ work["ep0"] = <<>> /\ work["out"] = <<>> /\ work["in"] = <<>>
      BY <1>5 DEF Ring
    <3>2. Supply = 0 + 0 + 0 + 0 + NumConf(<<>>)
      <4>1. Len(<<>>) = 0
        OBVIOUS
      <4> QED
        BY <3>1, <4>1 DEF Supply
    <3> QED
      BY <2>2, <3>2
  <2>4. ~Spare
    BY <1>1 DEF Spare, Given
  <2>5. Load = 0 /\ Budget = 0
    BY <1>1, <2>1, <2>3, <2>4 DEF Load, Budget, One
  <2> QED
    BY <1>1, <2>5 DEF CountInv
<1>9. OthersInv
  <2>1. /\ MaxFaults \in Nat /\ PortEvents \in Nat /\ Len(ports.hub) \in Nat
    BY <1>2, PortFacts, DiskAssumption, XhciAssumption DEF XhciTypes, DiskTypeOK
  <2>2. 2 \in Nat
    OBVIOUS
  <2>3. MaxFaults + PortEvents + 2 + Len(ports.hub) \in Nat
    BY <2>1, <2>2, FourNats, Zenon
  <2> QED
    BY <1>1, <2>3 DEF OthersInv
<1> QED
  BY <1>2, <1>3, <1>4, <1>6, <1>7, <1>8, <1>9 DEF XhciBase, EventInv

LEMMA EhciStart ==
    ASSUME UsbInit, host = "ehci"
    PROVE  EhciInv
<1>1. /\ pc = "controller" /\ port = 1 /\ tx = "-" /\ result = "none"
      /\ eaddr = 0 /\ addrs = [d \in 0..Hub |-> Off]
      /\ toggle = [s \in {"driver", "disk"} |-> [e \in {"in", "out"} |-> 0]]
      /\ cmd = [kind |-> "none", no |-> 0, len |-> 0]
  BY DEF UsbInit, DiskInit, EhciInit
<1>2. Hub \in Nat
  BY UsbStartTypes, HubFacts DEF UsbTypeOK
<1>3. AddressInv
  <2>1. addrs[0] = Off /\ \A d \in 1..Hub : addrs[d] = Off
    BY <1>1, <1>2
  <2> QED
    BY <1>1, <2>1 DEF AddressInv, Early, Plugged, ToHub, ToNew, ToOwn, Control, Bulk
<1>4. TxInv
  BY <1>1 DEF TxInv, Bulk
<1>5. StepInv
  BY <1>1 DEF StepInv, Bulk
<1>6. ReadInv
  BY <1>1 DEF ReadInv, Bulk
<1> QED
  BY <1>3, <1>4, <1>5, <1>6 DEF EhciInv

(* UsbInv always holds. *)
LEMMA UsbAlways == UsbSpec => []UsbInv
<1>1. UsbInit => UsbInv
  <2> SUFFICES ASSUME UsbInit PROVE UsbInv
    OBVIOUS
  <2>1. HubIsAsked
    BY DEF UsbInit, HubIsAsked
  <2> QED
    BY <2>1, UsbStartTypes, XhciStart, EhciStart DEF UsbInv, UsbInit, XhciInit
<1>2. UsbInv /\ [UsbNext]_usbVars => UsbInv'
  <2> SUFFICES ASSUME UsbInv, [UsbNext]_usbVars PROVE UsbInv'
    OBVIOUS
  <2>1. CASE XhciNext /\ UNCHANGED ehciOwn
    BY <2>1, XhciUsbStep
  <2>2. CASE EhciNext /\ UNCHANGED xhciOwn
    BY <2>2, EhciUsbStep
  <2>3. CASE UNCHANGED usbVars
    BY <2>3, UsbStutter
  <2> QED
    BY <2>1, <2>2, <2>3 DEF UsbNext
<1> QED
  BY <1>1, <1>2, PTL DEF UsbSpec

-----------------------------------------------------------------------------
(* What both drivers keep *)

(* Everything the disk, the drivers and the controller keep stays in its type,
   for any ports, any number of faults and an event ring of any size: the
   slots the driver asks for among them (xhci_usb.c:593, ehci_usb.c:461). *)
THEOREM UsbTypesHold == UsbSpec => []UsbTypeOK
<1>1. UsbInv => UsbTypeOK
  BY DEF UsbInv
<1> QED
  BY <1>1, UsbAlways, PTL

(* A read that either driver reports as good has brought the data of this very
   read, however late the events and the status blocks of earlier transfers
   come: with xHCI the tag in the status block decides, with EHCI the order of
   the transfers (xhci_usb.c:2686-2714, ehci_usb.c:625-668). *)
THEOREM ReadAlwaysWhole == UsbSpec => []ReadIsWhole
<1>1. UsbInv => ReadIsWhole
  <2> SUFFICES ASSUME UsbInv PROVE GoodReadIsWhole /\ EhciReadIsWhole
    BY DEF ReadIsWhole
  <2>1. GoodReadIsWhole
    <3> SUFFICES ASSUME host = "xhci", pc = "read", tx = "-", result = "good"
                 PROVE  AllThere
      BY DEF GoodReadIsWhole, AllThere
    <3>1. DataInv /\ StageInv
      BY DEF UsbInv, XhciBase, CommandInv
    <3>2. cmd.kind = "read"
      BY <3>1 DEF StageInv, BulkOp
    <3>3. mem.is = "csw" /\ mem.no = cmd.no
      BY <3>1 DEF StageInv
    <3> QED
      BY <3>1, <3>2, <3>3 DEF DataInv
  <2>2. EhciReadIsWhole
    <3>1. CASE host = "ehci"
      BY <3>1, EhciPromises DEF UsbInv, UsbTypeOK, EhciTypes
    <3> QED
      BY <3>1 DEF EhciReadIsWhole
  <2> QED
    BY <2>1, <2>2
<1> QED
  BY <1>1, UsbAlways, PTL

(* A request goes to one device only, whatever is plugged into the hub and in
   whatever order its ports are tried: the hub is asked by its own slot, and
   no two devices of EHCI that could answer have the same address
   (xhci_usb.c:2146, ehci_usb.c:461). *)
THEOREM RequestsAlwaysArrive == UsbSpec => []RequestsArrive
<1>1. UsbInv => RequestsArrive
  <2> SUFFICES ASSUME UsbInv PROVE HubIsAsked /\ OneReceiver
    BY DEF RequestsArrive
  <2>1. OneReceiver
    <3>1. CASE host = "ehci"
      BY <3>1, EhciPromises DEF UsbInv, UsbTypeOK, EhciTypes
    <3> QED
      BY <3>1 DEF OneReceiver
  <2> QED
    BY <2>1 DEF UsbInv
<1> QED
  BY <1>1, UsbAlways, PTL

(* Between commands the EHCI driver and the disk agree on the data toggles and
   the disk waits for a command, though the driver turns its toggle once for a
   transfer of eight sectors and a status block (ehci_usb.c:625). *)
THEOREM CommandsAlwaysInStep == UsbSpec => []CommandsInStep
<1>1. UsbInv => CommandsInStep
  <2> SUFFICES ASSUME UsbInv PROVE CommandsInStep
    OBVIOUS
  <2>1. CASE host = "ehci"
    BY <2>1, EhciPromises DEF UsbInv, UsbTypeOK, EhciTypes
  <2> QED
    BY <2>1 DEF CommandsInStep
<1> QED
  BY <1>1, UsbAlways, PTL

LEMMA BelowLimit ==
    ASSUME NEW n \in Nat, NEW bound \in Nat, NEW limit \in Nat, n <= bound, bound < limit
    PROVE  n < limit
OBVIOUS

(* What is asked of the environment: fewer faults, changes of ports and ports of
   the hub than events of another type that a wait lets pass (15 in the code) *)
Enough == \A r \in Roots : MaxFaults + PortEvents + 2 + Len(r.hub) < EventLimit
(* wait_for_event finds its event, whoever else causes events, as long as there
   are not too many of them: each fault, change of a port and slot leaves at most
   one event that nobody takes (xhci_usb.c:593). *)
THEOREM EventAlwaysFound ==
    ASSUME Enough
    PROVE  UsbSpec => []EventIsFound
<1>1. UsbInv => EventIsFound
  <2> SUFFICES ASSUME UsbInv PROVE others < EventLimit
    BY DEF EventIsFound
  <2>1. CASE host = "xhci"
    <3>1. /\ others <= MaxFaults + PortEvents + 2 + Len(ports.hub)
          /\ ports \in Roots /\ others \in Nat
      BY <2>1 DEF UsbInv, EventInv, OthersInv, UsbTypeOK, DiskTypeOK, XhciTypeOK
    <3>2. /\ MaxFaults \in Nat /\ PortEvents \in Nat /\ Len(ports.hub) \in Nat
          /\ EventLimit \in Nat
      BY <3>1, PortFacts, DiskAssumption, XhciAssumption
    <3>3. MaxFaults + PortEvents + 2 + Len(ports.hub) < EventLimit
      BY <3>1 DEF Enough
    <3>4. MaxFaults + PortEvents + 2 + Len(ports.hub) \in Nat
      <4> 2 \in Nat
        OBVIOUS
      <4> QED
        BY <3>2, FourNats, Zenon
    <3> QED
      BY <3>1, <3>2, <3>3, <3>4, BelowLimit, Zenon
  <2>2. CASE host = "ehci"
    BY <2>2, XhciAssumption DEF UsbInv
  <2> QED
    BY <2>1, <2>2 DEF UsbInv, UsbTypeOK, DiskTypeOK
<1> QED
  BY <1>1, UsbAlways, PTL
=============================================================================
