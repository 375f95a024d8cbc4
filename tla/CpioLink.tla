------------------------------ MODULE CpioLink ------------------------------
(***************************************************************************)
(* Two chips are joined by the CPIO link: cpio_master() runs on one of     *)
(* them and cpio_slave() on the other, and each shows the other one with a *)
(* GPIO that it is there before the PHYs are released                      *)
(* (cpio/cpio_sp7350.c:1265-1596).  This chip runs xBoot, the other one is *)
(* its peer and does the same with the other role.                         *)
(***************************************************************************)
EXTENDS Board

VARIABLES step,     \* of each role: where its function is
          line,     \* the GPIO each role drives: 96 of the slave, 74 of the master
          phy       \* of each role: "held", "released", or the status it saw

cpio == <<step, line, phy>>
Role == {"master", "slave"}
Peer(r) == IF r = "master" THEN "slave" ELSE "master"
Mine == board.cpio
LinkBuilt == board.cpio # "off"

CpioTypeOK ==
    /\ step \in [Role -> {"off", "clock", "low", "wait", "analog", "phy", "done"}]
    /\ line \in [Role -> BOOLEAN]
    /\ phy \in [Role -> {"held", "released", "passed", "failed"}]

(* The GPIOs are inputs at first, and the boards pull the lines down. *)
CpioInit == /\ step = [r \in Role |-> "off"] /\ phy = [r \in Role |-> "held"]
            /\ line = [r \in Role |-> FALSE]

At(r, from, to) ==
    /\ step[r] = from /\ step' = [step EXCEPT ![r] = to]
    /\ Fine /\ UNCHANGED board

(* the clock and the reset of the CPIO; the own GPIO low *)
PinLow(r) == /\ At(r, "clock", "low")
             /\ line' = [line EXCEPT ![r] = FALSE] /\ UNCHANGED phy

(* mutant: the slave does not wait for the answer *)
Seen_slaveGoesOn(r) == r = "slave" \/ line[Peer(r)]
Seen(r) == line[Peer(r)]

(* The slave raises its GPIO at once, the master after it has seen that. *)
Wait(r) ==
    \/ r = "slave" /\ At(r, "low", "wait")
       /\ line' = [line EXCEPT ![r] = TRUE] /\ UNCHANGED phy
    \/ r = "slave" /\ Seen(r) /\ At(r, "wait", "analog") /\ UNCHANGED <<line, phy>>
    \/ r = "master" /\ At(r, "low", "wait") /\ UNCHANGED <<line, phy>>
    \/ r = "master" /\ Seen(r) /\ At(r, "wait", "analog")
       /\ line' = [line EXCEPT ![r] = TRUE] /\ UNCHANGED phy

(* the analog settings, 100 ms, then the reset of the PHY is released *)
Release(r) == /\ At(r, "analog", "phy") /\ UNCHANGED line
              /\ phy' = [phy EXCEPT ![r] = "released"]

(* Both PHYs are released: their status changes (the hardware). *)
Train ==
    /\ \A r \in Role : phy[r] # "held"
    /\ \E r \in Role : phy[r] = "released"
    /\ \E s \in {"passed", "failed"} :
          /\ IF s = "failed" THEN Fault ELSE Fine
          /\ phy' = [r \in Role |-> IF phy[r] = "released" THEN s ELSE phy[r]]
    /\ UNCHANGED <<board, step, line, pc>>

(* The wait for a status has no limit; a bad status is printed, no more. *)
Status(r) == /\ phy[r] \in {"passed", "failed"} /\ At(r, "phy", "done")
             /\ UNCHANGED <<line, phy>>

Function(r) == PinLow(r) \/ Wait(r) \/ Release(r) \/ Status(r)

(* xBoot calls its function after every good test of the memory; the slave
   stops for good behind it (xboot.c:484-490). *)
cpio_call(then) ==
    IF LinkBuilt THEN /\ pc' = "cpio" /\ step' = [step EXCEPT ![Mine] = "clock"]
                      /\ phy' = [phy EXCEPT ![Mine] = "held"]
    ELSE pc' = then /\ UNCHANGED <<step, phy>>

CpioStep == pc = "cpio" /\ step[Mine] # "done" /\ Function(Mine) /\ UNCHANGED pc
PeerStep ==
    /\ LinkBuilt /\ UNCHANGED pc
    /\ \/ Function(Peer(Mine))
       \/ At(Peer(Mine), "off", "clock") /\ UNCHANGED <<line, phy>>
       \/ Mine = "slave" /\ At("master", "done", "clock") /\ UNCHANGED line
          /\ phy' = [phy EXCEPT !["master"] = "held"]

(* The PHY of a chip is released only when the other chip has got as far as
   its own wait, again after a master has started anew
   (cpio_sp7350.c:1289-1294, 1459-1465). *)
ReleasedTogether ==
    [][\A r \in Role : phy[r] = "held" /\ phy'[r] = "released" =>
            step[Peer(r)] \notin {"off", "clock", "low"}]_cpio
=============================================================================
