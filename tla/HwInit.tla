------------------------------- MODULE HwInit -------------------------------
(***************************************************************************)
(* init_hw(): the supply voltage of the CA55 cores is set through I2C, the *)
(* clocks are switched, and the power domains are isolated, switched off   *)
(* and on (xboot.c:120-449).                                               *)
(***************************************************************************)
EXTENDS I2cMaster

VARIABLES buf,      \* RT5759: buf[0]; STI8070X: id1
          chk,      \* the try of the RT5759
          power     \* PMC isolation bits, powered domains, sources of clocks

hw == <<buf, chk, power>>

Npu == "npu"        \* pmc_iso_en bit 4
Video == "video"    \* pmc_iso_en bit 5
Domains == {Npu, Video}

RT_ID == 130        \* 0x82
RT_VID == 2
STI_ID1 == 136      \* 0x88
STI_ID2 == 1
STI_VSEL0 == 0

PowerInit == /\ buf = 0 /\ chk = 0
             /\ \E iso \in SUBSET Domains :
                   power = [iso |-> iso, on |-> Domains, cpu |-> "PLLC", l3 |-> "PLLL3"]

Returned(label) == pc = label \/ (pc = "i2c_error" /\ xfer.then = label)
Good == pc # "i2c_error"

(* The locals of the regulator's set-up are gone. *)
SetUpDone == /\ pc' = "pllc" /\ xfer' = NoXfer /\ buf' = 0 /\ chk' = 0

Regulator ==
    /\ pc = "init_hw"
    /\ CASE board.regulator = "RT5759" ->
              sp_i2c_write(<<buf>>, "rt_wrote") /\ UNCHANGED <<buf, chk>>
         [] board.regulator = "STI8070X" ->
              sp_i2c_restart_one(3, 1, "sti_id1") /\ UNCHANGED <<buf, chk>>
         [] OTHER -> SetUpDone /\ UNCHANGED bus
    /\ Fine /\ UNCHANGED <<board, chip, stuck, power>>

(* `continue': the second try frees SDA, resets the controller and writes
   what buf[0] holds by then *)
RtNext ==
    IF chk = 0
    THEN /\ chk' = 1 /\ sp_i2c_write(<<buf>>, "rt_wrote")
         /\ stuck' \in {stuck, FALSE} /\ UNCHANGED buf
    ELSE SetUpDone /\ bus' = Quiet /\ UNCHANGED stuck

RtWrote ==
    /\ Returned("rt_wrote")
    /\ IF Good THEN sp_i2c_read(1, "rt_read") /\ UNCHANGED <<stuck, buf, chk>> ELSE RtNext
    /\ Fine /\ UNCHANGED <<board, chip, power>>

(* what a read put into the buffer, if it got anything *)
Data == IF xfer.got = <<>> THEN buf ELSE Head(xfer.got)

(* The ID is looked at, and the write of the VID is called with the length 1. *)
RtRead ==
    /\ Returned("rt_read")
    /\ buf' = IF Good /\ Data = RT_ID THEN RT_VID ELSE Data
    /\ IF Good /\ Data = RT_ID
       THEN sp_i2c_write(<<RT_VID>>, "rt_set") /\ UNCHANGED <<stuck, chk>>
       ELSE IF chk = 0
       THEN /\ chk' = 1 /\ sp_i2c_write(<<Data>>, "rt_wrote") /\ stuck' \in {stuck, FALSE}
       ELSE /\ pc' = "pllc" /\ xfer' = NoXfer /\ chk' = 0 /\ bus' = Quiet /\ UNCHANGED stuck
    /\ Fine /\ UNCHANGED <<board, chip, power>>

RtSet ==
    /\ Returned("rt_set")
    /\ IF Good THEN SetUpDone /\ UNCHANGED <<bus, stuck>> ELSE RtNext
    /\ Fine /\ UNCHANGED <<board, chip, power>>

StiId1 ==
    /\ Returned("sti_id1")
    /\ buf' = Data
    /\ sp_i2c_restart_one(4, 1, "sti_id2")
    /\ Fine /\ UNCHANGED <<board, chip, stuck, chk, power>>

(* mutant: only the first ID is looked at *)
Known_first(id1, id2) == id1 = STI_ID1
Known(id1, id2) == id1 = STI_ID1 /\ id2 = STI_ID2
(* id2 keeps its initial 0 when nothing was read *)
StiId2 ==
    /\ Returned("sti_id2")
    /\ IF Known(buf, IF xfer.got = <<>> THEN 0 ELSE Head(xfer.got))
       THEN sp_i2c_write(<<STI_VSEL0, 135>>, "sti_set") /\ UNCHANGED <<buf, chk>>
       ELSE SetUpDone /\ UNCHANGED bus
    /\ Fine /\ UNCHANGED <<board, chip, stuck, power>>

StiSet ==
    /\ Returned("sti_set") /\ SetUpDone
    /\ Fine /\ UNCHANGED <<board, chip, stuck, bus, power>>

(* The clocks of the CPU and of L3 run from PLLS while their PLLs change. *)
SwitchClocks ==
    /\ \/ pc = "pllc" /\ power' = [power EXCEPT !.cpu = "PLLS"] /\ pc' = "pllc_set"
       \/ pc = "pllc_set" /\ power' = [power EXCEPT !.cpu = "PLLC", !.l3 = "PLLS"] /\ pc' = "plll3_set"
       \/ pc = "plll3_set" /\ power' = [power EXCEPT !.l3 = "PLLL3"] /\ pc' = "npu"
    /\ Fine /\ UNCHANGED <<board, i2c, buf, chk>>

(* pmc_iso_en |= 0x10, then NPU_PWR_EN = 0 *)
NpuOff ==
    /\ pc = "npu" /\ pc' = "video"
    /\ power' = [power EXCEPT !.iso = @ \union {Npu}, !.on = @ \ {Npu}]
    /\ Fine /\ UNCHANGED <<board, i2c, buf, chk>>

(* "Video ISO Enable": pmc_iso_en &= 0x20 *)
VideoOff ==
    /\ pc = "video"
    /\ IF board.stampA30
       THEN power' = [power EXCEPT !.on = @ \union {Video}] /\ pc' = "init_done"
       ELSE /\ power' = [power EXCEPT !.iso = @ \intersect {Video}, !.on = @ \ {Video}]
            /\ pc' = "video_off"
    /\ Fine /\ UNCHANGED <<board, i2c, buf, chk>>

VideoOn ==
    /\ pc = "video_off" /\ pc' = "init_done"
    /\ power' = [power EXCEPT !.iso = @ \ {Video}, !.on = @ \union {Video}]
    /\ Fine /\ UNCHANGED <<board, i2c, buf, chk>>

HwStep == \/ Regulator \/ RtWrote \/ RtRead \/ RtSet \/ StiId1 \/ StiId2 \/ StiSet
          \/ SwitchClocks \/ NpuOff \/ VideoOff \/ VideoOn
HwNext == \/ HwStep
          \/ (Driver \/ Controller) /\ UNCHANGED <<board, hw>>

(* The set-up changes nothing but the voltage register of the chip whose two
   IDs it has read, whatever the bus does to the reads (xboot.c:200, 248). *)
OnlyVoltageWritten ==
    \A r \in DOMAIN chip.regs :
        chip.regs[r] # Regs(chip.kind)[r] =>
            chip.kind = "STI8070X" /\ r = STI_VSEL0 /\ chip.regs[r] = 135

(* A power domain is switched off only with its outputs isolated. *)
OffIsIsolated == \A d \in Domains : d \notin power.on => d \in power.iso
=============================================================================
