----------------------------- MODULE SdIdentify -----------------------------
(***************************************************************************)
(* initDriver_SD() and IdentifyStorage(): from a slot with an SD card, an  *)
(* eMMC device or nothing in it to a card that is selected, whose kind and *)
(* address are known, and a controller with the card's bus width.  Every   *)
(* command may be lost, and every response lost or broken.                 *)
(*                                                                         *)
(* The card is external: it answers a command only in a state in which the *)
(* command is legal, as the SD and eMMC standards say.                     *)
(***************************************************************************)
EXTENDS Integers

CONSTANTS Identify,     \* repetitions of IdentifyStorage: 8 in the code
          OpCondLoops,  \* 1500 in the code (TIME_OUT_LOOP_COUNT_SHORT * 3)
          StatusTries,  \* of CMD13 for one status: 10 in the code
          MaxFaults     \* bound: commands and responses that go wrong

ASSUME SdIdentifyAssumption ==
    /\ {Identify, OpCondLoops, MaxFaults} \subseteq Nat
    /\ StatusTries \in Nat \ {0}

Kind == {"none", "sd1", "sd2", "sdhc", "mmc", "mmchc"}
Result == {"ok", "timeout", "crc", "fail"}  \* SD_SUCCESS, SD_RSP_TIMEOUT, ...

VARIABLES
    slot,       \* "sd" or "emmc" (EMMC_SLOT_NUM)
    card,       \* the card: kind, state, rca, width, app (CMD55 seen), wide
    pc, ret,    \* of the driver, and what IdentifyStorage returns
    retry,      \* of initDriver_SD
    caller,     \* who waits for CheckCardStatus
    n,          \* turns of the loop the driver is in
    hcs,        \* host_support_high_capacity_flag, check_card_capacity_flag = 0
    what_dev, rca, \* of gStorage_dev, set to 0 ("unset") at first; "bad" and
                \* -1 are ERR_NEGATIVE_VALUE
    width,      \* of the controller's bus
    scr4, fast, \* SCR: four bits; SCR and CSD: high speed worth trying
    faults,     \* bound: faults so far
    missed      \* history: what went wrong without being noticed: no response
                \* to "acmd6", a refused "switch" of the width, a failed "cmd0"

driver == <<pc, ret, retry, caller, n, hcs, what_dev, rca, width, scr4, fast>>
vars == <<slot, card, driver, faults, missed>>

Card == [kind : Kind, rca : {0, 1}, width : {1, 4}, app : BOOLEAN, wide : BOOLEAN,
         state : {"idle", "ready", "ident", "stby", "tran", "prg"}]

TypeOK ==
    /\ slot \in {"sd", "emmc"} /\ card \in Card
    /\ ret \in Result /\ retry \in 0..Identify
    /\ caller \in {"none", "cmd7", "width", "speed"}
    /\ n \in 0..(OpCondLoops + 201) \union 0..(StatusTries - 1) /\ hcs \in BOOLEAN
    /\ what_dev \in {"unset", "bad", "sd", "sdhc", "mmc", "mmchc"}
    /\ rca \in {-1, 0, 1} /\ width \in {1, 4}
    /\ scr4 \in BOOLEAN /\ fast \in BOOLEAN
    /\ faults \in 0..MaxFaults
    /\ missed \in {"none", "acmd6", "switch", "cmd0"}

(* A cold card, or one that an earlier identification has left selected,
   with or without four bits *)
Init ==
    /\ slot \in {"sd", "emmc"}
    /\ \E k \in IF slot = "sd" THEN {"none", "sd1", "sd2", "sdhc"}
                               ELSE {"none", "mmc", "mmchc"}, w \in BOOLEAN :
         card \in {[kind |-> k, state |-> "idle", rca |-> 0, width |-> 1,
                    app |-> FALSE, wide |-> w],
                   [kind |-> k, state |-> "tran", rca |-> 1, app |-> FALSE,
                    width |-> IF w THEN 4 ELSE 1, wide |-> w]}
    /\ width = card.width
    /\ pc = "chip" /\ ret = "ok" /\ retry = Identify /\ caller = "none"
    /\ n = 0 /\ hcs = FALSE /\ what_dev = "unset" /\ rca = 0
    /\ scr4 = FALSE /\ fast = FALSE /\ faults = 0 /\ missed = "none"

-----------------------------------------------------------------------------
(* The card *)

Sd == {"sd1", "sd2", "sdhc"}
Mmc == {"mmc", "mmchc"}

Cold == [card EXCEPT !.state = "idle", !.rca = 0, !.width = 1, !.app = FALSE]

(* The HCS bit of ACMD41, or the sector mode of CMD1 (mutant: set always) *)
AsksHighCapacity_always == TRUE

AsksHighCapacity == hcs

(* What the card may become when it takes command c with RCA a; nothing when
   it does not answer c. *)
After(c, a) ==
    LET in(S) == card.state \in S /\ card.kind # "none"
        to(s) == {[card EXCEPT !.state = s, !.app = FALSE]}
        when(p, S) == IF p THEN S ELSE {}
    IN CASE c = "CMD8" -> when(card.kind \in {"sd2", "sdhc"} /\ in({"idle"}),
                               to("idle"))
         [] c = "CMD55" -> when(/\ card.kind \in Sd /\ a = card.rca
                                /\ in({"idle", "stby", "tran"}),
                                {[card EXCEPT !.app = TRUE]})
         [] c = "ACMD41" -> when(card.kind \in Sd /\ card.app /\ in({"idle"}),
                to("idle") \union when(AsksHighCapacity \/ card.kind # "sdhc",
                                       to("ready")))
         [] c = "CMD1" -> when(card.kind \in Mmc /\ in({"idle"}),
                to("idle") \union when(AsksHighCapacity \/ card.kind # "mmchc",
                                       to("ready")))
         [] c = "CMD2" -> when(in({"ready"}), to("ident"))
         [] c = "CMD3" -> when(in({"ident"}),
                               {[card EXCEPT !.state = "stby", !.rca = 1]})
         [] c = "CMD9" -> when(in({"stby"}) /\ a = card.rca, to("stby"))
         [] c = "CMD7" -> when(in({"stby"}) /\ a = card.rca, to("tran"))
         [] c = "CMD13" -> when(/\ in({"stby", "tran", "prg"})
                                /\ a = card.rca, to(card.state))
         [] c = "CMD16" -> when(in({"tran"}), to("tran"))
         [] c = "EXT_CSD" -> when(in({"tran"}), to("tran"))
         [] c = "ACMD51" -> when(card.app /\ in({"tran"}), to("tran"))
         [] c = "ACMD6" -> when(card.app /\ in({"tran"}),
                                {[card EXCEPT !.width = 4, !.app = FALSE]})
         [] c = "width" -> when(in({"tran"}),
                to("prg") \union {[card EXCEPT !.state = "prg", !.width = 4]})
         [] c = "speed" -> when(in({"tran"}), to("prg"))
         [] c = "CMD6" -> when(in({"tran"}) /\ card.kind # "sd1", to("tran"))

(* An eMMC device ends a switch. *)
Program ==
    /\ card.state = "prg"
    /\ card' = [card EXCEPT !.state = "tran"]
    /\ UNCHANGED <<slot, driver, faults, missed>>

(* hwSdCmdSend with a response to read: r is what it returns.  Without a fault
   the card's answer; with one the command does not arrive, or the response is
   lost, has a bad CRC, or comes too late or with another command's echo. *)
Sent(c, a, r) ==
    LET answers == After(c, a)
    IN  \/ /\ r = "ok" /\ card' \in answers /\ UNCHANGED faults
        \/ /\ r = "timeout" /\ answers = {} /\ UNCHANGED <<card, faults>>
        \/ /\ faults < MaxFaults /\ faults' = faults + 1
           /\ \/ r = "timeout" /\ card' = card
              \/ r \in {"timeout", "crc", "fail"} /\ card' \in answers

(* ACMD51, and CMD8 of an eMMC device: the response is not looked at, and
   ReadSectorByPolling finds the data or not, on as many lines as both use. *)
DataSent(c, r) ==
    LET answers == After(c, rca)
    IN  \/ r = "ok" /\ answers # {} /\ width = card.width
           /\ card' \in answers /\ UNCHANGED faults
        \/ r = "fail" /\ (answers = {} \/ width # card.width)
           /\ card' \in answers \union {card} /\ UNCHANGED faults
        \/ r = "fail" /\ faults < MaxFaults /\ faults' = faults + 1
           /\ card' \in answers \union {card}

-----------------------------------------------------------------------------
(* The driver *)

At(p) == pc = p /\ UNCHANGED slot
Goto(p) == pc' = p
End(r) == pc' = "end" /\ ret' = r
Keep == UNCHANGED missed

(* CMD0: no response is waited for, so a lost one is not noticed *)
Reset ==
    \/ card' = (IF card.kind = "none" THEN card ELSE Cold) /\ UNCHANGED faults
    \/ faults < MaxFaults /\ faults' = faults + 1 /\ card' = card

(* InitChipCtrl: one bit again, and an eMMC device is reset *)
InitChipCtrl ==
    /\ At("chip") /\ Goto("cmd0") /\ width' = 1 /\ Keep
    /\ IF slot = "emmc" THEN Reset ELSE UNCHANGED <<card, faults>>
    /\ UNCHANGED <<ret, retry, caller, n, hcs, what_dev, rca, scr4, fast>>

(* The controller does not come to rest: the command may have gone out or not. *)
ControllerFails ==
    /\ faults < MaxFaults /\ faults' = faults + 1
    /\ card' \in {card} \union (IF card.kind = "none" THEN {} ELSE {Cold})

(* The start of IdentifyStorage: CMD0 and the dummy clocks.  `return -CMD0' is
   0, which is SD_SUCCESS: an attempt that the controller ends at CMD0 counts
   as a good one.  Dummy clocks that fail are SD_FAIL. *)
IdentifyStorage ==
    /\ At("cmd0")
    /\ \/ /\ Reset /\ Keep /\ UNCHANGED ret
          /\ what_dev' = "bad" /\ n' = 0
          /\ IF slot = "emmc" THEN Goto("cmd1") /\ hcs' = TRUE
                              ELSE Goto("cmd8") /\ hcs' = FALSE
       \/ /\ ControllerFails /\ UNCHANGED <<what_dev, n, hcs>>
          /\ \/ missed' = "cmd0" /\ End("ok")
             \/ Keep /\ End("fail")
    /\ UNCHANGED <<retry, caller, rca, width, scr4, fast>>

(* One turn of CheckMMCOpCond: the loop, and the second one with byte
   addressing (check_card_capacity_flag = 1, here ~hcs) *)
CheckMMCOpCond ==
    /\ At("cmd1") /\ Keep
    /\ \E r \in Result :
         /\ Sent("CMD1", 0, r)
         /\ LET up == r = "ok" /\ card'.state = "ready"
                turns == n + (IF n + 1 > 5 /\ r # "ok" THEN 201 ELSE 1)
            IN  \/ /\ r = "timeout" /\ End("fail")
                   /\ UNCHANGED <<n, hcs, what_dev>>
                \/ /\ r # "timeout" /\ turns > OpCondLoops
                   /\ IF hcs THEN n' = 0 /\ hcs' = FALSE /\ UNCHANGED <<pc, ret>>
                             ELSE n' = turns /\ hcs' = hcs /\ End("fail")
                   /\ UNCHANGED what_dev
                \/ /\ r # "timeout" /\ turns <= OpCondLoops /\ ~up
                   /\ n' = turns /\ UNCHANGED <<pc, ret, hcs, what_dev>>
                \/ /\ up /\ turns <= OpCondLoops
                   /\ what_dev' = (IF hcs /\ card.kind = "mmchc" THEN "mmchc"
                                                                ELSE "mmc")
                   /\ Goto("cmd2") /\ UNCHANGED <<ret, n, hcs>>
    /\ UNCHANGED <<retry, caller, rca, width, scr4, fast>>

(* CheckSDAppOpCond: CMD8.  A card that does not answer is taken for one of
   version 1. *)
SendIfCond ==
    /\ At("cmd8") /\ Keep
    /\ \E r \in Result :
         /\ Sent("CMD8", 0, r)
         /\ hcs' = (r = "ok")
         /\ IF r = "crc" THEN End(r) ELSE Goto("cmd55") /\ UNCHANGED ret
    /\ UNCHANGED <<retry, caller, n, what_dev, rca, width, scr4, fast>>

(* Its loop: CMD55, of whose failures only a bad CRC counts ... *)
AppCmd ==
    /\ At("cmd55") /\ Keep
    /\ \E r \in Result :
         /\ Sent("CMD55", 0, r)
         /\ IF r = "crc" THEN End(r) ELSE Goto("acmd41") /\ UNCHANGED ret
    /\ UNCHANGED <<retry, caller, n, hcs, what_dev, rca, width, scr4, fast>>

(* ... and ACMD41, until the card is ready.  The flag says whether the card
   was asked with HCS; what_dev follows from the answer's CCS. *)
SendOpCond ==
    /\ At("acmd41") /\ Keep
    /\ \E r \in Result :
         /\ Sent("ACMD41", 0, r)
         /\ CASE r \in {"timeout", "crc"} ->
                   End(r) /\ UNCHANGED <<n, what_dev>>
              [] r \notin {"timeout", "crc"} /\ n + 1 > OpCondLoops ->
                   End("fail") /\ what_dev' = "bad" /\ UNCHANGED n
              [] r \notin {"timeout", "crc"} /\ n + 1 <= OpCondLoops ->
                   /\ n' = n + 1 /\ UNCHANGED ret
                   /\ IF r = "ok" /\ card'.state = "ready"
                      THEN /\ Goto("cmd2")
                           /\ what_dev' = IF hcs /\ card.kind = "sdhc"
                                          THEN "sdhc" ELSE "sd"
                      ELSE Goto("cmd55") /\ UNCHANGED what_dev
    /\ UNCHANGED <<retry, caller, hcs, rca, width, scr4, fast>>

IsMmc == what_dev \in Mmc

(* CMD2, CMD3, CMD9 and CMD7: identification, address, CSD, selection *)
GetAllSendCIDNum ==
    /\ At("cmd2") /\ Keep
    /\ \E r \in Result :
         /\ Sent("CMD2", 0, r)
         /\ CASE r = "ok" -> Goto("cmd3") /\ UNCHANGED ret
              [] r = "crc" -> End(r)
              [] OTHER -> End("fail")
    /\ UNCHANGED <<retry, caller, n, hcs, what_dev, rca, width, scr4, fast>>

GetSetRelativeAddr ==
    /\ At("cmd3") /\ Keep
    /\ \E r \in Result :
         /\ Sent("CMD3", 0, r)
         /\ IF r = "ok" THEN rca' = 1 /\ Goto("cmd9") /\ UNCHANGED ret
                        ELSE rca' = -1 /\ End("fail")
    /\ UNCHANGED <<retry, caller, n, hcs, what_dev, width, scr4, fast>>

GetSendCSDNum ==
    /\ At("cmd9") /\ Keep
    /\ \E r \in Result :
         /\ Sent("CMD9", rca, r)
         /\ IF r = "ok" THEN Goto("cmd7") /\ fast' \in BOOLEAN /\ UNCHANGED ret
                        ELSE End("fail") /\ UNCHANGED fast
    /\ UNCHANGED <<retry, caller, n, hcs, what_dev, rca, width, scr4>>

ChangeCardToTransferState ==
    /\ At("cmd7") /\ Keep
    /\ \E r \in Result :
         /\ Sent("CMD7", rca, r)
         /\ IF r = "ok" THEN /\ Goto("status") /\ caller' = "cmd7" /\ n' = 0
                             /\ UNCHANGED ret
                        ELSE End("fail") /\ UNCHANGED <<caller, n>>
    /\ UNCHANGED <<retry, hcs, what_dev, rca, width, scr4, fast>>

(* What the three callers do with the answer of CheckCardStatus.  A switch
   that failed is a message; one that the device still programs is asked after
   again, for as long as it takes. *)
Answered(ok) ==
    CASE caller = "cmd7" /\ ok -> Goto("cmd16") /\ UNCHANGED <<ret, width>>
      [] caller = "cmd7" /\ ~ok -> End("fail") /\ UNCHANGED width
      [] caller = "width" -> /\ Goto("speed") /\ UNCHANGED ret
                             /\ width' = IF ok THEN 4 ELSE width
      [] caller = "speed" -> End("ok") /\ UNCHANGED width

(* One CMD13 of CheckCardStatus: a success with the last try is taken for a
   timeout.  mmc_switch_error is bit 6 of the status, with which a device asks
   for time of its own; SWITCH_ERROR, which tells whether the width was taken,
   is bit 7, which nobody looks at. *)
CheckCardStatus ==
    /\ At("status") /\ Keep
    /\ \E r \in Result :
         /\ Sent("CMD13", rca, r)
         /\ CASE n + 1 = StatusTries -> n' = 0 /\ Answered(FALSE)
              [] n + 1 < StatusTries /\ r # "ok" ->
                   n' = n + 1 /\ UNCHANGED <<pc, ret, width>>
              [] n + 1 < StatusTries /\ r = "ok" /\ card.state = "prg" ->
                   n' = 0 /\ UNCHANGED <<pc, ret, width>>
              [] n + 1 < StatusTries /\ r = "ok" /\ card.state # "prg" ->
                   n' = 0 /\ \E bit6 \in BOOLEAN : Answered(caller # "width" \/ ~bit6)
    /\ UNCHANGED <<retry, caller, hcs, what_dev, rca, scr4, fast>>

SetBlkLen512B ==
    /\ At("cmd16") /\ Keep
    /\ \E r \in Result :
         /\ Sent("CMD16", rca, r)
         /\ CASE r # "ok" -> End("fail")
              [] r = "ok" /\ IsMmc -> Goto("extcsd") /\ UNCHANGED ret
              [] r = "ok" /\ ~IsMmc -> Goto("scr55") /\ UNCHANGED ret
    /\ UNCHANGED <<retry, caller, n, hcs, what_dev, rca, width, scr4, fast>>

(* eMMC: EXT_CSD, whose failure is only a message; the status before it is
   always "tran", and StatusTries (100) fewer than the faults would take *)
GetMMCExtCSD ==
    /\ At("extcsd") /\ Keep
    /\ \E r \in {"ok", "fail"} : DataSent("EXT_CSD", r)
    /\ Goto("width")
    /\ UNCHANGED <<ret, retry, caller, n, hcs, what_dev, rca, width, scr4, fast>>

(* DoMMCSwitch, for the bus width and then for the speed *)
DoMMCSwitch ==
    /\ pc \in {"width", "speed"} /\ At(pc)
    /\ n' = 0 /\ caller' = pc
    /\ \E r \in Result :
         /\ Sent(pc, rca, r)
         /\ CASE r = "ok" -> Goto("status") /\ UNCHANGED ret
              [] r # "ok" /\ pc = "width" -> Goto("speed") /\ UNCHANGED ret
              [] r # "ok" /\ pc = "speed" -> End("ok")
         /\ missed' = IF pc = "width" /\ r = "ok" /\ card'.width = 1
                      THEN "switch" ELSE missed
    /\ UNCHANGED <<retry, hcs, what_dev, rca, width, scr4, fast>>

(* SD: CMD55 and ACMD51, the SCR.  One of an unknown structure is as good as
   one that says one bit, version 1.0. *)
ScrAppCmd ==
    /\ At("scr55") /\ Keep
    /\ \E r \in Result :
         /\ Sent("CMD55", rca, r)
         /\ IF r = "ok" THEN Goto("acmd51") /\ UNCHANGED ret ELSE End(r)
    /\ UNCHANGED <<retry, caller, n, hcs, what_dev, rca, width, scr4, fast>>

GetSDSCRNum ==
    /\ At("acmd51") /\ Keep
    /\ \E r \in {"ok", "fail"} :
         /\ DataSent("ACMD51", r)
         /\ CASE r = "fail" -> End(r) /\ UNCHANGED <<scr4, fast>>
              [] r = "ok" -> \E known \in BOOLEAN :
                   /\ scr4' = (known /\ card.wide)
                   /\ fast' = (known /\ fast /\ card.kind # "sd1")
                   /\ Goto(IF scr4' THEN "w55" ELSE "hs") /\ UNCHANGED ret
    /\ UNCHANGED <<retry, caller, n, hcs, what_dev, rca, width>>

(* SetSDBusWidth: CMD55 and ACMD6.  After a bad CRC the card may or may not
   have changed, and all is begun again; after another failure the card is
   taken for one that has not (mutant: a bad CRC is such a failure too). *)
OneBit_badCrc(r) == IF r = "none" THEN End(r) ELSE Goto("hs") /\ UNCHANGED ret

OneBit(r) == IF r = "crc" THEN End(r) ELSE Goto("hs") /\ UNCHANGED ret

WidthAppCmd ==
    /\ At("w55") /\ Keep
    /\ \E r \in Result :
         /\ Sent("CMD55", rca, r)
         /\ IF r = "ok" THEN Goto("acmd6") /\ UNCHANGED ret ELSE OneBit(r)
    /\ UNCHANGED <<retry, caller, n, hcs, what_dev, rca, width, scr4, fast>>

BusWidth(r) == IF r = "ok" THEN 4 ELSE width

SetSDBusWidth ==
    /\ At("acmd6")
    /\ \E r \in Result :
         /\ Sent("ACMD6", rca, r)
         /\ missed' = IF r \in {"timeout", "fail"} THEN "acmd6" ELSE missed
         /\ width' = BusWidth(r)
         /\ IF r = "ok" THEN Goto("hs") /\ UNCHANGED ret ELSE OneBit(r)
    /\ UNCHANGED <<retry, caller, n, hcs, what_dev, rca, scr4, fast>>

(* ChangeSDToHiSpeedMode: CMD6 is sent as a command without data, so that the
   64 bytes are never received; CMD12 follows, which a card in this state does
   not answer.  Neither result counts. *)
ChangeSDToHiSpeedMode ==
    /\ At("hs") /\ Keep /\ End("ok")
    /\ IF fast THEN \E r \in Result : Sent("CMD6", rca, r)
               ELSE UNCHANGED <<card, faults>>
    /\ UNCHANGED <<retry, caller, n, hcs, what_dev, rca, width, scr4, fast>>

(* initDriver_SD (mutant: the repetition is not counted) *)
Repeat_notCounted ==
    IF ret \notin {"ok", "timeout"} /\ retry > 0
    THEN retry' = retry /\ Goto("cmd0")
    ELSE retry' = retry /\ Goto("done")

Repeat ==
    IF ret \notin {"ok", "timeout"} /\ retry > 0
    THEN retry' = retry - 1 /\ Goto("cmd0")
    ELSE retry' = retry /\ Goto("done")

initDriver_SD ==
    /\ At("end") /\ Repeat /\ Keep
    /\ UNCHANGED <<card, faults, ret, caller, n, hcs, what_dev, rca, width,
                   scr4, fast>>

Driver ==
    \/ InitChipCtrl \/ IdentifyStorage \/ CheckMMCOpCond \/ SendIfCond
    \/ AppCmd \/ SendOpCond \/ GetAllSendCIDNum \/ GetSetRelativeAddr
    \/ GetSendCSDNum \/ ChangeCardToTransferState \/ CheckCardStatus
    \/ SetBlkLen512B \/ GetMMCExtCSD \/ DoMMCSwitch \/ ScrAppCmd
    \/ GetSDSCRNum \/ WidthAppCmd \/ SetSDBusWidth
    \/ ChangeSDToHiSpeedMode \/ initDriver_SD

Next == Driver \/ Program

(* The driver runs on, and an eMMC device ends a switch some time. *)
Spec == Init /\ [][Next]_vars /\ WF_vars(Driver) /\ WF_vars(Program)

-----------------------------------------------------------------------------
(* Properties *)

Identified == pc = "done" /\ ret = "ok"

(* When initDriver_SD reports success there is a card, it is selected under
   the address the driver keeps, and the driver addresses it by sectors
   exactly when the card is of high capacity, whichever commands and responses
   were lost on the way: a card of high capacity whose answer to CMD8 is lost
   is not asked with HCS, never becomes ready, and is tried again.  Not so when
   the controller has failed at CMD0: then success is reported, and nothing has
   been identified. *)
IdentifiedRight ==
    Identified /\ missed # "cmd0" =>
        /\ card.kind # "none" /\ rca = card.rca
        /\ card.state \in {"tran", "prg"}
        /\ what_dev = (IF card.kind \in {"sd1", "sd2"} THEN "sd" ELSE card.kind)

(* The controller never uses more lines than the card, though a card may have
   kept four lines from an earlier identification and CMD0 may be lost, unless
   an eMMC device has refused the switch, which the driver does not notice.
   Of an SD card that is identified it uses as many as the card does, unless
   the response to ACMD6 did not come at all. *)
WidthsAgree ==
    /\ width = 4 /\ pc # "chip" /\ missed # "switch" => card.width = 4
    /\ Identified /\ slot = "sd" /\ missed = "none" => width = card.width

(* CheckMMCOpCond gives up a device that has been asked after in vain, and
   initDriver_SD after nine attempts: identification ends. *)
IdentificationEnds == <>(pc = "done")
=============================================================================
