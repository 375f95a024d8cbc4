-------------------------- MODULE SdIdentify_proofs --------------------------
(***************************************************************************)
(* Proofs about SdIdentify for any number of repetitions, questions and    *)
(* lost or broken commands: the card that is reported is the one that is   *)
(* there, and the controller has its bus width.                            *)
(***************************************************************************)
EXTENDS SdIdentify, TLAPS

(* A card that is not selected has one line; SD cards are in the SD slot. *)
Unselected == {"idle", "ready", "ident", "stby"}
CardInv ==
    /\ card.state \in Unselected => card.width = 1
    /\ card.kind \in Sd => slot = "sd"
    /\ card.kind \in Mmc => slot = "emmc"

(* What the driver knows of the card, and what state the card is in, though
   each response may be the only one that was not lost *)
Known == /\ card.kind # "none"
         /\ what_dev = (IF card.kind \in {"sd1", "sd2"} THEN "sd" ELSE card.kind)
Selected == Known /\ rca = card.rca /\ card.state \in {"tran", "prg"}
Early == {"cmd16", "extcsd", "width", "scr55", "acmd51", "w55", "acmd6"}
Reported == pc \in {"end", "done"} /\ ret = "ok"
Succeeded == Reported /\ missed # "cmd0"
PathInv ==
    /\ pc = "cmd2" => Known /\ card.state = "ready"
    /\ pc = "cmd3" => Known /\ card.state = "ident"
    /\ pc \in {"cmd9", "cmd7"} => Known /\ rca = card.rca /\ card.state = "stby"
    /\ pc \in Early \/ (pc = "status" /\ caller = "cmd7") =>
           Selected /\ card.state = "tran" /\ card.width = 1
    /\ pc = "hs" => Selected /\ card.state = "tran"
    /\ pc \in {"speed", "status"} \/ Succeeded => Selected

(* Which loop and which branch the driver is in *)
BranchInv ==
    /\ pc = "cmd1" => n <= OpCondLoops
    /\ pc = "status" => n < StatusTries /\ caller # "none"
    /\ pc \in {"extcsd", "width", "speed"} => slot = "emmc"
    /\ pc = "status" /\ caller # "cmd7" => slot = "emmc"
    /\ pc \in {"scr55", "acmd51", "w55", "acmd6", "hs"} => slot = "sd"

(* Four lines are behind the last place from where all is begun again. *)
WidthInv ==
    /\ width = 4 => \/ pc = "chip"
                    \/ /\ card.width = 4 \/ missed = "switch"
                       /\ \/ pc \in {"hs", "speed"} \/ Reported
                          \/ pc = "status" /\ caller = "speed"
    /\ pc = "status" /\ caller = "width" => card.width = 4 \/ missed = "switch"
    /\ (pc = "hs" \/ Reported) /\ slot = "sd" /\ missed = "none" => width = card.width

IInv == TypeOK /\ CardInv /\ PathInv /\ BranchInv /\ WidthInv

-----------------------------------------------------------------------------
(* What a command does to a card: it stays the card that it is, one that is
   not selected keeps one line, and its address is 1 as soon as it has one. *)

Command == {"CMD8", "CMD55", "ACMD41", "CMD1", "CMD2", "CMD3", "CMD9", "CMD7", "CMD13",
            "CMD16", "EXT_CSD", "ACMD51", "ACMD6", "width", "speed", "CMD6"}
SameCard(d) ==
    /\ d \in Card /\ d.kind = card.kind /\ d.wide = card.wide
    /\ d.state \in Unselected => d.width = 1

LEMMA AnswerIsSameCard ==
    ASSUME card \in Card, CardInv, NEW c \in Command, NEW a, NEW d \in After(c, a)
    PROVE  SameCard(d)
<1>1. card \in Card /\ (card.state \in Unselected => card.width = 1)
  BY DEF CardInv
<1>2. CASE c = "CMD8"
  BY <1>1, <1>2 DEF After, Card, SameCard, Unselected
<1>3. CASE c = "CMD55"
  BY <1>1, <1>3 DEF After, Card, SameCard, Unselected
<1>4. CASE c = "ACMD41"
  <2>1. /\ card.state = "idle"
        /\ \/ d = [card EXCEPT !.state = "idle", !.app = FALSE]
           \/ d = [card EXCEPT !.state = "ready", !.app = FALSE]
    BY <1>4 DEF After
  <2>2. QED  BY <1>1, <2>1 DEF Card, SameCard, Unselected
<1>5. CASE c = "CMD1"
  <2>1. /\ card.state = "idle"
        /\ \/ d = [card EXCEPT !.state = "idle", !.app = FALSE]
           \/ d = [card EXCEPT !.state = "ready", !.app = FALSE]
    BY <1>5 DEF After
  <2>2. QED  BY <1>1, <2>1 DEF Card, SameCard, Unselected
<1>6. CASE c = "CMD2"
  BY <1>1, <1>6 DEF After, Card, SameCard, Unselected
<1>7. CASE c = "CMD3"
  BY <1>1, <1>7 DEF After, Card, SameCard, Unselected
<1>8. CASE c = "CMD9"
  BY <1>1, <1>8 DEF After, Card, SameCard, Unselected
<1>9. CASE c = "CMD7"
  BY <1>1, <1>9 DEF After, Card, SameCard, Unselected
<1>10. CASE c = "CMD13"
  BY <1>1, <1>10 DEF After, Card, SameCard, Unselected
<1>11. CASE c = "CMD16"
  BY <1>1, <1>11 DEF After, Card, SameCard, Unselected
<1>12. CASE c = "EXT_CSD"
  BY <1>1, <1>12 DEF After, Card, SameCard, Unselected
<1>13. CASE c = "ACMD51"
  BY <1>1, <1>13 DEF After, Card, SameCard, Unselected
<1>14. CASE c = "ACMD6"
  BY <1>1, <1>14 DEF After, Card, SameCard, Unselected
<1>15. CASE c = "width"
  <2>1. \/ d = [card EXCEPT !.state = "prg", !.app = FALSE]
        \/ d = [card EXCEPT !.state = "prg", !.width = 4]
    BY <1>15 DEF After
  <2>2. QED  BY <1>1, <2>1 DEF Card, SameCard, Unselected
<1>16. CASE c = "speed"
  BY <1>1, <1>16 DEF After, Card, SameCard, Unselected
<1>17. CASE c = "CMD6"
  BY <1>1, <1>17 DEF After, Card, SameCard, Unselected
<1>. QED
  BY <1>2, <1>3, <1>4, <1>5, <1>6, <1>7, <1>8, <1>9, <1>10, <1>11, <1>12, <1>13, <1>14, <1>15, <1>16, <1>17 DEF Command

LEMMA ConstantCard ==
    ASSUME CardInv, SameCard(card'), slot' = slot
    PROVE  CardInv'
BY DEF CardInv, SameCard

LEMMA SentFacts ==
    ASSUME TypeOK, CardInv, NEW c \in Command, NEW a, NEW r, Sent(c, a, r)
    PROVE  /\ SameCard(card') /\ faults' \in 0..MaxFaults
           /\ r = "ok" => card' \in After(c, a)
           /\ r # "ok" => card' = card \/ card' \in After(c, a)
<1>1. card \in Card /\ SameCard(card) /\ faults \in 0..MaxFaults /\ MaxFaults \in Nat
  BY SdIdentifyAssumption DEF TypeOK, SameCard, CardInv
<1>2. card' = card \/ card' \in After(c, a)
  BY DEF Sent
<1>3. r = "ok" => card' \in After(c, a)
  BY DEF Sent
<1>4. faults' = faults \/ (faults < MaxFaults /\ faults' = faults + 1)
  BY DEF Sent
<1>. QED
  BY <1>1, <1>2, <1>3, <1>4, AnswerIsSameCard

LEMMA DataSentFacts ==
    ASSUME TypeOK, CardInv, NEW c \in Command, NEW r, DataSent(c, r)
    PROVE  /\ SameCard(card') /\ faults' \in 0..MaxFaults
           /\ card' = card \/ card' \in After(c, rca)
<1>1. card \in Card /\ SameCard(card) /\ faults \in 0..MaxFaults /\ MaxFaults \in Nat
  BY SdIdentifyAssumption DEF TypeOK, SameCard, CardInv
<1>2. card' = card \/ card' \in After(c, rca)
  BY DEF DataSent
<1>4. faults' = faults \/ (faults < MaxFaults /\ faults' = faults + 1)
  BY DEF DataSent
<1>. QED
  BY <1>1, <1>2, <1>4, AnswerIsSameCard

LEMMA ResetFacts ==
    ASSUME TypeOK, CardInv, Reset \/ ControllerFails
    PROVE  SameCard(card') /\ faults' \in 0..MaxFaults
<1>1. card \in Card /\ SameCard(card) /\ faults \in 0..MaxFaults /\ MaxFaults \in Nat
  BY SdIdentifyAssumption DEF TypeOK, SameCard, CardInv
<1>2. card' = card \/ card' = Cold
  BY DEF Reset, ControllerFails
<1>3. SameCard(Cold)
  BY <1>1 DEF Cold, SameCard, Card, Unselected
<1>4. faults' = faults \/ (faults < MaxFaults /\ faults' = faults + 1)
  BY DEF Reset, ControllerFails
<1>. QED
  BY <1>1, <1>2, <1>3, <1>4

-----------------------------------------------------------------------------
THEOREM InitIInv == Init => IInv
<1> SUFFICES ASSUME Init PROVE IInv
  OBVIOUS
<1>1. TypeOK
  <2>1. card \in Card /\ slot \in {"sd", "emmc"}
    <3>1. PICK k \in Kind, w \in BOOLEAN :
            card \in {[kind |-> k, state |-> "idle", rca |-> 0, width |-> 1,
                      app |-> FALSE, wide |-> w],
                     [kind |-> k, state |-> "tran", rca |-> 1, app |-> FALSE,
                      width |-> IF w THEN 4 ELSE 1, wide |-> w]}
      BY DEF Init, Kind
    <3>2. slot \in {"sd", "emmc"}
      BY DEF Init
    <3>3. (IF w THEN 4 ELSE 1) \in {1, 4}
      OBVIOUS
    <3>4. CASE card = [kind |-> k, state |-> "idle", rca |-> 0, width |-> 1,
                       app |-> FALSE, wide |-> w]
      BY <3>1, <3>2, <3>4 DEF Card
    <3>5. CASE card = [kind |-> k, state |-> "tran", rca |-> 1, app |-> FALSE,
                       width |-> IF w THEN 4 ELSE 1, wide |-> w]
      BY <3>1, <3>2, <3>3, <3>5 DEF Card
    <3>. QED
      BY <3>1, <3>4, <3>5
  <2>2. n \in 0..(OpCondLoops + 201) /\ retry \in 0..Identify /\ faults \in 0..MaxFaults
    BY SdIdentifyAssumption DEF Init
  <2>3. width \in {1, 4}
    BY <2>1 DEF Init, Card
  <2>. QED
    BY <2>1, <2>2, <2>3 DEF Init, TypeOK, Result
<1>2. CardInv /\ PathInv /\ BranchInv /\ WidthInv
  BY DEF Init, CardInv, PathInv, BranchInv, WidthInv, Unselected, Early, Succeeded, Reported, Sd, Mmc
<1>. QED
  BY <1>1, <1>2 DEF IInv

(* the first steps: what is known of the card is forgotten *)
LEMMA StartIInv == IInv /\ (InitChipCtrl \/ IdentifyStorage) => IInv'
<1> SUFFICES ASSUME IInv, InitChipCtrl \/ IdentifyStorage PROVE IInv'
  OBVIOUS
<1>1. TypeOK /\ CardInv /\ WidthInv
  BY DEF IInv
<1>2. SameCard(card') /\ faults' \in 0..MaxFaults /\ slot' = slot
  BY <1>1, ResetFacts DEF InitChipCtrl, IdentifyStorage, At, TypeOK, SameCard, CardInv
<1>3. CardInv'
  BY <1>1, <1>2, ConstantCard
<1>4. CASE InitChipCtrl
  <2>1. TypeOK'
    BY <1>1, <1>2, <1>4 DEF TypeOK, InitChipCtrl, Keep, Goto, At, SameCard
  <2>2. pc' = "cmd0" /\ width' = 1
    BY <1>4 DEF InitChipCtrl, Goto
  <2>3. PathInv' /\ BranchInv' /\ WidthInv'
    BY <2>2 DEF PathInv, BranchInv, WidthInv, Early, Succeeded, Reported
  <2>. QED
    BY <1>3, <2>1, <2>3 DEF IInv
<1>5. CASE IdentifyStorage
  <2>1. /\ pc = "cmd0" /\ width' = width /\ retry' = retry /\ caller' = caller
        /\ rca' = rca /\ scr4' = scr4 /\ fast' = fast
    BY <1>5 DEF IdentifyStorage, At
  <2>2. width = 1
    BY <1>1, <2>1 DEF WidthInv, Reported, TypeOK
  <2>3. \/ /\ pc' \in {"cmd1", "cmd8"} /\ n' = 0 /\ ret' = ret /\ missed' = missed
           /\ what_dev' = "bad" /\ hcs' \in BOOLEAN
        \/ /\ pc' = "end" /\ UNCHANGED <<what_dev, n, hcs>>
           /\ \/ ret' = "ok" /\ missed' = "cmd0"
              \/ ret' = "fail" /\ missed' = missed
    BY <1>5 DEF IdentifyStorage, Goto, End, Keep
  <2>4. ret' \in Result /\ missed' \in {"none", "acmd6", "switch", "cmd0"}
    BY <1>1, <2>3 DEF TypeOK, Result
  <2>5. n' \in 0..(OpCondLoops + 201) \union 0..(StatusTries - 1)
    BY <1>1, <2>3, SdIdentifyAssumption DEF TypeOK
  <2>6. TypeOK'
    BY <1>1, <1>2, <2>1, <2>3, <2>4, <2>5 DEF TypeOK, SameCard
  <2>7. PathInv' /\ BranchInv'
    BY <2>3, SdIdentifyAssumption DEF PathInv, BranchInv, Early, Succeeded, Reported
  <2>8. WidthInv'
    BY <2>1, <2>2, <2>3 DEF WidthInv, Reported
  <2>. QED
    BY <1>3, <2>6, <2>7, <2>8 DEF IInv
<1>. QED
  BY <1>4, <1>5

(* The commands up to the card's selection *)
LEMMA NotWide ==
    ASSUME IInv, pc \notin {"chip", "hs", "speed", "status", "end", "done"}
    PROVE  width = 1
BY DEF IInv, TypeOK, WidthInv, Succeeded, Reported

LEMMA CheckMMCOpCondIInv == IInv /\ CheckMMCOpCond => IInv'
<1> SUFFICES ASSUME IInv, CheckMMCOpCond PROVE IInv'
  OBVIOUS
<1>1. TypeOK /\ CardInv /\ pc = "cmd1" /\ width = 1 /\ n <= OpCondLoops
  BY NotWide DEF IInv, CheckMMCOpCond, At, BranchInv
<1>2. PICK r \in Result :
        /\ Sent("CMD1", 0, r)
        /\ LET up == r = "ok" /\ card'.state = "ready"
               turns == n + (IF n + 1 > 5 /\ r # "ok" THEN 201 ELSE 1)
           IN  \/ /\ r = "timeout" /\ End("fail")
                  /\ UNCHANGED <<n, hcs, what_dev>>
               \/ /\ r # "timeout" /\ turns > OpCondLoops
                  /\ IF hcs THEN n' = 0 /\ hcs' = FALSE /\ UNCHANGED <<pc, ret>>
                            ELSE n' = turns /\ hcs' = hcs /\ End("fail")
                  /\ UNCHANGED what_dev
               \/ /\ r # "timeout" /\ turns <= OpCondLoops /\ ~up
                  /\ n' = turns /\ UNCHANGED <<pc, ret, hcs, what_dev>>
               \/ /\ up /\ turns <= OpCondLoops
                  /\ what_dev' = (IF hcs /\ card.kind = "mmchc" THEN "mmchc" ELSE "mmc")
                  /\ Goto("cmd2") /\ UNCHANGED <<ret, n, hcs>>
  BY DEF CheckMMCOpCond
<1>3. /\ SameCard(card') /\ faults' \in 0..MaxFaults
      /\ r = "ok" => card' \in After("CMD1", 0)
  BY <1>1, <1>2, SentFacts DEF Command
<1>4. /\ slot' = slot /\ retry' = retry /\ caller' = caller /\ rca' = rca /\ width' = width
      /\ scr4' = scr4 /\ fast' = fast /\ missed' = missed
  BY DEF CheckMMCOpCond, At, Keep
<1>5. CardInv'
  BY <1>1, <1>3, <1>4, ConstantCard
<1>6. n \in Nat /\ OpCondLoops \in Nat /\ StatusTries \in Nat \ {0}
  BY <1>1, SdIdentifyAssumption DEF TypeOK
<1>7. n' \in 0..(OpCondLoops + 201) /\ (pc' = "cmd1" => n' <= OpCondLoops)
  <2>1. n \in 0..(OpCondLoops + 201)
    BY <1>1, <1>6
  <2>. QED
    BY <1>1, <1>2, <1>6, <2>1 DEF End, Goto
<1>8. /\ pc' \in {"cmd1", "cmd2", "end"} /\ ret' \in Result /\ (pc' = "end" => ret' = "fail")
      /\ hcs' \in BOOLEAN /\ what_dev' \in {"unset", "bad", "sd", "sdhc", "mmc", "mmchc"}
  BY <1>1, <1>2 DEF End, Goto, TypeOK, Result
<1>9. pc' = "cmd2" => Known' /\ card'.state = "ready"
  <2> SUFFICES ASSUME pc' = "cmd2" PROVE Known' /\ card'.state = "ready"
    OBVIOUS
  <2>1. /\ r = "ok" /\ card'.state = "ready"
        /\ what_dev' = (IF hcs /\ card.kind = "mmchc" THEN "mmchc" ELSE "mmc")
    BY <1>1, <1>2 DEF End
  <2>2. card.kind \in Mmc /\ (hcs \/ card.kind # "mmchc")
    BY <1>1, <1>3, <2>1 DEF After, AsksHighCapacity, TypeOK, Card
  <2>3. card'.kind = card.kind
    BY <1>3 DEF SameCard
  <2>. QED
    BY <2>1, <2>2, <2>3 DEF Known, Mmc
<1>10. TypeOK'
  BY <1>1, <1>3, <1>4, <1>7, <1>8 DEF TypeOK, SameCard
<1>11. PathInv' /\ BranchInv' /\ WidthInv'
  BY <1>1, <1>4, <1>7, <1>8, <1>9 DEF PathInv, BranchInv, WidthInv, Early, Succeeded, Reported
<1>. QED
  BY <1>5, <1>10, <1>11 DEF IInv

LEMMA SendIfCondIInv == IInv /\ SendIfCond => IInv'
<1> SUFFICES ASSUME IInv, SendIfCond PROVE IInv'
  OBVIOUS
<1>1. TypeOK /\ CardInv /\ pc = "cmd8" /\ width = 1
  BY NotWide DEF IInv, SendIfCond, At
<1>2. PICK r \in Result :
        /\ Sent("CMD8", 0, r) /\ hcs' = (r = "ok")
        /\ IF r = "crc" THEN End(r) ELSE Goto("cmd55") /\ UNCHANGED ret
  BY DEF SendIfCond
<1>3. SameCard(card') /\ faults' \in 0..MaxFaults
  BY <1>1, <1>2, SentFacts DEF Command
<1>4. /\ slot' = slot /\ retry' = retry /\ caller' = caller /\ rca' = rca /\ width' = width
      /\ scr4' = scr4 /\ fast' = fast /\ missed' = missed /\ n' = n /\ what_dev' = what_dev
  BY DEF SendIfCond, At, Keep
<1>5. CardInv'
  BY <1>1, <1>3, <1>4, ConstantCard
<1>6. /\ pc' \in {"cmd55", "end"} /\ ret' \in Result /\ (pc' = "end" => ret' = "crc")
      /\ hcs' \in BOOLEAN
  BY <1>1, <1>2 DEF End, Goto, TypeOK
<1>7. TypeOK'
  BY <1>1, <1>3, <1>4, <1>6 DEF TypeOK, SameCard
<1>8. PathInv' /\ BranchInv' /\ WidthInv'
  BY <1>1, <1>4, <1>6 DEF PathInv, BranchInv, WidthInv, Early, Succeeded, Reported
<1>. QED
  BY <1>5, <1>7, <1>8 DEF IInv

LEMMA AppCmdIInv == IInv /\ AppCmd => IInv'
<1> SUFFICES ASSUME IInv, AppCmd PROVE IInv'
  OBVIOUS
<1>1. TypeOK /\ CardInv /\ pc = "cmd55" /\ width = 1
  BY NotWide DEF IInv, AppCmd, At
<1>2. PICK r \in Result :
        /\ Sent("CMD55", 0, r)
        /\ IF r = "crc" THEN End(r) ELSE Goto("acmd41") /\ UNCHANGED ret
  BY DEF AppCmd
<1>3. SameCard(card') /\ faults' \in 0..MaxFaults
  BY <1>1, <1>2, SentFacts DEF Command
<1>4. /\ slot' = slot /\ retry' = retry /\ caller' = caller /\ rca' = rca /\ width' = width
      /\ scr4' = scr4 /\ fast' = fast /\ missed' = missed /\ n' = n /\ what_dev' = what_dev
      /\ hcs' = hcs
  BY DEF AppCmd, At, Keep
<1>5. CardInv'
  BY <1>1, <1>3, <1>4, ConstantCard
<1>6. pc' \in {"acmd41", "end"} /\ ret' \in Result /\ (pc' = "end" => ret' = "crc")
  BY <1>1, <1>2 DEF End, Goto, TypeOK
<1>7. TypeOK'
  BY <1>1, <1>3, <1>4, <1>6 DEF TypeOK, SameCard
<1>8. PathInv' /\ BranchInv' /\ WidthInv'
  BY <1>1, <1>4, <1>6 DEF PathInv, BranchInv, WidthInv, Early, Succeeded, Reported
<1>. QED
  BY <1>5, <1>7, <1>8 DEF IInv

LEMMA SendOpCondIInv == IInv /\ SendOpCond => IInv'
<1> SUFFICES ASSUME IInv, SendOpCond PROVE IInv'
  OBVIOUS
<1>1. TypeOK /\ CardInv /\ pc = "acmd41" /\ width = 1
  BY NotWide DEF IInv, SendOpCond, At
<1>2. PICK r \in Result :
        /\ Sent("ACMD41", 0, r)
        /\ CASE r \in {"timeout", "crc"} ->
                   End(r) /\ UNCHANGED <<n, what_dev>>
             [] r \notin {"timeout", "crc"} /\ n + 1 > OpCondLoops ->
                   End("fail") /\ what_dev' = "bad" /\ UNCHANGED n
             [] r \notin {"timeout", "crc"} /\ n + 1 <= OpCondLoops ->
                   /\ n' = n + 1 /\ UNCHANGED ret
                   /\ IF r = "ok" /\ card'.state = "ready"
                      THEN /\ Goto("cmd2")
                           /\ what_dev' = IF hcs /\ card.kind = "sdhc"
                                          THEN "sdhc" ELSE "sd"
                      ELSE Goto("cmd55") /\ UNCHANGED what_dev
  BY DEF SendOpCond
<1>3. /\ SameCard(card') /\ faults' \in 0..MaxFaults
      /\ r = "ok" => card' \in After("ACMD41", 0)
  BY <1>1, <1>2, SentFacts DEF Command
<1>4. /\ slot' = slot /\ retry' = retry /\ caller' = caller /\ rca' = rca /\ width' = width
      /\ scr4' = scr4 /\ fast' = fast /\ missed' = missed /\ hcs' = hcs
  BY DEF SendOpCond, At, Keep
<1>5. CardInv'
  BY <1>1, <1>3, <1>4, ConstantCard
<1>6. n \in Nat /\ OpCondLoops \in Nat /\ StatusTries \in Nat \ {0}
      /\ n \in 0..(OpCondLoops + 201) \union 0..(StatusTries - 1)
  BY <1>1, SdIdentifyAssumption DEF TypeOK
<1>7. \/ /\ pc' = "end" /\ ret' \in {"timeout", "crc", "fail"} /\ n' = n
         /\ what_dev' \in {what_dev, "bad"}
      \/ /\ n' = n + 1 /\ n + 1 <= OpCondLoops /\ ret' = ret
         /\ \/ pc' = "cmd55" /\ what_dev' = what_dev
            \/ /\ pc' = "cmd2" /\ r = "ok" /\ card'.state = "ready"
               /\ what_dev' = IF hcs /\ card.kind = "sdhc" THEN "sdhc" ELSE "sd"
  <2>1. CASE r \in {"timeout", "crc"}
    BY <1>2, <2>1 DEF End
  <2>2. CASE r \notin {"timeout", "crc"} /\ n + 1 > OpCondLoops
    <3>1. ~(n + 1 <= OpCondLoops)
      BY <1>6, <2>2
    <3>2. End("fail") /\ what_dev' = "bad" /\ UNCHANGED n
      BY <1>2, <2>2, <3>1, Zenon
    <3>. QED
      BY <3>2 DEF End
  <2>3. CASE r \notin {"timeout", "crc"} /\ n + 1 <= OpCondLoops
    BY <1>2, <1>6, <2>3 DEF Goto
  <2>. QED
    BY <1>6, <2>1, <2>2, <2>3
<1>8. n' \in 0..(OpCondLoops + 201) \union 0..(StatusTries - 1)
  BY <1>6, <1>7
<1>9. pc' = "cmd2" => Known' /\ card'.state = "ready"
  <2> SUFFICES ASSUME pc' = "cmd2" PROVE Known' /\ card'.state = "ready"
    OBVIOUS
  <2>1. /\ r = "ok" /\ card'.state = "ready"
        /\ what_dev' = IF hcs /\ card.kind = "sdhc" THEN "sdhc" ELSE "sd"
    BY <1>7
  <2>2. card.kind \in Sd /\ (hcs \/ card.kind # "sdhc")
    BY <1>1, <1>3, <2>1 DEF After, AsksHighCapacity, TypeOK, Card
  <2>3. card'.kind = card.kind
    BY <1>3 DEF SameCard
  <2>. QED
    BY <2>1, <2>2, <2>3 DEF Known, Sd
<1>10. TypeOK'
  <2>1. ret' \in Result /\ what_dev' \in {"unset", "bad", "sd", "sdhc", "mmc", "mmchc"}
    BY <1>1, <1>7 DEF TypeOK, Result
  <2>. QED
    BY <1>1, <1>3, <1>4, <1>8, <2>1 DEF TypeOK, SameCard
<1>11. pc' \in {"cmd55", "cmd2", "end"} /\ (pc' = "end" => ret' # "ok")
  BY <1>7
<1>12. PathInv' /\ BranchInv' /\ WidthInv'
  BY <1>1, <1>4, <1>9, <1>11 DEF PathInv, BranchInv, WidthInv, Early, Succeeded, Reported
<1>. QED
  BY <1>5, <1>10, <1>12 DEF IInv

(* What the commands do that choose, address and select the card *)
LEMMA SelectAnswers ==
    ASSUME card \in Card, NEW a, NEW d
    PROVE  /\ d \in After("CMD2", a) => d.state = "ident"
           /\ d \in After("CMD3", a) => d.state = "stby" /\ d.rca = 1
           /\ d \in After("CMD9", a) => d.state = "stby" /\ d.rca = card.rca
           /\ d \in After("CMD7", a) =>
                  d.state = "tran" /\ d.rca = card.rca /\ d.width = card.width
<1>1. d \in After("CMD2", a) => d.state = "ident"
  BY DEF After, Card
<1>2. d \in After("CMD3", a) => d.state = "stby" /\ d.rca = 1
  BY DEF After, Card
<1>3. d \in After("CMD9", a) => d.state = "stby" /\ d.rca = card.rca
  BY DEF After, Card
<1>4. d \in After("CMD7", a) =>
          d.state = "tran" /\ d.rca = card.rca /\ d.width = card.width
  BY DEF After, Card
<1>. QED
  BY <1>1, <1>2, <1>3, <1>4

(* ... and those that a selected card is asked or told *)
Telling == {"CMD13", "CMD16", "EXT_CSD", "CMD55", "ACMD51", "CMD6"}
AsBefore(d) == d.state = card.state /\ d.rca = card.rca /\ d.width = card.width
LEMMA SelectedAnswers ==
    ASSUME card \in Card, NEW a, NEW d
    PROVE  /\ \A c \in Telling : d \in After(c, a) => AsBefore(d)
           /\ d \in After("ACMD6", a) =>
                  d.state = "tran" /\ d.rca = card.rca /\ d.width = 4
           /\ d \in After("width", a) => d.state = "prg" /\ d.rca = card.rca
           /\ d \in After("speed", a) =>
                  d.state = "prg" /\ d.rca = card.rca /\ d.width = card.width
<1>1. d \in After("CMD13", a) => AsBefore(d)
  BY DEF After, Card, AsBefore
<1>2. d \in After("CMD16", a) => AsBefore(d)
  BY DEF After, Card, AsBefore
<1>3. d \in After("EXT_CSD", a) => AsBefore(d)
  BY DEF After, Card, AsBefore
<1>4. d \in After("CMD55", a) => AsBefore(d)
  BY DEF After, Card, AsBefore
<1>5. d \in After("ACMD51", a) => AsBefore(d)
  BY DEF After, Card, AsBefore
<1>6. d \in After("CMD6", a) => AsBefore(d)
  BY DEF After, Card, AsBefore
<1>7. d \in After("ACMD6", a) => d.state = "tran" /\ d.rca = card.rca /\ d.width = 4
  BY DEF After, Card
<1>8. d \in After("width", a) => d.state = "prg" /\ d.rca = card.rca
  BY DEF After, Card
<1>9. d \in After("speed", a) =>
          d.state = "prg" /\ d.rca = card.rca /\ d.width = card.width
  BY DEF After, Card
<1>. QED
  BY <1>1, <1>2, <1>3, <1>4, <1>5, <1>6, <1>7, <1>8, <1>9 DEF Telling

LEMMA GetAllSendCIDNumIInv == IInv /\ GetAllSendCIDNum => IInv'
<1> SUFFICES ASSUME IInv, GetAllSendCIDNum PROVE IInv'
  OBVIOUS
<1>1. TypeOK /\ CardInv /\ pc = "cmd2" /\ width = 1 /\ Known /\ card \in Card
  BY NotWide DEF IInv, GetAllSendCIDNum, At, PathInv, TypeOK
<1>2. PICK r \in Result :
        /\ Sent("CMD2", 0, r)
        /\ CASE r = "ok" -> Goto("cmd3") /\ UNCHANGED ret
             [] r = "crc" -> End(r)
             [] OTHER -> End("fail")
  BY DEF GetAllSendCIDNum
<1>3. /\ SameCard(card') /\ faults' \in 0..MaxFaults
      /\ r = "ok" => card'.state = "ident"
  BY <1>1, <1>2, SentFacts, SelectAnswers DEF Command
<1>4. /\ slot' = slot /\ retry' = retry /\ caller' = caller /\ rca' = rca /\ width' = width
      /\ scr4' = scr4 /\ fast' = fast /\ missed' = missed /\ n' = n /\ what_dev' = what_dev
      /\ hcs' = hcs
  BY DEF GetAllSendCIDNum, At, Keep
<1>5. CardInv'
  BY <1>1, <1>3, <1>4, ConstantCard
<1>6. \/ pc' = "cmd3" /\ ret' = ret /\ r = "ok"
      \/ pc' = "end" /\ ret' \in {"crc", "fail"}
  BY <1>2 DEF End, Goto
<1>7. TypeOK'
  BY <1>1, <1>3, <1>4, <1>6 DEF TypeOK, SameCard, Result
<1>8. pc' = "cmd3" => Known' /\ card'.state = "ident"
  BY <1>1, <1>3, <1>4, <1>6 DEF Known, SameCard
<1>9. PathInv' /\ BranchInv' /\ WidthInv'
  BY <1>1, <1>4, <1>6, <1>8 DEF PathInv, BranchInv, WidthInv, Early, Succeeded, Reported
<1>. QED
  BY <1>5, <1>7, <1>9 DEF IInv

LEMMA GetSetRelativeAddrIInv == IInv /\ GetSetRelativeAddr => IInv'
<1> SUFFICES ASSUME IInv, GetSetRelativeAddr PROVE IInv'
  OBVIOUS
<1>1. TypeOK /\ CardInv /\ pc = "cmd3" /\ width = 1 /\ Known /\ card \in Card
  BY NotWide DEF IInv, GetSetRelativeAddr, At, PathInv, TypeOK
<1>2. PICK r \in Result :
        /\ Sent("CMD3", 0, r)
        /\ IF r = "ok" THEN rca' = 1 /\ Goto("cmd9") /\ UNCHANGED ret
                       ELSE rca' = -1 /\ End("fail")
  BY DEF GetSetRelativeAddr
<1>3. /\ SameCard(card') /\ faults' \in 0..MaxFaults
      /\ r = "ok" => card'.state = "stby" /\ card'.rca = 1
  BY <1>1, <1>2, SentFacts, SelectAnswers DEF Command
<1>4. /\ slot' = slot /\ retry' = retry /\ caller' = caller /\ width' = width
      /\ scr4' = scr4 /\ fast' = fast /\ missed' = missed /\ n' = n /\ what_dev' = what_dev
      /\ hcs' = hcs
  BY DEF GetSetRelativeAddr, At, Keep
<1>5. CardInv'
  BY <1>1, <1>3, <1>4, ConstantCard
<1>6. \/ pc' = "cmd9" /\ ret' = ret /\ r = "ok" /\ rca' = 1
      \/ pc' = "end" /\ ret' = "fail" /\ rca' = -1
  BY <1>2 DEF End, Goto
<1>7. TypeOK'
  BY <1>1, <1>3, <1>4, <1>6 DEF TypeOK, SameCard, Result
<1>8. pc' = "cmd9" => Known' /\ rca' = card'.rca /\ card'.state = "stby"
  BY <1>1, <1>3, <1>4, <1>6 DEF Known, SameCard
<1>9. PathInv' /\ BranchInv' /\ WidthInv'
  BY <1>1, <1>4, <1>6, <1>8 DEF PathInv, BranchInv, WidthInv, Early, Succeeded, Reported
<1>. QED
  BY <1>5, <1>7, <1>9 DEF IInv

LEMMA GetSendCSDNumIInv == IInv /\ GetSendCSDNum => IInv'
<1> SUFFICES ASSUME IInv, GetSendCSDNum PROVE IInv'
  OBVIOUS
<1>1. /\ TypeOK /\ CardInv /\ pc = "cmd9" /\ width = 1 /\ card \in Card
      /\ Known /\ rca = card.rca
  BY NotWide DEF IInv, GetSendCSDNum, At, PathInv, TypeOK
<1>2. PICK r \in Result :
        /\ Sent("CMD9", rca, r)
        /\ IF r = "ok" THEN Goto("cmd7") /\ fast' \in BOOLEAN /\ UNCHANGED ret
                       ELSE End("fail") /\ UNCHANGED fast
  BY DEF GetSendCSDNum
<1>3. /\ SameCard(card') /\ faults' \in 0..MaxFaults
      /\ r = "ok" => card'.state = "stby" /\ card'.rca = card.rca
  BY <1>1, <1>2, SentFacts, SelectAnswers DEF Command
<1>4. /\ slot' = slot /\ retry' = retry /\ caller' = caller /\ rca' = rca /\ width' = width
      /\ scr4' = scr4 /\ missed' = missed /\ n' = n /\ what_dev' = what_dev /\ hcs' = hcs
  BY DEF GetSendCSDNum, At, Keep
<1>5. CardInv'
  BY <1>1, <1>3, <1>4, ConstantCard
<1>6. /\ \/ pc' = "cmd7" /\ ret' = ret /\ r = "ok"
         \/ pc' = "end" /\ ret' = "fail"
      /\ fast' \in BOOLEAN
  BY <1>1, <1>2 DEF End, Goto, TypeOK
<1>7. TypeOK'
  BY <1>1, <1>3, <1>4, <1>6 DEF TypeOK, SameCard, Result
<1>8. pc' = "cmd7" => Known' /\ rca' = card'.rca /\ card'.state = "stby"
  BY <1>1, <1>3, <1>4, <1>6 DEF Known, SameCard
<1>9. PathInv' /\ BranchInv' /\ WidthInv'
  BY <1>1, <1>4, <1>6, <1>8 DEF PathInv, BranchInv, WidthInv, Early, Succeeded, Reported
<1>. QED
  BY <1>5, <1>7, <1>9 DEF IInv

LEMMA ChangeCardToTransferStateIInv == IInv /\ ChangeCardToTransferState => IInv'
<1> SUFFICES ASSUME IInv, ChangeCardToTransferState PROVE IInv'
  OBVIOUS
<1>1. /\ TypeOK /\ CardInv /\ pc = "cmd7" /\ width = 1 /\ card \in Card
      /\ Known /\ rca = card.rca /\ card.width = 1
  BY NotWide DEF IInv, ChangeCardToTransferState, At, PathInv, TypeOK, CardInv, Unselected
<1>2. PICK r \in Result :
        /\ Sent("CMD7", rca, r)
        /\ IF r = "ok" THEN /\ Goto("status") /\ caller' = "cmd7" /\ n' = 0
                            /\ UNCHANGED ret
                       ELSE End("fail") /\ UNCHANGED <<caller, n>>
  BY DEF ChangeCardToTransferState
<1>3. /\ SameCard(card') /\ faults' \in 0..MaxFaults
      /\ r = "ok" => /\ card'.state = "tran" /\ card'.rca = card.rca
                     /\ card'.width = card.width
  BY <1>1, <1>2, SentFacts, SelectAnswers DEF Command
<1>4. /\ slot' = slot /\ retry' = retry /\ rca' = rca /\ width' = width /\ fast' = fast
      /\ scr4' = scr4 /\ missed' = missed /\ what_dev' = what_dev /\ hcs' = hcs
  BY DEF ChangeCardToTransferState, At, Keep
<1>5. CardInv'
  BY <1>1, <1>3, <1>4, ConstantCard
<1>6. \/ pc' = "status" /\ ret' = ret /\ r = "ok" /\ caller' = "cmd7" /\ n' = 0
      \/ pc' = "end" /\ ret' = "fail" /\ caller' = caller /\ n' = n
  BY <1>2 DEF End, Goto
<1>7. TypeOK'
  <2>1. n' \in 0..(OpCondLoops + 201) \union 0..(StatusTries - 1)
    BY <1>1, <1>6, SdIdentifyAssumption DEF TypeOK
  <2>. QED
    BY <1>1, <1>3, <1>4, <1>6, <2>1 DEF TypeOK, SameCard, Result
<1>8. pc' = "status" => Selected' /\ card'.state = "tran" /\ card'.width = 1
  BY <1>1, <1>3, <1>4, <1>6 DEF Known, Selected, SameCard
<1>9. PathInv' /\ BranchInv' /\ WidthInv'
  BY <1>1, <1>4, <1>6, <1>8, SdIdentifyAssumption
  DEF PathInv, BranchInv, WidthInv, Early, Succeeded, Reported
<1>. QED
  BY <1>5, <1>7, <1>9 DEF IInv

(* The commands to a selected card *)
LEMMA SelectedKept ==
    ASSUME Selected, SameCard(card'), what_dev' = what_dev, rca' = rca,
           card'.rca = card.rca, card'.state \in {"tran", "prg"}
    PROVE  Selected'
BY DEF Selected, Known, SameCard

LEMMA EarlyFacts ==
    ASSUME IInv, pc \in Early
    PROVE  /\ TypeOK /\ CardInv /\ BranchInv /\ card \in Card /\ width = 1
           /\ Selected /\ card.state = "tran" /\ card.width = 1
<1>1. TypeOK /\ CardInv /\ BranchInv /\ card \in Card
  BY DEF IInv, TypeOK
<1>2. Selected /\ card.state = "tran" /\ card.width = 1
  BY DEF IInv, PathInv
<1>3. pc \notin {"chip", "hs", "speed", "status", "end", "done"}
  BY DEF Early
<1>. QED
  BY <1>1, <1>2, <1>3, NotWide

(* A command that tells nothing, sent to a card in the transfer state *)
LEMMA TellingSent ==
    ASSUME IInv, pc \in Early, NEW c \in Telling, NEW r, Sent(c, rca, r), slot' = slot,
           what_dev' = what_dev, rca' = rca
    PROVE  /\ SameCard(card') /\ faults' \in 0..MaxFaults /\ CardInv' /\ Selected'
           /\ card'.state = "tran" /\ card'.width = 1
<1>1. /\ TypeOK /\ CardInv /\ card \in Card /\ Selected /\ card.state = "tran"
      /\ card.width = 1
  BY EarlyFacts
<1>2. c \in Command
  BY DEF Command, Telling
<1>3. /\ SameCard(card') /\ faults' \in 0..MaxFaults
      /\ card' = card \/ card' \in After(c, rca)
  BY <1>1, <1>2, SentFacts
<1>4. AsBefore(card')
  BY <1>1, <1>3, SelectedAnswers DEF AsBefore
<1>. QED
  BY <1>1, <1>3, <1>4, SelectedKept, ConstantCard DEF AsBefore

LEMMA SetBlkLen512BIInv == IInv /\ SetBlkLen512B => IInv'
<1> SUFFICES ASSUME IInv, SetBlkLen512B PROVE IInv'
  OBVIOUS
<1>1. /\ pc = "cmd16" /\ pc \in Early /\ TypeOK /\ CardInv /\ width = 1 /\ Selected
  BY EarlyFacts DEF SetBlkLen512B, At, Early
<1>2. PICK r \in Result :
        /\ Sent("CMD16", rca, r)
        /\ CASE r # "ok" -> End("fail")
             [] r = "ok" /\ IsMmc -> Goto("extcsd") /\ UNCHANGED ret
             [] r = "ok" /\ ~IsMmc -> Goto("scr55") /\ UNCHANGED ret
  BY DEF SetBlkLen512B
<1>4. /\ slot' = slot /\ retry' = retry /\ caller' = caller /\ rca' = rca /\ width' = width
      /\ scr4' = scr4 /\ fast' = fast /\ missed' = missed /\ n' = n /\ what_dev' = what_dev
      /\ hcs' = hcs
  BY DEF SetBlkLen512B, At, Keep
<1>3. /\ SameCard(card') /\ faults' \in 0..MaxFaults /\ CardInv' /\ Selected'
      /\ card'.state = "tran" /\ card'.width = 1
  BY <1>1, <1>2, <1>4, TellingSent DEF Telling
<1>5. \/ pc' = "extcsd" /\ ret' = ret /\ slot = "emmc"
      \/ pc' = "scr55" /\ ret' = ret /\ slot = "sd"
      \/ pc' = "end" /\ ret' = "fail"
  <2>1. IsMmc => slot = "emmc"
    BY <1>1 DEF IsMmc, Selected, Known, CardInv, Mmc
  <2>2. ~IsMmc => slot = "sd"
    BY <1>1 DEF IsMmc, Selected, Known, CardInv, Mmc, Sd, TypeOK, Card, Kind
  <2>. QED
    BY <1>2, <2>1, <2>2 DEF End, Goto
<1>7. TypeOK'
  BY <1>1, <1>3, <1>4, <1>5 DEF TypeOK, SameCard, Result
<1>9. PathInv' /\ BranchInv' /\ WidthInv'
  BY <1>1, <1>3, <1>4, <1>5 DEF PathInv, BranchInv, WidthInv, Early, Succeeded, Reported
<1>. QED
  BY <1>3, <1>7, <1>9 DEF IInv

LEMMA GetMMCExtCSDIInv == IInv /\ GetMMCExtCSD => IInv'
<1> SUFFICES ASSUME IInv, GetMMCExtCSD PROVE IInv'
  OBVIOUS
<1>1. /\ pc = "extcsd" /\ pc \in Early /\ TypeOK /\ CardInv /\ width = 1 /\ Selected
      /\ card \in Card /\ card.state = "tran" /\ card.width = 1 /\ slot = "emmc"
  BY EarlyFacts DEF GetMMCExtCSD, At, Early, BranchInv
<1>2. /\ \E r \in {"ok", "fail"} : DataSent("EXT_CSD", r)
      /\ pc' = "width" /\ ret' = ret
      /\ slot' = slot /\ retry' = retry /\ caller' = caller /\ rca' = rca /\ width' = width
      /\ scr4' = scr4 /\ fast' = fast /\ missed' = missed /\ n' = n /\ what_dev' = what_dev
      /\ hcs' = hcs
  BY DEF GetMMCExtCSD, At, Keep, Goto
<1>3. /\ SameCard(card') /\ faults' \in 0..MaxFaults
      /\ card' = card \/ card' \in After("EXT_CSD", rca)
  BY <1>1, <1>2, DataSentFacts DEF Command
<1>4. AsBefore(card')
  BY <1>1, <1>3, SelectedAnswers DEF AsBefore, Telling
<1>5. CardInv' /\ Selected' /\ card'.state = "tran" /\ card'.width = 1
  BY <1>1, <1>2, <1>3, <1>4, SelectedKept, ConstantCard DEF AsBefore
<1>7. TypeOK'
  BY <1>1, <1>2, <1>3 DEF TypeOK, SameCard
<1>9. PathInv' /\ BranchInv' /\ WidthInv'
  BY <1>1, <1>2, <1>5 DEF PathInv, BranchInv, WidthInv, Early, Succeeded, Reported
<1>. QED
  BY <1>5, <1>7, <1>9 DEF IInv

LEMMA ScrAppCmdIInv == IInv /\ ScrAppCmd => IInv'
<1> SUFFICES ASSUME IInv, ScrAppCmd PROVE IInv'
  OBVIOUS
<1>1. /\ pc = "scr55" /\ pc \in Early /\ TypeOK /\ width = 1 /\ slot = "sd"
  BY EarlyFacts DEF ScrAppCmd, At, Early, BranchInv
<1>2. PICK r \in Result :
        /\ Sent("CMD55", rca, r)
        /\ IF r = "ok" THEN Goto("acmd51") /\ UNCHANGED ret ELSE End(r)
  BY DEF ScrAppCmd
<1>4. /\ slot' = slot /\ retry' = retry /\ caller' = caller /\ rca' = rca /\ width' = width
      /\ scr4' = scr4 /\ fast' = fast /\ missed' = missed /\ n' = n /\ what_dev' = what_dev
      /\ hcs' = hcs
  BY DEF ScrAppCmd, At, Keep
<1>3. /\ SameCard(card') /\ faults' \in 0..MaxFaults /\ CardInv' /\ Selected'
      /\ card'.state = "tran" /\ card'.width = 1
  BY <1>1, <1>2, <1>4, TellingSent DEF Telling
<1>5. \/ pc' = "acmd51" /\ ret' = ret
      \/ pc' = "end" /\ ret' \in Result /\ ret' # "ok"
  BY <1>2 DEF End, Goto
<1>7. TypeOK'
  BY <1>1, <1>3, <1>4, <1>5 DEF TypeOK, SameCard
<1>9. PathInv' /\ BranchInv' /\ WidthInv'
  BY <1>1, <1>3, <1>4, <1>5 DEF PathInv, BranchInv, WidthInv, Early, Succeeded, Reported
<1>. QED
  BY <1>3, <1>7, <1>9 DEF IInv

LEMMA GetSDSCRNumIInv == IInv /\ GetSDSCRNum => IInv'
<1> SUFFICES ASSUME IInv, GetSDSCRNum PROVE IInv'
  OBVIOUS
<1>1. /\ pc = "acmd51" /\ pc \in Early /\ TypeOK /\ CardInv /\ width = 1 /\ Selected
      /\ card \in Card /\ card.state = "tran" /\ card.width = 1 /\ slot = "sd"
  BY EarlyFacts DEF GetSDSCRNum, At, Early, BranchInv
<1>2. PICK r \in {"ok", "fail"} :
        /\ DataSent("ACMD51", r)
        /\ CASE r = "fail" -> End(r) /\ UNCHANGED <<scr4, fast>>
             [] r = "ok" -> \E known \in BOOLEAN :
                  /\ scr4' = (known /\ card.wide)
                  /\ fast' = (known /\ fast /\ card.kind # "sd1")
                  /\ Goto(IF scr4' THEN "w55" ELSE "hs") /\ UNCHANGED ret
  BY DEF GetSDSCRNum
<1>3. /\ SameCard(card') /\ faults' \in 0..MaxFaults
      /\ card' = card \/ card' \in After("ACMD51", rca)
  BY <1>1, <1>2, DataSentFacts DEF Command
<1>4. /\ slot' = slot /\ retry' = retry /\ caller' = caller /\ rca' = rca /\ width' = width
      /\ missed' = missed /\ n' = n /\ what_dev' = what_dev /\ hcs' = hcs
  BY DEF GetSDSCRNum, At, Keep
<1>5. AsBefore(card')
  BY <1>1, <1>3, SelectedAnswers DEF AsBefore, Telling
<1>6. CardInv' /\ Selected' /\ card'.state = "tran" /\ card'.width = 1
  BY <1>1, <1>3, <1>4, <1>5, SelectedKept, ConstantCard DEF AsBefore
<1>7. /\ \/ pc' \in {"w55", "hs"} /\ ret' = ret
         \/ pc' = "end" /\ ret' = "fail"
      /\ scr4' \in BOOLEAN /\ fast' \in BOOLEAN
  <2>1. CASE r = "fail"
    <3>1. End(r) /\ UNCHANGED <<scr4, fast>>
      BY <1>2, <2>1
    <3>. QED
      BY <1>1, <2>1, <3>1 DEF End, TypeOK
  <2>2. CASE r = "ok"
    <3>1. PICK known \in BOOLEAN :
                  /\ scr4' = (known /\ card.wide)
                  /\ fast' = (known /\ fast /\ card.kind # "sd1")
                  /\ Goto(IF scr4' THEN "w55" ELSE "hs") /\ UNCHANGED ret
      BY <1>2, <2>2
    <3>2. card.wide \in BOOLEAN /\ fast \in BOOLEAN
      BY <1>1 DEF TypeOK, Card
    <3>3. scr4' \in BOOLEAN /\ fast' \in BOOLEAN
      BY <3>1, <3>2, Zenon
    <3>4. pc' \in {"w55", "hs"} /\ ret' = ret
      BY <3>1 DEF Goto
    <3>. QED
      BY <3>3, <3>4
  <2>. QED
    BY <2>1, <2>2
<1>8. TypeOK'
  BY <1>1, <1>3, <1>4, <1>7 DEF TypeOK, SameCard, Result
<1>9. PathInv' /\ BranchInv' /\ WidthInv'
  BY <1>1, <1>4, <1>6, <1>7 DEF PathInv, BranchInv, WidthInv, Early, Succeeded, Reported
<1>. QED
  BY <1>6, <1>8, <1>9 DEF IInv

LEMMA WidthAppCmdIInv == IInv /\ WidthAppCmd => IInv'
<1> SUFFICES ASSUME IInv, WidthAppCmd PROVE IInv'
  OBVIOUS
<1>1. /\ pc = "w55" /\ pc \in Early /\ TypeOK /\ width = 1 /\ slot = "sd"
  BY EarlyFacts DEF WidthAppCmd, At, Early, BranchInv
<1>2. PICK r \in Result :
        /\ Sent("CMD55", rca, r)
        /\ IF r = "ok" THEN Goto("acmd6") /\ UNCHANGED ret ELSE OneBit(r)
  BY DEF WidthAppCmd
<1>4. /\ slot' = slot /\ retry' = retry /\ caller' = caller /\ rca' = rca /\ width' = width
      /\ scr4' = scr4 /\ fast' = fast /\ missed' = missed /\ n' = n /\ what_dev' = what_dev
      /\ hcs' = hcs
  BY DEF WidthAppCmd, At, Keep
<1>3. /\ SameCard(card') /\ faults' \in 0..MaxFaults /\ CardInv' /\ Selected'
      /\ card'.state = "tran" /\ card'.width = 1
  BY <1>1, <1>2, <1>4, TellingSent DEF Telling
<1>5. \/ pc' \in {"acmd6", "hs"} /\ ret' = ret
      \/ pc' = "end" /\ ret' = "crc"
  BY <1>2 DEF End, Goto, OneBit
<1>7. TypeOK'
  BY <1>1, <1>3, <1>4, <1>5 DEF TypeOK, SameCard, Result
<1>9. PathInv' /\ BranchInv' /\ WidthInv'
  BY <1>1, <1>3, <1>4, <1>5 DEF PathInv, BranchInv, WidthInv, Early, Succeeded, Reported
<1>. QED
  BY <1>3, <1>7, <1>9 DEF IInv

(* Host and card get their four lines together; otherwise the response was
   lost or all is begun again. *)
LEMMA SetSDBusWidthIInv == IInv /\ SetSDBusWidth => IInv'
<1> SUFFICES ASSUME IInv, SetSDBusWidth PROVE IInv'
  OBVIOUS
<1>1. /\ pc = "acmd6" /\ pc \in Early /\ TypeOK /\ CardInv /\ width = 1 /\ Selected
      /\ card \in Card /\ card.state = "tran" /\ card.width = 1 /\ slot = "sd"
  BY EarlyFacts DEF SetSDBusWidth, At, Early, BranchInv
<1>2. PICK r \in Result :
        /\ Sent("ACMD6", rca, r)
        /\ missed' = IF r \in {"timeout", "fail"} THEN "acmd6" ELSE missed
        /\ width' = BusWidth(r)
        /\ IF r = "ok" THEN Goto("hs") /\ UNCHANGED ret ELSE OneBit(r)
  BY DEF SetSDBusWidth
<1>3. /\ SameCard(card') /\ faults' \in 0..MaxFaults
      /\ r = "ok" => card' \in After("ACMD6", rca)
      /\ card' = card \/ card' \in After("ACMD6", rca)
  BY <1>1, <1>2, SentFacts DEF Command
<1>4. /\ slot' = slot /\ retry' = retry /\ caller' = caller /\ rca' = rca
      /\ scr4' = scr4 /\ fast' = fast /\ n' = n /\ what_dev' = what_dev /\ hcs' = hcs
  BY DEF SetSDBusWidth, At
<1>5. /\ card'.state = "tran" /\ card'.rca = card.rca
      /\ r = "ok" => card'.width = 4
  BY <1>1, <1>3, SelectedAnswers
<1>6. CardInv' /\ Selected'
  BY <1>1, <1>3, <1>4, <1>5, SelectedKept, ConstantCard
<1>7. \/ pc' = "hs" /\ ret' = ret /\ r = "ok" /\ width' = 4
      \/ pc' = "hs" /\ ret' = ret /\ r \in {"timeout", "fail"} /\ width' = 1
      \/ pc' = "end" /\ ret' = "crc" /\ width' = 1
  BY <1>1, <1>2 DEF End, Goto, OneBit, BusWidth, Result
<1>8. missed' \in {"none", "acmd6", "switch", "cmd0"}
  BY <1>1, <1>2 DEF TypeOK
<1>9. r \in {"timeout", "fail"} => missed' = "acmd6"
  BY <1>2
<1>10. TypeOK'
  BY <1>1, <1>3, <1>4, <1>7, <1>8 DEF TypeOK, SameCard, Result
<1>11. PathInv' /\ BranchInv'
  BY <1>1, <1>4, <1>5, <1>6, <1>7 DEF PathInv, BranchInv, Early, Succeeded, Reported
<1>12. WidthInv'
  BY <1>5, <1>7, <1>9 DEF WidthInv, Reported
<1>. QED
  BY <1>6, <1>10, <1>11, <1>12 DEF IInv

LEMMA ChangeSDToHiSpeedModeIInv == IInv /\ ChangeSDToHiSpeedMode => IInv'
<1> SUFFICES ASSUME IInv, ChangeSDToHiSpeedMode PROVE IInv'
  OBVIOUS
<1>1. /\ pc = "hs" /\ TypeOK /\ CardInv /\ Selected /\ card \in Card
      /\ card.state = "tran" /\ slot = "sd" /\ WidthInv
  BY DEF IInv, ChangeSDToHiSpeedMode, At, PathInv, BranchInv, TypeOK
<1>2. /\ \/ \E r \in Result : Sent("CMD6", rca, r)
         \/ UNCHANGED <<card, faults>>
      /\ pc' = "end" /\ ret' = "ok" /\ missed' = missed
      /\ slot' = slot /\ retry' = retry /\ caller' = caller /\ rca' = rca /\ width' = width
      /\ scr4' = scr4 /\ fast' = fast /\ n' = n /\ what_dev' = what_dev /\ hcs' = hcs
  BY DEF ChangeSDToHiSpeedMode, At, Keep, End
<1>3. /\ SameCard(card') /\ faults' \in 0..MaxFaults
      /\ card' = card \/ card' \in After("CMD6", rca)
  <2>1. CASE \E r \in Result : Sent("CMD6", rca, r)
    BY <1>1, <2>1, SentFacts DEF Command
  <2>2. CASE UNCHANGED <<card, faults>>
    BY <1>1, <2>2 DEF SameCard, CardInv, TypeOK
  <2>. QED
    BY <1>2, <2>1, <2>2
<1>4. AsBefore(card')
  BY <1>1, <1>3, SelectedAnswers DEF AsBefore, Telling
<1>5. CardInv' /\ Selected'
  BY <1>1, <1>2, <1>3, <1>4, SelectedKept, ConstantCard DEF AsBefore
<1>6. TypeOK'
  BY <1>1, <1>2, <1>3 DEF TypeOK, SameCard, Result
<1>7. PathInv' /\ BranchInv'
  BY <1>2, <1>5 DEF PathInv, BranchInv, Early, Succeeded, Reported
<1>8. WidthInv'
  BY <1>1, <1>2, <1>4 DEF WidthInv, Reported, AsBefore
<1>. QED
  BY <1>5, <1>6, <1>7, <1>8 DEF IInv

(* The switches of an eMMC device: the controller follows when the status has
   told that the device has four lines. *)
LEMMA DoMMCSwitchIInv == IInv /\ DoMMCSwitch => IInv'
<1> SUFFICES ASSUME IInv, DoMMCSwitch PROVE IInv'
  OBVIOUS
<1>1. /\ pc \in {"width", "speed"} /\ TypeOK /\ CardInv /\ Selected /\ card \in Card
      /\ slot = "emmc" /\ WidthInv /\ (pc = "width" => width = 1)
  BY NotWide DEF IInv, DoMMCSwitch, At, PathInv, BranchInv, TypeOK, Early
<1>2. PICK r \in Result :
        /\ Sent(pc, rca, r)
        /\ CASE r = "ok" -> Goto("status") /\ UNCHANGED ret
             [] r # "ok" /\ pc = "width" -> Goto("speed") /\ UNCHANGED ret
             [] r # "ok" /\ pc = "speed" -> End("ok")
        /\ missed' = IF pc = "width" /\ r = "ok" /\ card'.width = 1
                     THEN "switch" ELSE missed
  BY DEF DoMMCSwitch
<1>3. /\ SameCard(card') /\ faults' \in 0..MaxFaults
      /\ card' = card \/ card' \in After(pc, rca)
  BY <1>1, <1>2, SentFacts DEF Command
<1>4. /\ slot' = slot /\ retry' = retry /\ caller' = pc /\ rca' = rca /\ width' = width
      /\ scr4' = scr4 /\ fast' = fast /\ n' = 0 /\ what_dev' = what_dev
      /\ hcs' = hcs
  BY DEF DoMMCSwitch, At, Keep
<1>5. card'.state \in {"tran", "prg"} /\ card'.rca = card.rca
  BY <1>1, <1>3, SelectedAnswers DEF Selected
<1>6. pc = "speed" => card'.width = card.width
  BY <1>1, <1>3, SelectedAnswers
<1>7. CardInv' /\ Selected'
  BY <1>1, <1>3, <1>4, <1>5, SelectedKept, ConstantCard
<1>8. \/ pc' = "status" /\ ret' = ret /\ r = "ok"
      \/ pc = "width" /\ pc' = "speed" /\ ret' = ret
      \/ pc = "speed" /\ pc' = "end" /\ ret' = "ok"
  BY <1>1, <1>2 DEF End, Goto
<1>9. /\ missed' \in {"none", "acmd6", "switch", "cmd0"}
      /\ pc = "speed" => missed' = missed
      /\ missed = "switch" => missed' = "switch"
  BY <1>1, <1>2 DEF TypeOK
<1>10. pc = "width" /\ pc' = "status" => card'.width = 4 \/ missed' = "switch"
  BY <1>1, <1>2, <1>3, <1>8 DEF SameCard, Card
<1>11. TypeOK'
  <2>1. n' \in 0..(OpCondLoops + 201) \union 0..(StatusTries - 1)
    BY <1>4, SdIdentifyAssumption
  <2>. QED
    BY <1>1, <1>3, <1>4, <1>8, <1>9, <2>1 DEF TypeOK, SameCard, Result
<1>12. PathInv' /\ BranchInv'
  BY <1>1, <1>4, <1>7, <1>8, SdIdentifyAssumption DEF PathInv, BranchInv, Early, Succeeded, Reported
<1>13. WidthInv'
  BY <1>1, <1>4, <1>6, <1>8, <1>9, <1>10 DEF WidthInv, Reported
<1>. QED
  BY <1>7, <1>11, <1>12, <1>13 DEF IInv

LEMMA CheckCardStatusIInv == IInv /\ CheckCardStatus => IInv'
<1> SUFFICES ASSUME IInv, CheckCardStatus PROVE IInv'
  OBVIOUS
<1>1. /\ pc = "status" /\ TypeOK /\ CardInv /\ Selected /\ card \in Card /\ WidthInv
      /\ n < StatusTries /\ caller # "none" /\ BranchInv
      /\ caller = "cmd7" => card.state = "tran" /\ card.width = 1
      /\ caller = "width" => card.width = 4 \/ missed = "switch"
  BY DEF IInv, CheckCardStatus, At, PathInv, BranchInv, TypeOK, WidthInv
<1>2. PICK r \in Result :
        /\ Sent("CMD13", rca, r)
        /\ CASE n + 1 = StatusTries -> n' = 0 /\ Answered(FALSE)
             [] n + 1 < StatusTries /\ r # "ok" ->
                  n' = n + 1 /\ UNCHANGED <<pc, ret, width>>
             [] n + 1 < StatusTries /\ r = "ok" /\ card.state = "prg" ->
                  n' = 0 /\ UNCHANGED <<pc, ret, width>>
             [] n + 1 < StatusTries /\ r = "ok" /\ card.state # "prg" ->
                  n' = 0 /\ \E bit6 \in BOOLEAN : Answered(caller # "width" \/ ~bit6)
  BY DEF CheckCardStatus
<1>3. /\ SameCard(card') /\ faults' \in 0..MaxFaults
      /\ card' = card \/ card' \in After("CMD13", rca)
  BY <1>1, <1>2, SentFacts DEF Command
<1>4. /\ slot' = slot /\ retry' = retry /\ caller' = caller /\ rca' = rca
      /\ scr4' = scr4 /\ fast' = fast /\ missed' = missed /\ what_dev' = what_dev
      /\ hcs' = hcs
  BY DEF CheckCardStatus, At, Keep
<1>5. AsBefore(card')
  BY <1>1, <1>3, SelectedAnswers DEF AsBefore, Telling
<1>6. CardInv' /\ Selected'
  BY <1>1, <1>3, <1>4, <1>5, SelectedKept, ConstantCard DEF AsBefore, Selected
<1>7. n \in Nat /\ StatusTries \in Nat \ {0} /\ OpCondLoops \in Nat
  BY <1>1, SdIdentifyAssumption DEF TypeOK
<1>8. ASSUME NEW ok \in BOOLEAN, Answered(ok)
      PROVE  \/ caller = "cmd7" /\ pc' = "cmd16" /\ ret' = ret /\ width' = width
             \/ caller = "cmd7" /\ pc' = "end" /\ ret' = "fail" /\ width' = width
             \/ /\ caller = "width" /\ pc' = "speed" /\ ret' = ret
                /\ width' \in {width, 4}
             \/ caller = "speed" /\ pc' = "end" /\ ret' = "ok" /\ width' = width
  <2>1. CASE caller = "cmd7"
    <3>1. CASE ok
      BY <1>8, <2>1, <3>1 DEF Answered, Goto
    <3>2. CASE ~ok
      BY <1>8, <2>1, <3>2 DEF Answered, End
    <3>. QED
      BY <3>1, <3>2
  <2>2. CASE caller = "width"
    <3>1. pc' = "speed" /\ ret' = ret /\ width' = IF ok THEN 4 ELSE width
      BY <1>8, <2>2 DEF Answered, Goto
    <3>. QED
      BY <1>8, <2>2, <3>1
  <2>3. CASE caller = "speed"
    BY <1>8, <2>3 DEF Answered, End
  <2>. QED
    BY <1>1, <2>1, <2>2, <2>3 DEF TypeOK
<1>9. \/ pc' = "status" /\ ret' = ret /\ width' = width /\ n' \in 0..StatusTries - 1
      \/ n' = 0 /\ caller = "cmd7" /\ pc' = "cmd16" /\ ret' = ret /\ width' = width
      \/ n' = 0 /\ caller = "cmd7" /\ pc' = "end" /\ ret' = "fail" /\ width' = width
      \/ /\ n' = 0 /\ caller = "width" /\ pc' = "speed" /\ ret' = ret
         /\ width' \in {width, 4}
      \/ n' = 0 /\ caller = "speed" /\ pc' = "end" /\ ret' = "ok" /\ width' = width
  <2>1. CASE n + 1 = StatusTries
    <3>1. n' = 0 /\ Answered(FALSE)
      <4>1. ~(n + 1 < StatusTries)
        BY <1>7, <2>1
      <4>. QED
        BY <1>2, <2>1, <4>1, Zenon
    <3>. QED
      BY <1>8, <3>1
  <2>2. CASE n + 1 < StatusTries /\ r # "ok"
    <3>1. n' = n + 1 /\ UNCHANGED <<pc, ret, width>>
      <4>1. n + 1 # StatusTries
        BY <1>7, <2>2
      <4>. QED
        BY <1>2, <2>2, <4>1
    <3>. QED
      BY <1>1, <1>7, <2>2, <3>1
  <2>3. CASE n + 1 < StatusTries /\ r = "ok" /\ card.state = "prg"
    <3>1. n' = 0 /\ UNCHANGED <<pc, ret, width>>
      <4>1. n + 1 # StatusTries
        BY <1>7, <2>3
      <4>. QED
        BY <1>2, <2>3, <4>1
    <3>. QED
      BY <1>1, <1>7, <3>1
  <2>4. CASE n + 1 < StatusTries /\ r = "ok" /\ card.state # "prg"
    <3>1. n' = 0 /\ \E bit6 \in BOOLEAN : Answered(caller # "width" \/ ~bit6)
      <4>1. n + 1 # StatusTries
        BY <1>7, <2>4
      <4>. QED
        BY <1>2, <2>4, <4>1
    <3>. QED
      BY <1>8, <3>1
  <2>. QED
    BY <1>1, <1>7, <2>1, <2>2, <2>3, <2>4
<1>10. TypeOK'
  <2>1. n' \in 0..(OpCondLoops + 201) \union 0..(StatusTries - 1)
    BY <1>7, <1>9
  <2>2. ret' \in Result /\ width' \in {1, 4}
    BY <1>1, <1>9 DEF TypeOK, Result
  <2>. QED
    BY <1>1, <1>3, <1>4, <2>1, <2>2 DEF TypeOK, SameCard
<1>11. BranchInv'
  BY <1>1, <1>4, <1>7, <1>9 DEF BranchInv
<1>12. PathInv'
  BY <1>1, <1>4, <1>5, <1>6, <1>9 DEF PathInv, Early, Succeeded, Reported, AsBefore
<1>13. WidthInv'
  <2>1. width = 4 => (card.width = 4 \/ missed = "switch") /\ caller = "speed"
    BY <1>1 DEF WidthInv, Reported
  <2>2. Reported' => slot = "emmc"
    BY <1>1, <1>9 DEF Succeeded, Reported, BranchInv
  <2>3. pc' # "hs" /\ card'.width = card.width
    BY <1>5, <1>9 DEF AsBefore
  <2>4. width' = 4 => /\ card.width = 4 \/ missed = "switch"
                      /\ pc' = "speed" \/ Reported' \/ pc' = "status"
    BY <1>1, <1>9, <2>1 DEF Succeeded, Reported
  <2>5. width' = 4 /\ pc' = "status" => caller' = "speed"
    BY <1>4, <1>9, <2>1
  <2>. QED
    BY <1>1, <1>4, <2>2, <2>3, <2>4, <2>5 DEF WidthInv
<1>. QED
  BY <1>6, <1>10, <1>11, <1>12, <1>13 DEF IInv

LEMMA ProgramIInv == IInv /\ Program => IInv'
<1> SUFFICES ASSUME IInv, Program PROVE IInv'
  OBVIOUS
<1>1. TypeOK /\ CardInv /\ PathInv /\ BranchInv /\ WidthInv /\ card \in Card
  BY DEF IInv, TypeOK
<1>2. /\ card.state = "prg" /\ card' = [card EXCEPT !.state = "tran"]
      /\ slot' = slot /\ retry' = retry /\ caller' = caller /\ rca' = rca
      /\ scr4' = scr4 /\ fast' = fast /\ missed' = missed /\ what_dev' = what_dev
      /\ hcs' = hcs /\ pc' = pc /\ ret' = ret /\ n' = n /\ width' = width
      /\ faults' = faults
  BY DEF Program, driver
<1>3. /\ card' \in Card /\ card'.kind = card.kind /\ card'.rca = card.rca
      /\ card'.width = card.width /\ card'.state = "tran"
  BY <1>1, <1>2 DEF Card
<1>4. TypeOK'
  BY <1>1, <1>2, <1>3 DEF TypeOK
<1>5. CardInv' /\ BranchInv' /\ WidthInv'
  BY <1>1, <1>2, <1>3 DEF CardInv, BranchInv, WidthInv, Unselected, Succeeded, Reported
<1>6. PathInv'
  BY <1>1, <1>2, <1>3 DEF PathInv, Selected, Known, Succeeded, Reported
<1>. QED
  BY <1>4, <1>5, <1>6 DEF IInv

LEMMA initDriver_SDIInv == IInv /\ initDriver_SD => IInv'
<1> SUFFICES ASSUME IInv, initDriver_SD PROVE IInv'
  OBVIOUS
<1>1. TypeOK /\ CardInv /\ PathInv /\ WidthInv /\ pc = "end"
  BY DEF IInv, initDriver_SD, At
<1>2. /\ slot' = slot /\ card' = card /\ caller' = caller /\ rca' = rca
      /\ scr4' = scr4 /\ fast' = fast /\ missed' = missed /\ what_dev' = what_dev
      /\ hcs' = hcs /\ ret' = ret /\ n' = n /\ width' = width /\ faults' = faults
  BY DEF initDriver_SD, At, Keep
<1>3. retry \in 0..Identify /\ Identify \in Nat
  BY <1>1, SdIdentifyAssumption DEF TypeOK
<1>4. /\ retry' \in 0..Identify
      /\ (pc' = "cmd0" /\ ret # "ok") \/ pc' = "done"
  BY <1>3 DEF initDriver_SD, Repeat, Goto
<1>5. TypeOK'
  BY <1>1, <1>2, <1>4 DEF TypeOK
<1>6. CardInv'
  BY <1>1, <1>2 DEF CardInv
<1>7. PathInv' /\ BranchInv' /\ WidthInv'
  BY <1>1, <1>2, <1>4
  DEF PathInv, BranchInv, WidthInv, Selected, Known, Succeeded, Reported, Early
<1>. QED
  BY <1>5, <1>6, <1>7 DEF IInv

LEMMA StutterIInv == IInv /\ UNCHANGED vars => IInv'
BY DEF IInv, TypeOK, CardInv, PathInv, BranchInv, WidthInv, Known, Selected, Succeeded, Reported,
       vars, driver

-----------------------------------------------------------------------------
(* The inductive invariant holds for any number of repetitions and faults. *)
THEOREM Invariance == Spec => []IInv
<1>1. Init => IInv
  BY InitIInv
<1>2. IInv /\ [Next]_vars => IInv'
  <2> SUFFICES ASSUME IInv, [Next]_vars PROVE IInv'
    OBVIOUS
  <2>1. CASE Driver
    BY <2>1, StartIInv, CheckMMCOpCondIInv, SendIfCondIInv, AppCmdIInv, SendOpCondIInv,
       GetAllSendCIDNumIInv, GetSetRelativeAddrIInv, GetSendCSDNumIInv,
       ChangeCardToTransferStateIInv, CheckCardStatusIInv, SetBlkLen512BIInv,
       GetMMCExtCSDIInv, DoMMCSwitchIInv, ScrAppCmdIInv, GetSDSCRNumIInv,
       WidthAppCmdIInv, SetSDBusWidthIInv, ChangeSDToHiSpeedModeIInv,
       initDriver_SDIInv DEF Driver
  <2>2. CASE Program
    BY <2>2, ProgramIInv
  <2>3. CASE UNCHANGED vars
    BY <2>3, StutterIInv
  <2>. QED
    BY <2>1, <2>2, <2>3 DEF Next
<1>. QED
  BY <1>1, <1>2, PTL DEF Spec

(* SdIdentify keeps its types. *)
THEOREM TypeCorrect == Spec => []TypeOK
<1>1. IInv => TypeOK
  BY DEF IInv
<1>. QED
  BY <1>1, Invariance, PTL

(* A card that is reported is the one that is there, whatever commands and
   responses were lost on the way, unless the controller failed at CMD0
   (drv_sd_mmc.c:14-35, hal_sd_mmc.c:1439-1660). *)
THEOREM CardIsTheOneThere == Spec => []IdentifiedRight
<1>1. IInv => IdentifiedRight
  BY DEF IInv, PathInv, IdentifiedRight, Identified, Succeeded, Reported, Selected, Known
<1>. QED
  BY <1>1, Invariance, PTL

(* The controller never uses more lines than the card, unless an eMMC device
   refused the switch, and an SD card's as long as no response to ACMD6 was
   lost (hal_sd_mmc.c:849-903, 973-1007, 1618-1642). *)
THEOREM HostAndCardAgree == Spec => []WidthsAgree
<1>1. IInv => WidthsAgree
  BY DEF IInv, WidthInv, WidthsAgree, Identified, Succeeded, Reported
<1>. QED
  BY <1>1, Invariance, PTL
=============================================================================
