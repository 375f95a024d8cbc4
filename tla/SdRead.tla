------------------------------- MODULE SdRead -------------------------------
(***************************************************************************)
(* Reading sectors from an SD card or an eMMC device: ReadSDSector() with  *)
(* its retries, ReadSDMultipleSector(), and ReadSectorByPolling(), which   *)
(* takes word after word from the one receive register of the controller.  *)
(* The controller receives at its own pace, checks the CRC of each block   *)
(* when the block is complete, and stops at the first error.               *)
(*                                                                         *)
(* After a failed attempt the next one may sample the lines with another   *)
(* read clock delay (sdTryNextReadDelay) or use a lower frequency.         *)
(***************************************************************************)
EXTENDS Integers, Sequences, FiniteSets

CONSTANTS Blocks,           \* sectors of the read
          BlockWords,       \* words of a block: 128 in the code
          MAX_SD_READ_RETRY,\* 32 in the code
          Delays,           \* read clock delays: 8 in the code
          MAX_count         \* polls for one word: 10000 in the code

ASSUME SdReadAssumption ==
    /\ Blocks \in Nat \ {0} /\ BlockWords \in Nat \ {0}
    /\ MAX_SD_READ_RETRY \in Nat /\ MAX_count \in Nat \ {0}
    /\ Delays \in Nat /\ Delays > 2

Words == Blocks * BlockWords
Word == (0..MAX_SD_READ_RETRY) \X (1..Words)  \* attempt and position
Combination == (0..Delays - 1) \X BOOLEAN

VARIABLES card,     \* "sd" or "emmc"
          pc,       \* of the driver
          retry,    \* of ReadSDSector
          buf,      \* the words stored
          i,        \* of ReadSectorByPolling: polls for the next word
          data_err, \* of ReadSectorByPolling
          ret,      \* result of the attempt, and in the end of the read
          combo,    \* <<rd_clk_delay, highspeed_en>> of the card
          tried,    \* history: the combinations used in this read
          freq,     \* clock divider of the controller
          state,    \* controller: "off", "receive", "idle" or "error"
          err,      \* controller: what the error is
          sent,     \* controller: words received in this attempt
          checked,  \* controller: blocks whose CRC was right
          rx        \* controller: the receive register, <<>> or a word

reader == <<pc, retry, buf, i, data_err, ret>>
tuning == <<combo, tried, freq>>
controller == <<state, err, sent, checked, rx>>
vars == <<card, reader, tuning, controller>>

TypeOK ==
    /\ card \in {"sd", "emmc"}
    /\ pc \in {"issue", "top", "wait", "delay", "take", "report", "idle",
               "stop", "done"}
    /\ retry \in 0..MAX_SD_READ_RETRY
    /\ buf \in Seq(Word) /\ Len(buf) <= Words
    /\ i \in 0..MAX_count /\ data_err \in BOOLEAN /\ ret \in {"ok", "fail"}
    /\ combo \in Combination /\ tried \subseteq Combination
    /\ freq \in 0..4095
    /\ state \in {"off", "receive", "idle", "error"}
    /\ err \in {"none", "crc", "stb", "other"}
    /\ sent \in 0..Words /\ checked \in 0..Blocks
    /\ rx = <<>> \/ rx \in Word

(* get_SD_RD_CLK_DLY_BEG *)
DelayBegin == IF card = "emmc" THEN 0 ELSE 2

(* What InitChipCtrl and IdentifyStorage leave: any combination, for the
   commands of the identification change it too, and the divider from 358 MHz
   to 35 MHz for an SD card, to 25 MHz for an eMMC device *)
Init ==
    /\ card \in {"sd", "emmc"}
    /\ combo \in Combination /\ tried = {combo}
    /\ freq = IF card = "emmc" THEN 14 ELSE 10
    /\ pc = "issue" /\ retry = 0 /\ buf = <<>> /\ i = 0 /\ data_err = FALSE
    /\ ret = "ok"
    /\ state = "off" /\ err = "none" /\ sent = 0 /\ checked = 0 /\ rx = <<>>

(* SD_RST: the controller forgets the transfer, received words included. *)
Reset(s) ==
    /\ state' = s /\ err' = "none"
    /\ sent' = 0 /\ checked' = 0 /\ rx' = <<>>

(* sdTryNextReadDelay (mutant: highspeed_en is left alone) *)
NextCombination_delayOnly(c) ==
    LET d == (c[1] + 1) % Delays
    IN  <<d, c[2]>>

NextCombination(c) ==
    LET d == (c[1] + 1) % Delays
    IN  <<d, IF d = DelayBegin THEN ~c[2] ELSE c[2]>>

sdTryNextReadDelay ==
    /\ combo' = NextCombination(combo)
    /\ tried' = tried \union {combo'}

(* STB timeout: i*2+1 in the twelve bits of the divider.  (IS_EMMC_SLOT holds
   for the SD slot of this chip too, so its divider is not cut to ten bits.) *)
SlowerFreq == (2 * freq + 1) % 4096

-----------------------------------------------------------------------------
(* The driver *)

(* ReadSDMultipleSector: reset the controller and send CMD18 *)
Issue ==
    /\ pc = "issue"
    /\ Reset("receive")
    /\ buf' = <<>> /\ data_err' = FALSE /\ i' = 0
    /\ pc' = "top"
    /\ UNCHANGED <<card, tuning, retry, ret>>

(* The head of the loop over the words.  An error seen here ends the loop and
   leaves data_err alone. *)
Top ==
    /\ pc = "top"
    /\ pc' = IF Len(buf) < Words /\ state # "error" THEN "wait" ELSE "idle"
    /\ i' = 0
    /\ UNCHANGED <<card, tuning, controller, retry, buf, data_err, ret>>

(* The loop that waits for the word reads the register flag ... *)
Wait ==
    /\ pc = "wait"
    /\ pc' = IF rx # <<>> THEN "take" ELSE "delay"
    /\ UNCHANGED <<card, tuning, controller, retry, buf, i, data_err, ret>>

(* ... and 100 us later whether there was an error, or too many polls *)
Delay ==
    /\ pc = "delay"
    /\ i' = i + 1
    /\ IF state = "error" \/ i' = MAX_count
       THEN data_err' = TRUE /\ pc' = "report"
       ELSE data_err' = data_err /\ pc' = "wait"
    /\ UNCHANGED <<card, tuning, controller, retry, buf, ret>>

(* The register is full: SD_STATUS_NEW_ERR is read once more before the word
   is taken, and an error seen now leaves data_err alone too. *)
Take ==
    /\ pc = "take"
    /\ IF state = "error"
       THEN pc' = "idle" /\ UNCHANGED <<buf, rx>>
       ELSE /\ buf' = Append(buf, rx) /\ rx' = <<>>
            /\ pc' = "top"
    /\ UNCHANGED <<card, tuning, state, err, sent, checked, retry, i,
                   data_err, ret>>

(* if (data_err): look at the kind of the error *)
Report ==
    /\ pc = "report"
    /\ IF err = "crc" THEN sdTryNextReadDelay ELSE UNCHANGED <<combo, tried>>
    /\ freq' = IF err = "stb" THEN SlowerFreq ELSE freq
    /\ ret' = "fail" /\ pc' = "stop"
    /\ UNCHANGED <<card, controller, retry, buf, i, data_err>>

(* hwSdIdleWait: the error bit, the idle bit, or ten milliseconds (mutant: it
   is not called) *)
IdleResult_notWaited == ret' = "ok"

IdleResult ==
    \/ state = "error" /\ ret' = "fail"
    \/ state = "idle" /\ ret' = "ok"
    \/ state = "receive" /\ ret' = "fail"

IdleWait ==
    /\ pc = "idle"
    /\ IdleResult
    /\ pc' = "stop"
    /\ UNCHANGED <<card, tuning, controller, retry, buf, i, data_err>>

(* ReadSDSector: again after a failure, but not for ever (mutant: the retry is
   not counted) *)
Retry_notCounted ==
    IF ret = "fail" /\ retry < MAX_SD_READ_RETRY
    THEN retry' = retry /\ pc' = "issue"
    ELSE retry' = retry /\ pc' = "done"

Retry ==
    IF ret = "fail" /\ retry < MAX_SD_READ_RETRY
    THEN retry' = retry + 1 /\ pc' = "issue"
    ELSE retry' = retry /\ pc' = "done"

(* The end of ReadSDMultipleSector: the controller is reset and CMD12 sent.
   A bad CRC7 of the response to CMD12 changes the read delay as well; no
   other failure of CMD12 has an effect, and none on the result. *)
StopTransmission ==
    /\ pc = "stop"
    /\ Reset("off")
    /\ \/ sdTryNextReadDelay
       \/ UNCHANGED <<combo, tried>>
    /\ Retry
    /\ UNCHANGED <<card, freq, buf, i, data_err, ret>>

-----------------------------------------------------------------------------
(* The controller and the card *)

(* A word arrives *)
Receive ==
    /\ state = "receive" /\ rx = <<>>
    /\ sent < (checked + 1) * BlockWords
    /\ sent' = sent + 1 /\ rx' = <<retry, sent'>>
    /\ UNCHANGED <<card, reader, tuning, state, err, checked>>

(* The CRC of a block that has arrived, whether or not its last word has been
   taken *)
CheckCrc ==
    /\ state = "receive" /\ sent = (checked + 1) * BlockWords
    /\ \/ /\ checked' = checked + 1 /\ err' = err
          /\ state' = IF checked' = Blocks THEN "idle" ELSE state
       \/ state' = "error" /\ err' = "crc" /\ checked' = checked
    /\ UNCHANGED <<card, reader, tuning, sent, rx>>

(* No response to the command, or a block that does not start or end; a bad
   CRC7 of the response, before any word, is told like that of a block *)
Break ==
    /\ state = "receive"
    /\ state' = "error"
    /\ err' \in {"stb", "other"} \/ (sent = 0 /\ err' = "crc")
    /\ UNCHANGED <<card, reader, tuning, sent, checked, rx>>

Driver == Issue \/ Top \/ Wait \/ Delay \/ Take \/ Report \/ IdleWait
            \/ StopTransmission
Controller == Receive \/ CheckCrc \/ Break

Next == Driver \/ Controller

(* The driver runs until it is done.  Nothing is assumed of the controller:
   it may fall silent at any time. *)
Spec == Init /\ [][Next]_vars /\ WF_vars(Driver)

-----------------------------------------------------------------------------
(* Properties *)

(* A read reported as good has stored every word, each at its place and each
   received in that very attempt, and the CRC of every block was right: the
   last block's too, which is checked when nobody waits for a word any more.
   Words of an attempt given up, and the CRC of the last block, are what the
   SD_RST of an attempt and the hwSdIdleWait after it are for. *)
GoodReadIsWhole ==
    /\ pc = "stop" /\ ret = "ok" =>
        buf = [n \in 1..Words |-> <<retry, n>>] /\ checked = Blocks
    /\ pc = "done" /\ ret = "ok" => buf = [n \in 1..Words |-> <<retry, n>>]

(* "Try next combination of (rd_clk_delay, highspeed_en)": no combination is
   used again before all of them have been, whichever delay the card begins
   with and whether data or a response was bad. *)
AllCombinationsBeforeOneAgain ==
    [][combo' # combo /\ combo' \in tried => tried = Combination]_vars

(* A read ends, whatever the card does, falls silent in the middle of a block
   or fails each time: the words, the polls and the retries are counted. *)
ReadEnds == <>(pc = "done")
=============================================================================
