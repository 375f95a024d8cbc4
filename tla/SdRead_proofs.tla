---------------------------- MODULE SdRead_proofs ----------------------------
(***************************************************************************)
(* Proofs about SdRead for reads of any length, blocks of any size and any *)
(* number of retries and read delays: a read that is reported as good is   *)
(* whole, and the search for a working read delay leaves none out.         *)
(***************************************************************************)
EXTENDS SdRead, SequenceTheorems, TLAPS

(* The controller is idle when the last block's CRC was right, and until then
   it has the words of the block it receives. *)
ReceiveInv ==
    /\ state = "off" <=> pc \in {"issue", "done"}
    /\ state = "receive" => /\ checked < Blocks
                            /\ checked * BlockWords <= sent
                            /\ sent <= (checked + 1) * BlockWords
    /\ state = "idle" => checked = Blocks /\ sent = Words

(* What has been received is stored or in the register, in its order. *)
StoredInv ==
    /\ state # "off" =>
           /\ \A k \in 1..Len(buf) : buf[k] = <<retry, k>>
           /\ rx = <<>> => Len(buf) = sent
           /\ rx # <<>> => rx = <<retry, sent>> /\ Len(buf) = sent - 1
    /\ pc = "take" => rx # <<>>

(* It waits for a word while it may poll once more. *)
PollInv == pc \in {"wait", "delay"} => i < MAX_count

(* The driver leaves its loop at an error or with all words, and is told that
   the read was good when the controller is idle. *)
ResultInv ==
    /\ pc = "idle" => state = "error" \/ Len(buf) = Words
    /\ pc = "stop" /\ ret = "ok" => state = "idle" /\ Len(buf) = Words
    /\ pc = "done" /\ ret = "ok" => buf = [n \in 1..Words |-> <<retry, n>>]

(* The combinations in the order in which they are tried: Place counts from
   the delay the card begins with, Behind from the one in use backwards. *)
Half(c) == IF c[2] THEN Delays ELSE 0
Turn(d) == IF d >= DelayBegin THEN d - DelayBegin ELSE d - DelayBegin + Delays
Place(c) == Turn(c[1]) + Half(c)
Distance(p, q) == IF p >= q THEN p - q ELSE p - q + 2 * Delays
Behind(c) == Distance(Place(combo), Place(c))

(* Those used are the last ones. *)
TriedInv ==
    \E m \in 1..2 * Delays : tried = {c \in Combination : Behind(c) < m}

IInv == TypeOK /\ ReceiveInv /\ StoredInv /\ PollInv /\ ResultInv /\ TriedInv

-----------------------------------------------------------------------------
(* The order of the combinations *)

(* Arithmetic of a block's place in the read. *)
LEMMA BlockFacts ==
    /\ Words \in Nat \ {0}
    /\ \A c \in 0..Blocks : /\ c * BlockWords \in Nat
                            /\ (c + 1) * BlockWords = c * BlockWords + BlockWords
                            /\ c < Blocks => (c + 1) * BlockWords <= Words
                            /\ c + 1 = Blocks => (c + 1) * BlockWords = Words
<1>1. Blocks \in Nat \ {0} /\ BlockWords \in Nat \ {0}
  BY SdReadAssumption
<1>2. Words \in Nat \ {0}
  BY <1>1 DEF Words
<1>3. ASSUME NEW c \in 0..Blocks
      PROVE  /\ c * BlockWords \in Nat
             /\ (c + 1) * BlockWords = c * BlockWords + BlockWords
             /\ c < Blocks => (c + 1) * BlockWords <= Words
             /\ c + 1 = Blocks => (c + 1) * BlockWords = Words
  <2>1. c \in Nat /\ c * BlockWords \in Nat
    BY <1>1
  <2>2. (c + 1) * BlockWords = c * BlockWords + BlockWords
    BY <1>1, <2>1
  <2>3. ASSUME c < Blocks PROVE (c + 1) * BlockWords <= Words
    <3>1. PICK r \in Nat : Blocks = (c + 1) + r
      <4>1. Blocks - (c + 1) \in Nat /\ Blocks = (c + 1) + (Blocks - (c + 1))
        BY <1>1, <2>1, <2>3
      <4>2. QED  BY <4>1
    <3>2. Blocks * BlockWords = (c + 1) * BlockWords + r * BlockWords
      BY <1>1, <2>1, <3>1
    <3>3. r * BlockWords \in Nat /\ (c + 1) * BlockWords \in Nat
      BY <1>1, <2>1, <3>1
    <3>4. QED  BY <3>2, <3>3 DEF Words
  <2>4. c + 1 = Blocks => (c + 1) * BlockWords = Words
    BY DEF Words
  <2>5. QED  BY <2>1, <2>2, <2>3, <2>4
<1>4. QED  BY <1>2, <1>3

(* A combination has its own place among 2 * Delays, and sdTryNextReadDelay
   goes to the next place. *)
LEMMA TurnFacts ==
    ASSUME card \in {"sd", "emmc"}
    PROVE  /\ DelayBegin \in 0..Delays - 1
           /\ \A d \in 0..Delays - 1 :
                 /\ Turn(d) \in 0..Delays - 1
                 /\ (d + 1) % Delays \in 0..Delays - 1
                 /\ (d + 1) % Delays = DelayBegin => Turn(d) = Delays - 1
                 /\ (d + 1) % Delays # DelayBegin => Turn((d + 1) % Delays) = Turn(d) + 1
                 /\ Turn(DelayBegin) = 0
           /\ \A d, e \in 0..Delays - 1 : Turn(d) = Turn(e) => d = e
<1>1. Delays \in Nat /\ Delays > 2
  BY SdReadAssumption
<1>2. DelayBegin \in 0..Delays - 1
  BY <1>1 DEF DelayBegin
<1>3. ASSUME NEW d \in 0..Delays - 1
      PROVE  (d + 1) % Delays = IF d = Delays - 1 THEN 0 ELSE d + 1
  <2>1. CASE d = Delays - 1
    BY ONLY <1>1, <2>1
  <2>2. CASE d # Delays - 1
    BY ONLY <1>1, <2>2, d \in 0..Delays - 1
  <2>3. QED  BY <2>1, <2>2
<1>4. \A d \in 0..Delays - 1 :
         /\ Turn(d) \in 0..Delays - 1
         /\ (d + 1) % Delays \in 0..Delays - 1
         /\ (d + 1) % Delays = DelayBegin => Turn(d) = Delays - 1
         /\ (d + 1) % Delays # DelayBegin => Turn((d + 1) % Delays) = Turn(d) + 1
         /\ Turn(DelayBegin) = 0
  BY <1>1, <1>2, <1>3 DEF Turn
<1>5. \A d, e \in 0..Delays - 1 : Turn(d) = Turn(e) => d = e
  BY <1>1, <1>2 DEF Turn
<1>6. QED  BY <1>2, <1>4, <1>5

LEMMA HalfFacts ==
    ASSUME NEW c \in Combination, NEW e \in Combination
    PROVE  /\ Half(c) \in {0, Delays}
           /\ Half(c) = Half(e) => c[2] = e[2]
<1>1. Delays \in Nat /\ Delays > 2 /\ Delays # 0
  BY SdReadAssumption
<1>2. c[2] \in BOOLEAN /\ e[2] \in BOOLEAN
  BY DEF Combination
<1>3. /\ c[2] = TRUE => Half(c) = Delays
      /\ c[2] = FALSE => Half(c) = 0
      /\ e[2] = TRUE => Half(e) = Delays
      /\ e[2] = FALSE => Half(e) = 0
  BY Zenon DEF Half
<1>4. QED  BY <1>1, <1>2, <1>3

LEMMA PlaceFacts ==
    ASSUME card \in {"sd", "emmc"}
    PROVE  \A c \in Combination :
              /\ Place(c) \in 0..2 * Delays - 1
              /\ NextCombination(c) \in Combination
              /\ Place(NextCombination(c)) =
                    IF Place(c) = 2 * Delays - 1 THEN 0 ELSE Place(c) + 1
              /\ \A e \in Combination : Place(c) = Place(e) => c = e
<1> SUFFICES ASSUME NEW c \in Combination
             PROVE  /\ Place(c) \in 0..2 * Delays - 1
                    /\ NextCombination(c) \in Combination
                    /\ Place(NextCombination(c)) =
                          IF Place(c) = 2 * Delays - 1 THEN 0 ELSE Place(c) + 1
                    /\ \A e \in Combination : Place(c) = Place(e) => c = e
  OBVIOUS
<1>1. Delays \in Nat /\ Delays > 2
  BY SdReadAssumption
<1>2. PICK d \in 0..Delays - 1, h \in BOOLEAN : c = <<d, h>>
  BY DEF Combination
<1>3. /\ c[1] = d /\ c[2] = h /\ Half(c) \in {0, Delays} /\ Turn(d) \in 0..Delays - 1
      /\ Place(c) = Turn(d) + Half(c)
  BY <1>2, HalfFacts, TurnFacts DEF Place
<1>4. Place(c) \in 0..2 * Delays - 1
  BY <1>1, <1>3
<1> DEFINE d1 == (d + 1) % Delays
           n == NextCombination(c)
<1>5. d1 \in 0..Delays - 1
  BY TurnFacts
<1>6. ASSUME d1 = DelayBegin
      PROVE  /\ n \in Combination
             /\ Place(n) = IF Place(c) = 2 * Delays - 1 THEN 0 ELSE Place(c) + 1
  <2>1. n = <<d1, ~h>>
    BY <1>3, <1>6 DEF NextCombination
  <2>2. n \in Combination /\ n[1] = d1 /\ n[2] = ~h
    <3>1. h = TRUE \/ h = FALSE
      OBVIOUS
    <3>2. n = <<d1, TRUE>> \/ n = <<d1, FALSE>>
      BY <2>1, <3>1
    <3> HIDE DEF n, d1
    <3>3. n \in Combination
      <4>1. <<d1, TRUE>> \in Combination /\ <<d1, FALSE>> \in Combination
        BY <1>5, Zenon DEF Combination
      <4>2. QED  BY <3>2, <4>1
    <3>4. QED  BY <2>1, <3>3
  <2>3. Half(n) = IF h THEN 0 ELSE Delays
    BY <2>2, Zenon DEF Half
  <2>4. Half(c) = IF h THEN Delays ELSE 0
    BY <1>3, Zenon DEF Half
  <2>5. Half(n) = Delays - Half(c)
    <3>1. (Half(n) = 0 /\ Half(c) = Delays) \/ (Half(n) = Delays /\ Half(c) = 0)
      BY <2>3, <2>4, Zenon
    <3>2. QED  BY ONLY <1>1, <3>1
  <2>6. Turn(d1) = 0 /\ Turn(d) = Delays - 1
    BY <1>6, TurnFacts
  <2>7. Place(n) = Delays - Half(c)
    BY <1>1, <1>3, <2>2, <2>5, <2>6 DEF Place
  <2>8. Place(n) = IF Place(c) = 2 * Delays - 1 THEN 0 ELSE Place(c) + 1
    BY <1>1, <1>3, <2>6, <2>7
  <2>9. QED  BY <2>2, <2>8
<1>7. ASSUME d1 # DelayBegin
      PROVE  /\ n \in Combination
             /\ Place(n) = IF Place(c) = 2 * Delays - 1 THEN 0 ELSE Place(c) + 1
  <2>1. n = <<d1, h>>
    BY <1>3, <1>7 DEF NextCombination
  <2>2. n \in Combination /\ n[1] = d1 /\ n[2] = h
    BY <1>5, <2>1 DEF Combination
  <2>3. Half(n) = Half(c)
    BY <1>3, <2>2, Zenon DEF Half
  <2>4. Turn(d1) = Turn(d) + 1 /\ Turn(d1) \in 0..Delays - 1
    BY <1>5, <1>7, TurnFacts
  <2>5. Place(n) = Place(c) + 1
    BY <1>1, <1>3, <2>2, <2>3, <2>4 DEF Place
  <2>6. Place(c) # 2 * Delays - 1
    BY <1>1, <1>3, <2>4
  <2>7. QED  BY <2>2, <2>5, <2>6
<1>8. ASSUME NEW e \in Combination, Place(c) = Place(e)
      PROVE  c = e
  <2>1. PICK d2 \in 0..Delays - 1, h2 \in BOOLEAN : e = <<d2, h2>>
    BY DEF Combination
  <2>2. /\ e[1] = d2 /\ e[2] = h2 /\ Half(e) \in {0, Delays} /\ Turn(d2) \in 0..Delays - 1
        /\ Place(e) = Turn(d2) + Half(e)
    BY <2>1, HalfFacts, TurnFacts DEF Place
  <2>3. Turn(d) = Turn(d2) /\ Half(c) = Half(e)
    BY <1>1, <1>3, <1>8, <2>2
  <2>4. d = d2
    BY <2>3, TurnFacts
  <2>5. h = h2
    <3>1. c[2] = e[2]
      BY <2>3, HalfFacts
    <3>2. QED  BY <1>3, <2>2, <3>1
  <2>6. QED  BY <1>2, <2>1, <2>4, <2>5
<1>9. QED  BY <1>4, <1>6, <1>7, <1>8

(* Every attempt at the next combination: those used are the last ones again,
   and one is used a second time only when all have been. *)
LEMMA TriedStep ==
    ASSUME card \in {"sd", "emmc"}, combo \in Combination, tried \subseteq Combination,
           TriedInv, sdTryNextReadDelay, card' = card
    PROVE  /\ combo' \in Combination /\ tried' \subseteq Combination
           /\ TriedInv'
           /\ combo' \in tried => tried = Combination
<1>1. Delays \in Nat /\ Delays > 2
  BY SdReadAssumption
<1>2. combo' = NextCombination(combo) /\ combo' \in Combination
      /\ tried' = tried \union {combo'} /\ tried' \subseteq Combination
  BY PlaceFacts DEF sdTryNextReadDelay
<1>3. PICK m \in 1..2 * Delays : tried = {c \in Combination : Behind(c) < m}
  BY DEF TriedInv
<1> DEFINE p == Place(combo)
           Later(c) == Distance(Place(combo'), Place(c))
<1>4. p \in 0..2 * Delays - 1 /\ Place(combo') = IF p = 2 * Delays - 1 THEN 0 ELSE p + 1
  BY <1>2, PlaceFacts
<1>5. \A c : Behind(c)' = Later(c)
  BY DEF Behind, Distance, Place, Turn, Half, DelayBegin
<1>6. ASSUME NEW c \in Combination
      PROVE  /\ Behind(c) \in 0..2 * Delays - 1
             /\ Later(c) = IF Behind(c) = 2 * Delays - 1 THEN 0 ELSE Behind(c) + 1
             /\ Behind(c) = 2 * Delays - 1 <=> c = combo'
  <2>1. Place(c) \in 0..2 * Delays - 1 /\ (Place(c) = Place(combo') => c = combo')
    BY <1>2, PlaceFacts
  <2>2. Behind(c) = Distance(p, Place(c))
    BY DEF Behind
  <2> HIDE DEF p
  <2>3. Behind(c) \in 0..2 * Delays - 1
    BY <1>1, <1>4, <2>1, <2>2 DEF Distance
  <2>4. Later(c) = IF Behind(c) = 2 * Delays - 1 THEN 0 ELSE Behind(c) + 1
    BY <1>1, <1>4, <2>1, <2>2 DEF Distance
  <2>5. Behind(c) = 2 * Delays - 1 <=> Place(c) = Place(combo')
    BY <1>1, <1>4, <2>1, <2>2 DEF Distance
  <2>6. QED  BY <2>1, <2>3, <2>4, <2>5
<1> HIDE DEF p, Later
<1>7. CASE m = 2 * Delays
  <2>1. tried = Combination
    BY <1>3, <1>6, <1>7, <1>1
  <2>2. tried' = Combination
    BY <1>2, <2>1
  <2>3. \A c \in Combination : Later(c) < 2 * Delays
    BY <1>1, <1>6
  <2>4. tried' = {c \in Combination : Behind(c)' < 2 * Delays}
    BY <1>5, <2>2, <2>3
  <2>5. TriedInv'
    BY <1>7, <2>4 DEF TriedInv
  <2>6. QED  BY <1>2, <2>1, <2>5
<1>8. CASE m < 2 * Delays
  <2>1. combo' \notin tried
    BY <1>1, <1>2, <1>3, <1>6, <1>8
  <2>2. m + 1 \in 1..2 * Delays
    BY <1>1, <1>8
  <2>3. \A c \in Combination : c \in tried' <=> Later(c) < m + 1
    <3>1. ASSUME NEW c \in Combination, c = combo'
          PROVE  c \in tried' /\ Later(c) < m + 1
      BY <1>1, <1>2, <1>6, <3>1
    <3>2. ASSUME NEW c \in Combination, c # combo'
          PROVE  c \in tried' <=> Later(c) < m + 1
      <4>1. Later(c) = Behind(c) + 1 /\ Behind(c) \in 0..2 * Delays - 1
        BY <1>6, <3>2
      <4>2. Behind(c) < m <=> Later(c) < m + 1
        BY <1>1, <4>1
      <4>3. c \in tried' <=> Behind(c) < m
        BY <1>2, <1>3, <3>2
      <4>4. QED  BY <4>2, <4>3
    <3>3. QED  BY <3>1, <3>2
  <2>4. tried' = {c \in Combination : Behind(c)' < m + 1}
    BY <1>2, <1>5, <2>3
  <2>5. TriedInv'
    BY <2>2, <2>4 DEF TriedInv
  <2>6. QED  BY <1>2, <2>1, <2>5
<1>9. QED  BY <1>1, <1>7, <1>8

-----------------------------------------------------------------------------
(* The invariant *)

LEMMA FullRegister == \A a, b : <<a, b>> # <<>>
OBVIOUS

(* Whatever else an action does, it leaves the combination alone or tries the
   next one. *)
LEMMA TuningStep ==
    ASSUME IInv, card' = card, sdTryNextReadDelay \/ UNCHANGED <<combo, tried>>
    PROVE  /\ combo' \in Combination /\ tried' \subseteq Combination
           /\ TriedInv'
           /\ combo' # combo /\ combo' \in tried => tried = Combination
<1>1. /\ card \in {"sd", "emmc"} /\ combo \in Combination /\ tried \subseteq Combination
      /\ TriedInv
  BY DEF IInv, TypeOK
<1>2. CASE sdTryNextReadDelay
  BY <1>1, <1>2, TriedStep
<1>3. CASE UNCHANGED <<combo, tried>>
  <2>1. \A c : Behind(c)' = Behind(c)
    BY <1>3 DEF Behind, Distance, Place, Turn, Half, DelayBegin
  <2>2. PICK m \in 1..2 * Delays : tried = {c \in Combination : Behind(c) < m}
    BY <1>1 DEF TriedInv
  <2>3. tried' = {c \in Combination : Behind(c)' < m}
    BY <1>3, <2>1, <2>2
  <2>4. TriedInv'
    BY <2>3 DEF TriedInv
  <2>5. QED  BY <1>1, <1>3, <2>4
<1>4. QED  BY <1>2, <1>3

LEMMA InitIInv == Init => IInv
<1> SUFFICES ASSUME Init PROVE IInv
  OBVIOUS
<1>1. MAX_SD_READ_RETRY \in Nat /\ MAX_count \in Nat /\ Blocks \in Nat
      /\ Words \in Nat \ {0} /\ Delays \in Nat /\ Delays > 2
  BY BlockFacts, SdReadAssumption
<1>2. buf \in Seq(Word) /\ Len(buf) = 0
  BY EmptySeq DEF Init
<1>3. TypeOK
  <2>1. data_err \in BOOLEAN
    BY DEF Init
  <2>2. freq \in 0..4095
    BY DEF Init
  <2>3. combo \in Combination /\ tried \subseteq Combination
    BY DEF Init
  <2>4. QED  BY <1>1, <1>2, <2>1, <2>2, <2>3 DEF Init, TypeOK
<1>4. ReceiveInv /\ ResultInv /\ PollInv
  BY DEF Init, ReceiveInv, ResultInv, PollInv
<1>5. StoredInv
  BY DEF Init, StoredInv
<1>6. TriedInv
  <2>1. card \in {"sd", "emmc"} /\ combo \in Combination /\ tried = {combo}
    BY DEF Init
  <2>2. \A c \in Combination : Behind(c) < 1 <=> c = combo
    <3>1. ASSUME NEW c \in Combination
          PROVE  Behind(c) < 1 <=> c = combo
      <4>1. /\ Place(c) \in 0..2 * Delays - 1 /\ Place(combo) \in 0..2 * Delays - 1
            /\ Place(c) = Place(combo) => c = combo
        BY <2>1, PlaceFacts
      <4>2. QED  BY <1>1, <4>1 DEF Behind, Distance
    <3>2. QED  BY <3>1
  <2>3. tried = {c \in Combination : Behind(c) < 1}
    BY <2>1, <2>2
  <2>4. QED  BY <1>1, <2>3 DEF TriedInv
<1>7. QED  BY <1>3, <1>4, <1>5, <1>6 DEF IInv

(* The steps of the driver. *)
LEMMA IssueIInv == IInv /\ Issue => IInv'
<1> SUFFICES ASSUME IInv, Issue PROVE IInv'
  OBVIOUS
<1>1. TriedInv' /\ combo' \in Combination /\ tried' \subseteq Combination
  BY TuningStep DEF Issue, tuning
<1>2. buf' = <<>> /\ buf' \in Seq(Word) /\ Len(buf') = 0
  BY EmptySeq DEF Issue
<1>3. MAX_count \in Nat /\ Words \in Nat \ {0} /\ Blocks \in Nat \ {0} /\ BlockWords \in Nat
      /\ 0 * BlockWords = 0 /\ (0 + 1) * BlockWords = BlockWords
  BY SdReadAssumption, BlockFacts
<1>4. TypeOK'
  <2>1. data_err' \in BOOLEAN
    BY DEF Issue
  <2>2. QED  BY <1>1, <1>2, <1>3, <2>1 DEF IInv, TypeOK, Issue, Reset, tuning
<1>5. ReceiveInv' /\ PollInv'
  BY <1>3 DEF IInv, ReceiveInv, PollInv, Issue, Reset
<1>6. StoredInv'
  BY <1>2 DEF StoredInv, Issue, Reset
<1>7. ResultInv'
  BY DEF ResultInv, Issue
<1>8. QED  BY <1>1, <1>4, <1>5, <1>6, <1>7 DEF IInv

LEMMA TopIInv == IInv /\ Top => IInv'
<1> SUFFICES ASSUME IInv, Top PROVE IInv'
  OBVIOUS
<1>1. TriedInv' /\ combo' \in Combination /\ tried' \subseteq Combination
  BY TuningStep DEF Top, tuning
<1>2. MAX_count \in Nat /\ Words \in Nat /\ Len(buf) \in Nat
  BY SdReadAssumption, BlockFacts, LenProperties DEF IInv, TypeOK
<1>3. TypeOK'
  BY <1>1, <1>2 DEF IInv, TypeOK, Top, tuning, controller
<1>4. ReceiveInv'
  BY DEF IInv, ReceiveInv, Top, controller
<1>5. StoredInv'
  BY DEF IInv, StoredInv, Top, controller
<1>6. ResultInv' /\ PollInv'
  BY <1>2, SdReadAssumption DEF IInv, TypeOK, ResultInv, PollInv, Top, controller
<1>7. QED  BY <1>1, <1>3, <1>4, <1>5, <1>6 DEF IInv

LEMMA WaitIInv == IInv /\ Wait => IInv'
<1> SUFFICES ASSUME IInv, Wait PROVE IInv'
  OBVIOUS
<1>1. TriedInv' /\ combo' \in Combination /\ tried' \subseteq Combination
  BY TuningStep DEF Wait, tuning
<1>2. TypeOK'
  BY <1>1 DEF IInv, TypeOK, Wait, tuning, controller
<1>3. ReceiveInv'
  BY DEF IInv, ReceiveInv, Wait, controller
<1>4. StoredInv'
  BY DEF IInv, StoredInv, Wait, controller
<1>5. ResultInv' /\ PollInv'
  BY DEF IInv, ResultInv, PollInv, Wait, controller
<1>6. QED  BY <1>1, <1>2, <1>3, <1>4, <1>5 DEF IInv

LEMMA DelayIInv == IInv /\ Delay => IInv'
<1> SUFFICES ASSUME IInv, Delay, pc' \in {"wait", "report"} PROVE IInv'
  BY DEF Delay
<1>1. TriedInv' /\ combo' \in Combination /\ tried' \subseteq Combination
  BY TuningStep DEF Delay, tuning
<1>2. i' \in 0..MAX_count /\ data_err' \in BOOLEAN /\ PollInv'
  <2>1. i \in 0..MAX_count /\ i < MAX_count /\ MAX_count \in Nat
    BY SdReadAssumption DEF IInv, TypeOK, PollInv, Delay
  <2>2. i' = i + 1 /\ (pc' = "wait" => i' # MAX_count) /\ pc' # "delay"
    BY DEF Delay
  <2>3. data_err' \in BOOLEAN
    <3>1. data_err' = TRUE \/ data_err' = data_err
      BY DEF Delay
    <3>2. data_err \in BOOLEAN
      BY DEF IInv, TypeOK
    <3>3. QED  BY <3>1, <3>2, Zenon
  <2>4. QED  BY <2>1, <2>2, <2>3 DEF PollInv
<1>3. TypeOK'
  BY <1>1, <1>2 DEF IInv, TypeOK, Delay, tuning, controller
<1>4. ReceiveInv'
  BY DEF IInv, ReceiveInv, Delay, controller
<1>5. StoredInv'
  BY DEF IInv, StoredInv, Delay, controller
<1>6. ResultInv'
  BY DEF ResultInv
<1>7. QED  BY <1>1, <1>2, <1>3, <1>4, <1>5, <1>6 DEF IInv

(* A word leaves the register for its place in the buffer. *)
LEMMA TakeIInv == IInv /\ Take => IInv'
<1> SUFFICES ASSUME IInv, Take PROVE IInv'
  OBVIOUS
<1>1. TriedInv' /\ combo' \in Combination /\ tried' \subseteq Combination
  BY TuningStep DEF Take, tuning
<1>2. /\ buf \in Seq(Word) /\ Len(buf) \in Nat /\ sent \in 0..Words /\ Words \in Nat
      /\ rx # <<>> /\ rx \in Word /\ rx = <<retry, sent>> /\ Len(buf) = sent - 1
      /\ \A k \in 1..Len(buf) : buf[k] = <<retry, k>>
      /\ state # "off"
  BY BlockFacts, LenProperties DEF IInv, TypeOK, StoredInv, ReceiveInv, Take
<1>3. CASE state = "error"
  <2>1. pc' = "idle" /\ buf' = buf /\ rx' = rx
    BY <1>3 DEF Take
  <2>2. TypeOK'
    BY <1>1, <2>1 DEF IInv, TypeOK, Take, tuning
  <2>3. ReceiveInv' /\ PollInv' /\ ResultInv' /\ StoredInv'
    BY <1>3, <2>1 DEF IInv, ReceiveInv, PollInv, ResultInv, StoredInv, Take
  <2>4. QED  BY <1>1, <2>2, <2>3 DEF IInv
<1>4. CASE state # "error"
  <2>1. pc' = "top" /\ buf' = Append(buf, rx) /\ rx' = <<>>
    BY <1>4 DEF Take
  <2>2. /\ buf' \in Seq(Word) /\ Len(buf') = sent
        /\ \A k \in 1..Len(buf) : buf'[k] = buf[k]
        /\ buf'[Len(buf) + 1] = rx
    BY <1>2, <2>1, AppendProperties
  <2>3. \A k \in 1..Len(buf') : buf'[k] = <<retry, k>>
    <3>1. ASSUME NEW k \in 1..Len(buf')
          PROVE  buf'[k] = <<retry, k>>
      <4>1. CASE k = sent
        <5>1. k = Len(buf) + 1
          BY <1>2, <4>1
        <5>2. QED  BY <1>2, <2>2, <4>1, <5>1
      <4>2. CASE k # sent
        <5>1. k \in 1..Len(buf)
          BY <1>2, <2>2, <4>2
        <5>2. QED  BY <1>2, <2>2, <5>1
      <4>3. QED  BY <4>1, <4>2
    <3>2. QED  BY <3>1
  <2>4. TypeOK'
    <3>1. /\ pc' \in {"idle", "top"} /\ rx' \in {rx, <<>>}
          /\ card' = card /\ retry' = retry /\ i' = i /\ data_err' = data_err /\ ret' = ret
          /\ combo' = combo /\ tried' = tried /\ freq' = freq
          /\ state' = state /\ err' = err /\ sent' = sent /\ checked' = checked
      BY <1>2 DEF Take, tuning
    <3>2. buf' \in Seq(Word) /\ Len(buf') <= Words
      BY <1>1, <1>2, <2>1, <2>2 DEF IInv, TypeOK
    <3>3. QED  BY <1>1, <3>1, <3>2 DEF IInv, TypeOK
  <2>5. ReceiveInv' /\ PollInv' /\ ResultInv'
    BY <1>4, <2>1 DEF IInv, ReceiveInv, PollInv, ResultInv, Take
  <2>6. StoredInv'
    <3>1. retry' = retry /\ sent' = sent
      BY DEF Take
    <3>2. QED  BY <2>1, <2>2, <2>3, <3>1 DEF StoredInv
  <2>7. QED  BY <1>1, <2>4, <2>5, <2>6 DEF IInv
<1>5. QED  BY <1>3, <1>4

LEMMA ReportIInv == IInv /\ Report => IInv'
<1> SUFFICES ASSUME IInv, Report PROVE IInv'
  OBVIOUS
<1>1. TriedInv' /\ combo' \in Combination /\ tried' \subseteq Combination
  <2>1. sdTryNextReadDelay \/ UNCHANGED <<combo, tried>>
    BY DEF Report
  <2>2. card' = card
    BY DEF Report
  <2>3. QED  BY <2>1, <2>2, TuningStep
<1>2. freq' \in 0..4095
  <2>1. freq \in 0..4095
    BY DEF IInv, TypeOK
  <2>2. SlowerFreq \in 0..4095
    <3> DEFINE n == 2 * freq + 1
    <3>1. n \in Nat
      BY <2>1
    <3>2. SlowerFreq = n % 4096
      BY DEF SlowerFreq
    <3> HIDE DEF n
    <3>3. QED  BY <3>1, <3>2
  <2>3. QED  BY <2>1, <2>2 DEF Report
<1>3. TypeOK'
  <2>1. /\ pc' = "stop" /\ ret' = "fail" /\ card' = card /\ retry' = retry
        /\ buf' = buf /\ i' = i /\ data_err' = data_err
        /\ state' = state /\ err' = err /\ sent' = sent /\ checked' = checked /\ rx' = rx
    BY DEF Report, controller
  <2>2. QED  BY <1>1, <1>2, <2>1 DEF IInv, TypeOK
<1>4. ReceiveInv' /\ StoredInv' /\ PollInv' /\ ResultInv'
  BY DEF IInv, ReceiveInv, StoredInv, PollInv, ResultInv, Report, controller
<1>5. QED  BY <1>1, <1>3, <1>4 DEF IInv

(* The result is good only from an idle controller, which has sent all. *)
LEMMA IdleWaitIInv == IInv /\ IdleWait => IInv'
<1> SUFFICES ASSUME IInv, IdleWait PROVE IInv'
  OBVIOUS
<1>1. TriedInv' /\ combo' \in Combination /\ tried' \subseteq Combination
  BY TuningStep DEF IdleWait, tuning
<1>2. TypeOK'
  BY <1>1 DEF IInv, TypeOK, IdleWait, IdleResult, tuning, controller
<1>3. ReceiveInv' /\ StoredInv' /\ PollInv'
  BY DEF IInv, ReceiveInv, StoredInv, PollInv, IdleWait, controller
<1>4. ResultInv'
  BY DEF IInv, ResultInv, IdleWait, IdleResult, controller
<1>5. QED  BY <1>1, <1>2, <1>3, <1>4 DEF IInv

(* A good read whose last CRC was right has all its words. *)
LEMMA GoodAtStop ==
    ASSUME IInv, pc = "stop", ret = "ok"
    PROVE  buf = [n \in 1..Words |-> <<retry, n>>] /\ checked = Blocks
<1>1. /\ buf \in Seq(Word) /\ Len(buf) = Words /\ state = "idle" /\ checked = Blocks
      /\ \A k \in 1..Len(buf) : buf[k] = <<retry, k>>
  BY DEF IInv, TypeOK, ResultInv, StoredInv, ReceiveInv
<1>2. buf \in [1..Words -> Word]
  BY <1>1, LenProperties
<1>3. QED  BY <1>1, <1>2

LEMMA StopTransmissionIInv == IInv /\ StopTransmission => IInv'
<1> SUFFICES ASSUME IInv, StopTransmission PROVE IInv'
  OBVIOUS
<1>1. TriedInv' /\ combo' \in Combination /\ tried' \subseteq Combination
  <2>1. (sdTryNextReadDelay \/ UNCHANGED <<combo, tried>>) /\ card' = card
    BY DEF StopTransmission
  <2>2. QED  BY <2>1, TuningStep
<1>2. /\ pc' \in {"issue", "done"} /\ retry' \in 0..MAX_SD_READ_RETRY
      /\ pc' = "done" => retry' = retry
  BY SdReadAssumption DEF IInv, TypeOK, StopTransmission, Retry
<1>3. TypeOK'
  <2>1. Blocks \in Nat /\ Words \in Nat
    BY BlockFacts, SdReadAssumption
  <2>2. QED  BY <1>1, <1>2, <2>1 DEF IInv, TypeOK, StopTransmission, Reset
<1>4. ReceiveInv' /\ StoredInv' /\ PollInv'
  BY <1>2 DEF ReceiveInv, StoredInv, PollInv, StopTransmission, Reset
<1>5. ResultInv'
  <2>1. ASSUME pc' = "done", ret' = "ok"
        PROVE  buf' = [n \in 1..Words |-> <<retry', n>>]
    <3>1. pc = "stop" /\ ret = "ok" /\ buf' = buf /\ retry' = retry
      BY <1>2, <2>1 DEF StopTransmission
    <3>2. QED  BY <3>1, GoodAtStop
  <2>2. QED  BY <1>2, <2>1 DEF ResultInv
<1>6. QED  BY <1>1, <1>3, <1>4, <1>5 DEF IInv

(* The steps of the controller. *)
LEMMA ReceiveIInv == IInv /\ Receive => IInv'
<1> SUFFICES ASSUME IInv, Receive PROVE IInv'
  OBVIOUS
<1>1. TriedInv' /\ combo' \in Combination /\ tried' \subseteq Combination
  BY TuningStep DEF Receive, tuning
<1>2. /\ checked \in 0..Blocks /\ checked < Blocks /\ sent \in 0..Words /\ Words \in Nat
      /\ checked * BlockWords \in Nat /\ checked * BlockWords <= sent
      /\ sent < (checked + 1) * BlockWords /\ (checked + 1) * BlockWords <= Words
      /\ (checked + 1) * BlockWords = checked * BlockWords + BlockWords
      /\ BlockWords \in Nat
      /\ sent' = sent + 1
  BY BlockFacts, SdReadAssumption DEF IInv, TypeOK, ReceiveInv, Receive
<1>3. sent' \in 1..Words /\ checked * BlockWords <= sent'
      /\ sent' <= (checked + 1) * BlockWords
  BY ONLY <1>2
<1>4. rx' \in Word /\ rx' = <<retry, sent'>> /\ rx' # <<>>
  BY <1>3, FullRegister DEF IInv, TypeOK, Receive, Word
<1>5. TypeOK'
  BY <1>1, <1>2, <1>3, <1>4 DEF IInv, TypeOK, Receive, tuning, reader
<1>6. ReceiveInv' /\ PollInv' /\ ResultInv'
  BY <1>3 DEF IInv, ReceiveInv, PollInv, ResultInv, Receive, reader
<1>7. StoredInv'
  BY <1>2, <1>4 DEF IInv, StoredInv, Receive, reader
<1>8. QED  BY <1>1, <1>5, <1>6, <1>7 DEF IInv

LEMMA CheckCrcIInv == IInv /\ CheckCrc => IInv'
<1> SUFFICES ASSUME IInv, CheckCrc PROVE IInv'
  OBVIOUS
<1>1. TriedInv' /\ combo' \in Combination /\ tried' \subseteq Combination
  BY TuningStep DEF CheckCrc, tuning
<1>2. /\ checked \in 0..Blocks /\ checked < Blocks /\ Blocks \in Nat /\ Words \in Nat
      /\ sent = (checked + 1) * BlockWords /\ state = "receive"
      /\ sent' = sent /\ rx' = rx
      /\ UNCHANGED <<pc, retry, buf, i, data_err, ret>>
  BY BlockFacts, SdReadAssumption DEF IInv, TypeOK, ReceiveInv, CheckCrc, reader
<1>3. PollInv' /\ StoredInv' /\ ResultInv'
  BY <1>2 DEF IInv, PollInv, StoredInv, ResultInv, CheckCrc
<1>4. CASE checked' = checked + 1 /\ err' = err
           /\ state' = IF checked' = Blocks THEN "idle" ELSE state
  <2>1. TypeOK'
    BY <1>1, <1>2, <1>4 DEF IInv, TypeOK, CheckCrc, tuning
  <2>2. CASE checked' = Blocks
    <3>1. sent' = Words
      BY <1>2, <1>4, <2>2, BlockFacts
    <3>2. ReceiveInv'
      BY <1>2, <1>4, <2>2, <3>1 DEF IInv, ReceiveInv
    <3>3. QED  BY <1>1, <1>3, <2>1, <3>2 DEF IInv
  <2>3. CASE checked' # Blocks
    <3>1. checked' \in 0..Blocks /\ checked' < Blocks
      BY <1>2, <1>4, <2>3
    <3>2. checked' * BlockWords = sent' /\ sent' <= (checked' + 1) * BlockWords
      <4>1. (checked' + 1) * BlockWords = checked' * BlockWords + BlockWords
        BY <3>1, BlockFacts
      <4>2. checked' * BlockWords \in Nat /\ BlockWords \in Nat
        BY <3>1, BlockFacts, SdReadAssumption
      <4>3. checked' * BlockWords = sent'
        BY <1>2, <1>4
      <4>4. QED  BY <4>1, <4>2, <4>3
    <3>3. ReceiveInv'
      BY <1>2, <1>4, <2>3, <3>1, <3>2 DEF IInv, ReceiveInv
    <3>4. QED  BY <1>1, <1>3, <2>1, <3>3 DEF IInv
  <2>4. QED  BY <2>2, <2>3
<1>5. CASE state' = "error" /\ err' = "crc" /\ checked' = checked
  <2>1. TypeOK'
    BY <1>1, <1>2, <1>5 DEF IInv, TypeOK, CheckCrc, tuning
  <2>2. ReceiveInv'
    BY <1>2, <1>5 DEF IInv, ReceiveInv
  <2>3. QED  BY <1>1, <1>3, <2>1, <2>2 DEF IInv
<1>6. QED  BY <1>4, <1>5 DEF CheckCrc

LEMMA BreakIInv == IInv /\ Break => IInv'
<1> SUFFICES ASSUME IInv, Break PROVE IInv'
  OBVIOUS
<1>1. TriedInv' /\ combo' \in Combination /\ tried' \subseteq Combination
  BY TuningStep DEF Break, tuning
<1>2. TypeOK'
  BY <1>1 DEF IInv, TypeOK, Break, tuning, reader
<1>3. ReceiveInv' /\ PollInv' /\ StoredInv' /\ ResultInv'
  BY DEF IInv, ReceiveInv, PollInv, StoredInv, ResultInv, Break, reader
<1>4. QED  BY <1>1, <1>2, <1>3 DEF IInv

LEMMA StutterIInv == IInv /\ UNCHANGED vars => IInv'
<1> SUFFICES ASSUME IInv, UNCHANGED vars PROVE IInv'
  OBVIOUS
<1>1. TriedInv' /\ combo' \in Combination /\ tried' \subseteq Combination
  BY TuningStep DEF vars, tuning
<1>2. UNCHANGED <<card, pc, retry, buf, i, data_err, ret, combo, tried, freq,
                  state, err, sent, checked, rx>>
  BY DEF vars, reader, tuning, controller
<1>3. TypeOK' /\ ReceiveInv' /\ PollInv' /\ StoredInv' /\ ResultInv'
  BY <1>2 DEF IInv, TypeOK, ReceiveInv, PollInv, StoredInv, ResultInv
<1>4. QED  BY <1>1, <1>3 DEF IInv

(* The invariant holds for reads of any length and any number of retries. *)
THEOREM Invariance == Spec => []IInv
<1>1. IInv /\ [Next]_vars => IInv'
  BY IssueIInv, TopIInv, WaitIInv, DelayIInv, TakeIInv, ReportIInv, IdleWaitIInv,
     StopTransmissionIInv, ReceiveIInv, CheckCrcIInv, BreakIInv, StutterIInv
     DEF Next, Driver, Controller
<1>2. QED  BY InitIInv, <1>1, PTL DEF Spec

(* The variables have their types: words are never stored beyond the read. *)
THEOREM TypeCorrect == Spec => []TypeOK
<1>1. IInv => TypeOK
  BY DEF IInv
<1>2. QED  BY Invariance, <1>1, PTL

(* ReadSDSector() that succeeds has stored every word of the attempt that
   succeeded in its place, the CRC of the last block included. *)
THEOREM GoodReadsAreWhole == Spec => []GoodReadIsWhole
<1>1. ASSUME IInv PROVE GoodReadIsWhole
  <2>1. pc = "stop" /\ ret = "ok" =>
           buf = [n \in 1..Words |-> <<retry, n>>] /\ checked = Blocks
    BY <1>1, GoodAtStop
  <2>2. pc = "done" /\ ret = "ok" => buf = [n \in 1..Words |-> <<retry, n>>]
    BY <1>1 DEF IInv, ResultInv
  <2>3. QED  BY <2>1, <2>2 DEF GoodReadIsWhole
<1>2. QED  BY Invariance, <1>1, PTL

(* sdTryNextReadDelay(): no combination of read delay and edge is used again
   before all of them have been, in a read of any number of attempts. *)
THEOREM SearchIsComplete == Spec => AllCombinationsBeforeOneAgain
<1>1. ASSUME IInv, [Next]_vars
      PROVE  [combo' # combo /\ combo' \in tried => tried = Combination]_vars
  <2>1. card' = card /\ (sdTryNextReadDelay \/ UNCHANGED <<combo, tried>>)
    BY <1>1 DEF Next, Driver, Controller, Issue, Top, Wait, Delay, Take, Report, IdleWait,
                StopTransmission, Receive, CheckCrc, Break, vars, tuning
  <2>2. QED  BY <1>1, <2>1, TuningStep
<1>2. QED  BY Invariance, <1>1, PTL DEF Spec, AllCombinationsBeforeOneAgain
=============================================================================
