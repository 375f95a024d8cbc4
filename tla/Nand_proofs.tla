--------------------------- MODULE Nand_proofs ---------------------------
(***************************************************************************)
(* Proofs about NandBoot for every chip geometry, search window, set of    *)
(* chips and number of failing reads, and about the page reads it relies   *)
(* on, NandPage, for every size of chip and read and number of failures.   *)
(***************************************************************************)
EXTENDS NandBoot, NandPage, TLAPS

(* the buffer holds a whole image and its signature *)
Loaded(nm) ==
    /\ buf[nm].src \in Blk
    /\ Whole(chip.img[buf[nm].src], nm, ChipLimit)
    /\ buf[nm].upto >= LoadLength(chip.img[buf[nm].src].size)

(* which of the two images that are searched is loaded: the result that
   UpdatePreferred asks for where uboot2 is the update *)
Preferred ==
    IF \E b \in Uboot2 : WholeUboot(b) THEN buf["uboot"].src \in Uboot2
                                       ELSE buf["uboot"].src \in Uboot1

(* Which search runs, and where; what the running step is about *)
CallInv ==
    /\ chip \in Chips
    /\ Running => blk_start + SearchCnt - 1 <= LastBlk
    /\ stage \in {"uboot1_hdr", "fallback"} => blk_start = AppBlk
    /\ stage = "uboot1_hdr" => hdr1 = 0
    /\ stage = "uboot2" => blk_start > AppBlk
    /\ stage = "fip" => blk_start = FipBlk
    /\ Running /\ step = "find" => read_length = HdrSize /\ got = 0
    /\ Running /\ step = "load" =>
           /\ ~only_load_hdr
           /\ HeaderOk(found, name)
           /\ read_length = LoadLength(found.size)

(* What has been loaded when *)
LoadedInv ==
    /\ stage \in {"fip", "boot_uboot"} =>
           Loaded("uboot") /\ buf["uboot"].src >= AppBlk
    /\ stage = "boot_uboot" =>
           Loaded("fip") /\ buf["fip"].src \in Window(FipBlk)

(* While every page reads well, a search has passed no header of its name, and
   each stage knows what the ones before it have found. *)
ScanInv ==
    ~failed =>
        /\ Running => \A k \in 0..i - 1 : ~HeaderAt(blk_start + k, name)
        /\ Running /\ stage # "uboot1_hdr" => (hdr1 > 0 <=> Uboot1 # {})
        /\ stage = "uboot2" => blk_start = Start2
        /\ stage = "fallback" => Uboot1 # {} /\ \A b \in Uboot2 : ~WholeUboot(b)
        /\ stage \in {"fip", "boot_uboot"} => Preferred

(* why nand_uboot returned *)
CauseInv ==
    stage = "return" /\ ~failed =>
        \/ \A b \in Uboot1 \union Uboot2 : ~WholeUboot(b)
        \/ \A b \in Found(FipBlk, "fip") : ~WholeFip(b)

(* Both copies of u-boot are there and one read may fail, or has failed. *)
BothGood ==
    /\ \E b \in Uboot1 : WholeUboot(b)
    /\ \E b \in Uboot2 \ Uboot1 : WholeUboot(b) /\ b <= AppBlk + SearchCnt
OneFault == chip.bad = {} /\ faults <= 1 /\ BothGood

(* The search for uboot1 can only have missed the very block it looks for.
   When it has, the search for uboot2 that starts one block behind finds one of
   the two copies; when something went wrong later, the fall-back finds uboot1.
   Either way the failing read has been used up. *)
SpareInv ==
    /\ chip.bad = {} => (failed <=> faults > 0)
    /\ OneFault =>
        /\ stage = "uboot1_hdr" =>
               \A k \in 0..i - 1 : HeaderAt(AppBlk + k, "uboot") => AppBlk + k \in Uboot1
        /\ stage = "uboot2" =>
               \/ hdr1 > 0
               \/ /\ faults = 1 /\ blk_start = AppBlk + 1
                  /\ \A k \in 0..i - 1 : ~HeaderAt(blk_start + k, "uboot")
        /\ stage = "fallback" =>
               faults = 1 /\ \A k \in 0..i - 1 : ~HeaderAt(blk_start + k, "uboot")
        /\ stage = "return" => blk_start = FipBlk

IInv == TypeOK /\ CallInv /\ LoadedInv /\ ScanInv /\ CauseInv /\ SpareInv

-----------------------------------------------------------------------------
(* Arithmetic, and what a search finds *)

LEMMA BlkUsePositive == BlkUse \in Nat \ {0}
  BY ChipAssumption DEF BlkUse

(* an image takes at least a block *)
LEMMA UpPositive == ASSUME NEW units \in Nat \ {0} PROVE Up(units) \in Nat \ {0}
  <1> DEFINE B == BlkUse
  <1>1. B \in Nat \ {0}
    BY BlkUsePositive
  <1> HIDE DEF B
  <1>2. (units + B - 1) \div B \in Nat \ {0}
    BY <1>1
  <1> QED
    BY <1>2 DEF Up, B

(* whole pages stay whole pages *)
LEMMA PagesAdd ==
    ASSUME NEW g \in Nat, NEW s \in Nat \ {0}, g % s = 0
    PROVE  (g + s) % s = 0
  <1> DEFINE q == g \div s
             r == (g + s) % s
             p == (g + s) \div s
  <1>1. q \in Nat /\ g = q * s + 0
    OBVIOUS
  <1>2. p \in Int /\ r \in 0..s - 1 /\ g + s = p * s + r
    OBVIOUS
  <1>3. (q + 1 - p) * s = r
    BY <1>1, <1>2
  <1> HIDE DEF q, p, r
  <1>4. CASE q + 1 - p >= 1
    <2>1. (q + 1 - p) * s >= s
      BY <1>4, <1>1, <1>2
    <2> QED
      BY <2>1, <1>2, <1>3
  <1>5. CASE q + 1 - p <= 0
    <2>1. (q + 1 - p) * s <= 0
      BY <1>5, <1>1, <1>2
    <2> QED
      BY <2>1, <1>2, <1>3 DEF r
  <1> QED
    BY <1>1, <1>2, <1>4, <1>5

(* an image on the chip is shorter than ChipLimit *)
LEMMA FitsChip ==
    ASSUME chip \in Chips, NEW b \in Blk, chip.img[b].magic
    PROVE  HdrSize + chip.img[b].size < ChipLimit
  <1> DEFINE B == BlkUse
             size == chip.img[b].size
  <1>1. B \in Nat \ {0} /\ LastBlk \in Nat /\ b \in 0..LastBlk
    BY BlkUsePositive, ChipAssumption DEF Blk
  <1>2. size \in Nat /\ HdrSize + size + SignSize <= (LastBlk + 1 - b) * B
    BY ChipAssumption DEF Chip, Image
  <1> HIDE DEF B, size
  <1>3. (LastBlk + 1 - b) * B <= (LastBlk + 1) * B
    BY <1>1
  <1>4. (LastBlk + 1 - b) * B \in Int /\ (LastBlk + 1) * B \in Int
    BY <1>1
  <1>5. HdrSize + size < (LastBlk + 1) * B + 1
    BY <1>2, <1>3, <1>4, ChipAssumption DEF HdrSize
  <1> QED
    BY <1>5 DEF ChipLimit, B, size

LEMMA WindowBlocks ==
    ASSUME NEW start \in Int, NEW b
    PROVE  b \in Window(start) <=> \E k \in 0..SearchCnt - 1 : b = start + k
  <1>1. ASSUME b \in Window(start) PROVE \E k \in 0..SearchCnt - 1 : b = start + k
    <2>1. b - start \in 0..SearchCnt - 1 /\ b = start + (b - start)
      BY <1>1, ChipAssumption DEF Window
    <2> QED
      BY <2>1
  <1> QED
    BY <1>1, ChipAssumption DEF Window

(* The first header of the window is the one that is found ... *)
LEMMA FirstIsFound ==
    ASSUME NEW start \in Int, NEW nm, NEW k \in 0..SearchCnt - 1,
           HeaderAt(start + k, nm),
           \A l \in 0..k - 1 : ~HeaderAt(start + l, nm)
    PROVE  Found(start, nm) = {start + k}
  <1> USE ChipAssumption
  <1>1. start + k \in Window(start)
    BY DEF Window
  <1>2. ASSUME NEW c \in Window(start), HeaderAt(c, nm) PROVE start + k <= c
    <2>1. PICK l \in 0..SearchCnt - 1 : c = start + l
      BY <1>2, WindowBlocks
    <2>2. l \notin 0..k - 1
      BY <1>2, <2>1
    <2> QED
      BY <2>1, <2>2
  <1>3. ASSUME NEW c \in Found(start, nm) PROVE c = start + k
    <2>1. c \in Window(start) /\ HeaderAt(c, nm) /\ c <= start + k
      BY <1>1, <1>3 DEF Found, First
    <2> QED
      BY <1>2, <2>1 DEF Window
  <1>4. start + k \in Found(start, nm)
    BY <1>1, <1>2 DEF Found, First
  <1> QED
    BY <1>3, <1>4

(* ... and without a header in the window nothing is. *)
LEMMA NoneIsFound ==
    ASSUME NEW start \in Int, NEW nm,
           \A k \in 0..SearchCnt - 1 : ~HeaderAt(start + k, nm)
    PROVE  Found(start, nm) = {}
  BY WindowBlocks DEF Found, First

(* what is found is a header in the window, and the only one found *)
LEMMA FoundProperties ==
    ASSUME NEW start \in Int, NEW nm, NEW b \in Found(start, nm)
    PROVE  /\ b \in Window(start) /\ HeaderAt(b, nm)
           /\ \A c \in Window(start) : HeaderAt(c, nm) => b <= c
           /\ \A c \in Found(start, nm) : c = b
  BY ChipAssumption DEF Found, First, Window

LEMMA WindowsOnChip ==
    ASSUME chip \in Chips
    PROVE  /\ chip \in Chip
           /\ Window(AppBlk) \subseteq Blk /\ Window(FipBlk) \subseteq Blk
           /\ AppBlk \in Nat /\ FipBlk \in Nat
  BY ChipAssumption DEF Window, Blk

(* where uboot2 is looked for when uboot1 was found, or was not *)
LEMMA Start2Properties ==
    ASSUME chip \in Chips
    PROVE  /\ Start2 \in Nat /\ Start2 > AppBlk /\ Start2 + SearchCnt - 1 <= LastBlk
           /\ Uboot1 = {} => Start2 = AppBlk + 1
           /\ \A b \in Uboot1 : Start2 = AppBlk + BehindUboot1(chip.img[b].size)
  <1> USE ChipAssumption
  <1>1. CASE Uboot1 = {}
    BY <1>1 DEF Start2, Blk
  <1>2. ASSUME NEW b \in Uboot1 PROVE Start2 = AppBlk + BehindUboot1(chip.img[b].size)
                                     /\ Start2 \in Nat /\ Start2 > AppBlk
                                     /\ Start2 + SearchCnt - 1 <= LastBlk
    <2> DEFINE c == CHOOSE x \in Uboot1 : TRUE
    <2>1. c \in Uboot1
      BY <1>2
    <2>2. b \in Found(AppBlk, "uboot") /\ c \in Found(AppBlk, "uboot")
      BY <1>2, <2>1 DEF Uboot1
    <2>3. c = b /\ b \in Window(AppBlk) /\ HeaderAt(b, "uboot")
      BY <2>2, FoundProperties DEF Blk
    <2>4. b \in Blk /\ b < AppBlk + SearchCnt /\ HeaderOk(chip.img[b], "uboot")
      BY <2>3 DEF Window, HeaderAt, Blk
    <2>5. AppBlk + Up(HdrSize + chip.img[b].size) + SearchCnt - 1 <= LastBlk
      BY <2>4
    <2>6. HdrSize + chip.img[b].size \in Nat \ {0}
      BY <2>4, WindowsOnChip DEF Chip, Image, HdrSize
    <2>7. Up(HdrSize + chip.img[b].size) \in Nat \ {0}
      BY <2>6, UpPositive
    <2>8. Start2 = AppBlk + Up(HdrSize + chip.img[c].size)
      BY <2>1 DEF Start2
    <2> HIDE DEF c
    <2>9. Start2 = AppBlk + BehindUboot1(chip.img[b].size)
      BY <2>3, <2>8 DEF BehindUboot1
    <2> QED
      BY <2>5, <2>7, <2>9 DEF BehindUboot1, Blk
  <1> QED
    BY <1>1, <1>2

(* the chip is never written, and what lies on it never changes *)
LEMMA ChipConstant ==
    ASSUME chip' = chip
    PROVE  /\ Uboot1' = Uboot1 /\ Uboot2' = Uboot2 /\ Start2' = Start2
           /\ Found(FipBlk, "fip")' = Found(FipBlk, "fip")
           /\ BothGood' <=> BothGood
  <1>1. Uboot1' = Uboot1 /\ Found(FipBlk, "fip")' = Found(FipBlk, "fip")
    BY DEF Uboot1, Found, First, HeaderAt
  <1>2. Start2' = Start2
    BY <1>1 DEF Start2
  <1>3. Uboot2' = Uboot2
    BY <1>2 DEF Uboot2, Found, First, HeaderAt
  <1> QED
    BY <1>1, <1>2, <1>3 DEF BothGood, WholeUboot

LEMMA NandInit == Init => IInv
  <1> SUFFICES ASSUME Init PROVE IInv
    OBVIOUS
  <1> USE ChipAssumption DEF Init
  <1>1. AppBlk \in Nat /\ AppBlk + 0 \in Blk /\ chip \in Chip /\ 0 % SectSz = 0
    BY DEF Blk
  <1>2. TypeOK
    <2>1. buf \in [{"uboot", "fip"} -> Buffer]
      BY DEF Buffer, Empty
    <2>2. failed \in BOOLEAN
      OBVIOUS
    <2>5. /\ faults \in 0..MaxFaults
          /\ stage \in {"uboot1_hdr", "uboot2", "fallback", "fip", "return", "boot_uboot"}
          /\ step \in {"find", "load"}
      OBVIOUS
    <2>3. i \in 0..SearchCnt - 1 /\ hdr1 \in Nat /\ read_length \in Nat /\ got \in Nat
      BY DEF HdrSize
    <2>4. blk_start \in Blk /\ blk_start + i \in Blk /\ got % SectSz = 0
      BY <1>1
    <2> QED
      BY <1>1, <2>1, <2>2, <2>3, <2>4, <2>5 DEF TypeOK
  <1>3. CallInv
    BY <1>1 DEF CallInv, Blk, HdrSize
  <1>4. LoadedInv /\ ScanInv /\ CauseInv
    BY DEF LoadedInv, ScanInv, CauseInv
  <1>5. SpareInv
    BY DEF SpareInv
  <1> QED
    BY <1>2, <1>3, <1>4, <1>5 DEF IInv

(* the places that must be tried are places of the chip that may be used *)
LEMMA PlacesOnChip ==
    ASSUME chip \in Chips
    PROVE  /\ Uboot1 \union Uboot2 \subseteq AppBlk..LastBlk
           /\ Found(FipBlk, "fip") \subseteq Window(FipBlk)
           /\ AppBlk..LastBlk \subseteq Blk /\ Window(FipBlk) \subseteq Blk
  <1>1. Found(AppBlk, "uboot") \subseteq Window(AppBlk)
        /\ Found(Start2, "uboot") \subseteq Window(Start2)
        /\ Found(FipBlk, "fip") \subseteq Window(FipBlk)
    BY DEF Found, First
  <1>2. Window(AppBlk) \subseteq AppBlk..LastBlk /\ Window(Start2) \subseteq AppBlk..LastBlk
    BY ChipAssumption, Start2Properties DEF Window, Blk
  <1>3. AppBlk..LastBlk \subseteq Blk
    BY ChipAssumption DEF Blk
  <1> QED
    BY <1>1, <1>2, <1>3, WindowsOnChip DEF Uboot1, Uboot2

-----------------------------------------------------------------------------
(* Every action preserves the invariant. *)

(* what a search that ends says about the headers in its window *)
RefusedHere ==
    \A b \in Found(blk_start, name) :
        IF only_load_hdr THEN chip.img[b].size = 0
                         ELSE ~Whole(chip.img[b], name, ChipLimit)

(* How the result of nand_load_uhdr_image changes the state: given that an image
   that counts as loaded is whole, that one that does not was not there or not
   whole when every page read well, and that one fault is survived. *)
LEMMA ReturnStep ==
    ASSUME IInv, Running, NEW ok \in BOOLEAN, Return(ok), chip' = chip,
           faults' \in 0..MaxFaults, faults' >= faults,
           failed' \in BOOLEAN, failed => failed',
           chip.bad = {} => (failed' <=> faults' > 0),
           buf' \in [{"uboot", "fip"} -> Buffer],
           \A n \in {"uboot", "fip"} : n # name => buf'[n] = buf[n],
           ok => HeaderOk(found, name) /\ found.size > 0,
           ok /\ ~only_load_hdr =>
               /\ buf'[name].src = blk_start + i
               /\ Whole(found, name, ChipLimit)
               /\ buf'[name].upto >= LoadLength(found.size),
           ~ok /\ ~failed' => RefusedHere,
           OneFault' =>
               /\ stage = "uboot1_hdr" /\ ~ok => faults' = 1
               /\ stage = "uboot2" /\ ~ok => hdr1 > 0
               /\ stage = "fallback" => ok
    PROVE  IInv'
  <1> USE DEF IInv
  <1>1. /\ chip \in Chips /\ chip \in Chip /\ blk_start \in Nat /\ i \in 0..SearchCnt - 1
        /\ blk_start + i \in Blk /\ blk_start + i \in Window(blk_start)
        /\ AppBlk \in Nat /\ FipBlk \in Nat
        /\ stage \in {"uboot1_hdr", "uboot2", "fallback", "fip"}
        /\ found \in Image /\ found.size \in Nat
    BY ChipAssumption DEF TypeOK, CallInv, Blk, Window, Running, found, Chip, Image
  <1>2. /\ Uboot1' = Uboot1 /\ Uboot2' = Uboot2 /\ Start2' = Start2
        /\ Found(FipBlk, "fip")' = Found(FipBlk, "fip")
        /\ BothGood' <=> BothGood
    BY ChipConstant
  <1>3. stage = "uboot1_hdr" /\ ok =>
            /\ blk_start + BehindUboot1(found.size) \in Nat
            /\ blk_start + BehindUboot1(found.size) > AppBlk
            /\ blk_start + BehindUboot1(found.size) + SearchCnt - 1 <= LastBlk
    <2> SUFFICES ASSUME stage = "uboot1_hdr", ok
                 PROVE  /\ AppBlk + Up(HdrSize + found.size) \in Nat
                        /\ AppBlk + Up(HdrSize + found.size) > AppBlk
                        /\ AppBlk + Up(HdrSize + found.size) + SearchCnt - 1 <= LastBlk
      BY DEF CallInv, BehindUboot1
    <2>1. HdrSize + found.size \in Nat \ {0}
      BY <1>1 DEF HdrSize
    <2>2. Up(HdrSize + found.size) \in Nat \ {0}
      BY <2>1, UpPositive
    <2>3. HeaderOk(chip.img[blk_start + i], "uboot") /\ blk_start + i < AppBlk + SearchCnt
      BY <1>1, ChipAssumption DEF CallInv, found, name
    <2>4. AppBlk + Up(HdrSize + chip.img[blk_start + i].size) + SearchCnt - 1 <= LastBlk
      BY <1>1, <2>3, ChipAssumption
    <2> QED
      BY <1>1, <2>2, <2>4 DEF found
  <1>4. TypeOK'
    <2>1. chip' \in Chip /\ hdr1' \in Nat
      BY <1>1 DEF TypeOK, Return
    <2>2. stage' \in {"uboot2", "fallback", "fip", "return", "boot_uboot"}
          /\ step' \in {"find", "load"}
      BY <1>1 DEF TypeOK, Return, Load, End
    <2>3. /\ blk_start' \in Blk /\ i' \in 0..SearchCnt - 1 /\ blk_start' + i' \in Blk
      BY <1>1, <1>3, ChipAssumption DEF TypeOK, CallInv, Return, Load, End, Blk
    <2>4. read_length' \in Nat /\ got' \in Nat /\ got' % SectSz = 0
      <3>1. 0 % SectSz = 0
        BY ChipAssumption
      <3> QED
        BY <1>1, <3>1 DEF TypeOK, Return, Load, End, HdrSize
    <2> QED
      BY <2>1, <2>2, <2>3, <2>4 DEF TypeOK
  <1>5. CallInv'
    <2>1. stage' = "uboot2" => blk_start' > AppBlk
      BY <1>1, <1>3 DEF CallInv, Return, Load, End
    <2>2. stage' \in {"uboot2", "fallback", "fip"} =>
             /\ blk_start' + SearchCnt - 1 <= LastBlk
             /\ step' = "find" /\ read_length' = HdrSize /\ got' = 0
      BY <1>1, <1>3, ChipAssumption DEF CallInv, Return, Load, End, Blk
    <2>3. /\ stage' = "fallback" => blk_start' = AppBlk
          /\ stage' = "fip" => blk_start' = FipBlk
          /\ stage' \in {"uboot2", "fallback", "fip", "return", "boot_uboot"}
      BY <1>1 DEF CallInv, Return, Load, End
    <2> QED
      BY <1>1, <2>1, <2>2, <2>3 DEF CallInv, Running

  <1>6. LoadedInv'
    <2>1. CASE stage' = "fip"
      <3>1. stage \in {"uboot2", "fallback"} /\ ok /\ name = "uboot" /\ ~only_load_hdr
        BY <1>1, <2>1 DEF Return, Load, End, name, only_load_hdr
      <3>2. blk_start >= AppBlk
        BY <1>1, <3>1 DEF CallInv
      <3>3. LoadedInv' <=> Loaded("uboot")' /\ buf'["uboot"].src >= AppBlk
        BY <2>1 DEF LoadedInv
      <3>4. buf'["uboot"].src >= AppBlk
        BY <1>1, <3>1, <3>2
      <3>5. Loaded("uboot")'
        BY <1>1, <3>1 DEF Loaded, found
      <3> QED
        BY <3>3, <3>4, <3>5
    <2>2. CASE stage' = "boot_uboot"
      <3>1. stage = "fip" /\ ok /\ name = "fip" /\ ~only_load_hdr
        BY <1>1, <2>2 DEF Return, Load, End, name, only_load_hdr
      <3>2. Loaded("uboot") /\ buf["uboot"].src >= AppBlk /\ buf'["uboot"] = buf["uboot"]
        BY <3>1 DEF LoadedInv
      <3>3. Loaded("uboot")' /\ buf'["uboot"].src >= AppBlk
        BY <3>2 DEF Loaded
      <3>4. Loaded("fip")'
        BY <1>1, <3>1 DEF Loaded, found
      <3>5. (buf["fip"].src \in Window(FipBlk))'
        BY <1>1, <3>1 DEF CallInv, Window
      <3> QED
        BY <2>2, <3>3, <3>4, <3>5 DEF LoadedInv
    <2> QED
      BY <2>1, <2>2 DEF LoadedInv
  <1>7. ASSUME ~failed'
        PROVE  /\ ~failed
               /\ ok => Found(blk_start, name) = {blk_start + i}
               /\ ~ok => RefusedHere
    <2>1. ~failed
      BY <1>7
    <2>2. \A k \in 0..i - 1 : ~HeaderAt(blk_start + k, name)
      BY <2>1 DEF ScanInv
    <2>3. ok => HeaderAt(blk_start + i, name)
      BY DEF HeaderAt, found
    <2>4. ASSUME ok PROVE Found(blk_start, name) = {blk_start + i}
      <3>1. blk_start \in Int /\ i \in 0..SearchCnt - 1 /\ HeaderAt(blk_start + i, name)
        BY <1>1, <2>3, <2>4
      <3> HIDE DEF IInv
      <3> QED
        BY <2>2, <3>1, FirstIsFound
    <2> QED
      BY <1>7, <2>1, <2>4

  <1>8. ScanInv'
    <2> SUFFICES ASSUME ~failed' PROVE ScanInv'
      BY DEF ScanInv
    <2>1. \A k \in 0..i' - 1 : ~(stage' \in {"uboot2", "fallback", "fip"})
      BY <1>1 DEF Return, Load, End
    <2>2. CASE stage = "uboot1_hdr"
      <3>1. name = "uboot" /\ only_load_hdr /\ blk_start = AppBlk /\ hdr1 = 0
        BY <2>2 DEF name, only_load_hdr, CallInv
      <3>2. CASE ok
        <4>1. Uboot1 = {AppBlk + i}
          BY <1>7, <3>1, <3>2 DEF Uboot1, found
        <4>2. stage' = "uboot2" /\ hdr1' = found.size
              /\ blk_start' = AppBlk + BehindUboot1(found.size)
          BY <2>2, <3>1, <3>2 DEF Return, Load
        <4>3. Start2 = blk_start'
          BY <1>1, <3>1, <4>1, <4>2, Start2Properties DEF found
        <4> QED
          BY <1>1, <1>2, <2>1, <3>2, <4>1, <4>2, <4>3 DEF ScanInv
      <3>3. CASE ~ok
        <4>1. Uboot1 = {}
          BY <1>7, <3>1, <3>3 DEF RefusedHere, Uboot1
        <4>2. stage' = "uboot2" /\ hdr1' = 0 /\ blk_start' = Start2
          BY <1>1, <2>2, <3>1, <3>3, <4>1, Start2Properties DEF Return, Load
        <4> QED
          BY <1>2, <2>1, <4>1, <4>2 DEF ScanInv
      <3> QED
        BY <3>2, <3>3
    <2>3. CASE stage = "uboot2"
      <3>1. /\ name = "uboot" /\ ~only_load_hdr /\ blk_start = Start2 /\ hdr1' = hdr1
            /\ hdr1 > 0 <=> Uboot1 # {}
        BY <1>7, <2>3 DEF name, only_load_hdr, ScanInv, Running, Return
      <3>2. CASE ok
        <4>1. Uboot2 = {blk_start + i} /\ WholeUboot(blk_start + i)
          BY <1>1, <1>7, <3>1, <3>2 DEF Uboot2, WholeUboot, found
        <4>2. stage' = "fip" /\ buf'["uboot"].src = blk_start + i
          BY <2>3, <3>1, <3>2 DEF Return, Load
        <4>3. Preferred'
          BY <1>2, <4>1, <4>2 DEF Preferred, WholeUboot
        <4> QED
          BY <1>2, <2>1, <3>1, <4>2, <4>3 DEF ScanInv
      <3>3. CASE ~ok
        <4>1. \A b \in Uboot2 : ~WholeUboot(b)
          BY <1>7, <3>1, <3>3 DEF RefusedHere, Uboot2, WholeUboot
        <4>2. stage' \in {"fallback", "return"} /\ (stage' = "fallback" => hdr1 > 0)
          BY <2>3, <3>3 DEF Return, Load, End, HaveUboot1
        <4> QED
          BY <1>2, <2>1, <3>1, <4>1, <4>2 DEF ScanInv, WholeUboot, Running
      <3> QED
        BY <3>2, <3>3
    <2>4. CASE stage = "fallback"
      <3>1. /\ name = "uboot" /\ ~only_load_hdr /\ blk_start = AppBlk /\ hdr1' = hdr1
            /\ hdr1 > 0 <=> Uboot1 # {}
            /\ \A b \in Uboot2 : ~WholeUboot(b)
        BY <1>7, <2>4 DEF name, only_load_hdr, ScanInv, Running, Return, CallInv
      <3>2. CASE ok
        <4>1. AppBlk + i \in Uboot1
          BY <1>7, <3>1, <3>2 DEF Uboot1, found
        <4>2. stage' = "fip" /\ buf'["uboot"].src = AppBlk + i
          BY <2>4, <3>1, <3>2 DEF Return, Load
        <4>3. Preferred'
          BY <1>2, <3>1, <4>1, <4>2 DEF Preferred, WholeUboot
        <4> QED
          BY <1>2, <2>1, <3>1, <4>2, <4>3 DEF ScanInv
      <3>3. CASE ~ok
        BY <2>4, <3>3 DEF Return, End, ScanInv, Running
      <3> QED
        BY <3>2, <3>3
    <2>5. CASE stage = "fip"
      <3>1. stage' \in {"boot_uboot", "return"} /\ buf'["uboot"] = buf["uboot"]
        BY <2>5 DEF Return, End, name
      <3>2. Preferred
        BY <1>7, <2>5 DEF ScanInv
      <3>3. Preferred'
        BY <1>2, <3>1, <3>2 DEF Preferred, WholeUboot
      <3> QED
        BY <3>1, <3>3 DEF ScanInv, Running
    <2> QED
      BY <1>1, <2>2, <2>3, <2>4, <2>5
  <1>9. CauseInv'
    <2> SUFFICES ASSUME ~failed', stage' = "return"
                 PROVE  \/ \A b \in Uboot1 \union Uboot2 : ~WholeUboot(b)'
                        \/ \A b \in Found(FipBlk, "fip") : ~WholeFip(b)'
      BY <1>2 DEF CauseInv
    <2>1. ~ok /\ stage # "uboot1_hdr" /\ RefusedHere /\ ~only_load_hdr
      BY <1>7 DEF Return, Load, End, only_load_hdr
    <2>2. CASE stage = "fip"
      BY <2>1, <2>2 DEF RefusedHere, CallInv, name, WholeFip
    <2>3. CASE stage = "uboot2"
      <3>1. ~(hdr1 > 0)
        BY <2>1, <2>3 DEF Return, Load, HaveUboot1
      <3>2. Uboot1 = {} /\ blk_start = Start2
        BY <1>7, <2>3, <3>1 DEF ScanInv, Running
      <3> QED
        BY <2>1, <2>3, <3>2 DEF RefusedHere, name, Uboot2, WholeUboot
    <2>4. CASE stage = "fallback"
      <3>1. \A b \in Uboot2 : ~WholeUboot(b)
        BY <1>7, <2>4 DEF ScanInv
      <3>2. \A b \in Uboot1 : ~WholeUboot(b)
        BY <2>1, <2>4 DEF RefusedHere, CallInv, name, Uboot1, WholeUboot
      <3> QED
        BY <3>1, <3>2 DEF WholeUboot
    <2> QED
      BY <1>1, <2>1, <2>2, <2>3, <2>4
  <1>10. SpareInv'
    <2> SUFFICES ASSUME OneFault'
                 PROVE  /\ stage' # "uboot1_hdr" /\ (0..i' - 1 = {} \/ stage' \notin {"uboot2", "fallback"})
                        /\ stage' = "uboot2" => hdr1' > 0 \/ (faults' = 1 /\ blk_start' = AppBlk + 1)
                        /\ stage' = "fallback" => faults' = 1
                        /\ stage' = "return" => blk_start' = FipBlk
      BY DEF SpareInv
    <2>1. OneFault /\ BothGood /\ chip.bad = {} /\ faults' \in {0, 1}
      BY <1>2 DEF OneFault, TypeOK
    <2>2. stage' # "uboot1_hdr" /\ (0..i' - 1 = {} \/ stage' \notin {"uboot2", "fallback"})
      BY <1>1 DEF Return, Load, End
    <2>3. CASE stage = "uboot1_hdr"
      BY <2>2, <2>3 DEF Return, Load, End, CallInv
    <2>4. CASE stage = "uboot2"
      <3>1. CASE ok
        BY <2>2, <2>4, <3>1 DEF Return, Load
      <3>2. CASE ~ok
        <4>1. stage' = "fallback"
          BY <2>4, <3>2 DEF Return, Load, HaveUboot1
        <4>2. ASSUME faults' = 0 PROVE FALSE
          <5>1. ~failed'
            BY <2>1, <4>2
          <5>2. RefusedHere /\ blk_start = Start2
            BY <1>7, <2>4, <3>2, <5>1 DEF ScanInv
          <5>3. \A b \in Uboot2 : ~WholeUboot(b)
            BY <2>4, <5>2 DEF RefusedHere, only_load_hdr, name, Uboot2, WholeUboot
          <5> QED
            BY <2>1, <5>3 DEF BothGood
        <4> QED
          BY <2>1, <2>2, <4>1, <4>2
      <3> QED
        BY <3>1, <3>2
    <2>5. CASE stage = "fallback"
      BY <2>2, <2>5 DEF Return, Load
    <2>6. CASE stage = "fip"
      BY <2>2, <2>6 DEF Return, End, CallInv
    <2> QED
      BY <1>1, <2>3, <2>4, <2>5, <2>6
  <1> QED
    BY <1>4, <1>5, <1>6, <1>8, <1>9, <1>10

(* With both copies in reach, the search that starts one block behind the start
   of the first one finds a whole u-boot. *)
LEMMA SecondWindow ==
    ASSUME chip \in Chips, BothGood
    PROVE  \E b \in Found(AppBlk + 1, "uboot") : WholeUboot(b)
  <1> USE ChipAssumption
  <1>1. PICK u \in Uboot1 : WholeUboot(u)
    BY DEF BothGood
  <1>2. PICK v \in Uboot2 : WholeUboot(v) /\ v <= AppBlk + SearchCnt
    BY DEF BothGood
  <1>3. AppBlk \in Nat /\ LastBlk \in Nat /\ Start2 \in Nat
        /\ u \in Found(AppBlk, "uboot") /\ v \in Found(Start2, "uboot")
    BY Start2Properties DEF Uboot1, Uboot2, Blk
  <1>4. /\ u \in AppBlk..AppBlk + SearchCnt - 1 /\ HeaderAt(u, "uboot")
        /\ \A c \in Window(AppBlk) : HeaderAt(c, "uboot") => u <= c
    BY <1>3, FoundProperties DEF Window
  <1>5. /\ v \in Start2..Start2 + SearchCnt - 1 /\ HeaderAt(v, "uboot")
        /\ \A c \in Window(Start2) : HeaderAt(c, "uboot") => v <= c
    BY <1>3, FoundProperties DEF Window
  <1>6. CASE u > AppBlk
    <2>1. u \in Window(AppBlk + 1)
      BY <1>3, <1>4, <1>6 DEF Window
    <2>2. ASSUME NEW c \in Window(AppBlk + 1), HeaderAt(c, "uboot") PROVE u <= c
      <3>1. c \in Window(AppBlk) \/ c = AppBlk + SearchCnt
        BY <1>3 DEF Window
      <3> QED
        BY <1>3, <1>4, <2>2, <3>1
    <2>3. u \in Found(AppBlk + 1, "uboot")
      BY <1>4, <2>1, <2>2 DEF Found, First
    <2> QED
      BY <1>1, <2>3
  <1>7. CASE u = AppBlk
    <2>1. Start2 = u + Up(HdrSize + chip.img[u].size) /\ Start2 > AppBlk
      BY <1>7, Start2Properties DEF BehindUboot1
    <2>2. v \in Window(AppBlk + 1)
      BY <1>2, <1>3, <1>5, <2>1 DEF Window
    <2>3. ASSUME NEW c \in Window(AppBlk + 1), HeaderAt(c, "uboot") PROVE v <= c
      <3>1. c \in Blk /\ c \in Nat /\ c > u /\ chip.img[c].magic
        BY <1>3, <1>7, <2>3 DEF Window, Blk, HeaderAt, HeaderOk, image_check_magic
      <3>2. u \in Blk /\ Whole(chip.img[u], "uboot", ChipLimit)
        BY <1>1 DEF WholeUboot
      <3>3. ~(c < Start2)
        BY <2>1, <3>1, <3>2, DataAssumption
      <3>4. c \in Window(Start2) \/ c > Start2 + SearchCnt - 1
        BY <1>3, <3>1, <3>3 DEF Window
      <3> QED
        BY <1>3, <1>5, <2>3, <3>1, <3>4
    <2>4. v \in Found(AppBlk + 1, "uboot")
      BY <1>5, <2>2, <2>3 DEF Found, First
    <2> QED
      BY <1>2, <2>4
  <1> QED
    BY <1>3, <1>4, <1>6, <1>7

(* The search goes on behind a block without a header, or behind one whose
   header could not be read. *)
LEMMA NextBlockStep ==
    ASSUME IInv, Running, step = "find", NextBlock, chip' = chip,
           faults' \in 0..MaxFaults, faults' >= faults,
           failed' \in BOOLEAN, failed => failed',
           chip.bad = {} => (failed' <=> faults' > 0),
           buf' \in [{"uboot", "fip"} -> Buffer],
           \A n \in {"uboot", "fip"} : n # name => buf'[n] = buf[n],
           ~failed' => ~HeaderAt(blk_start + i, name),
           OneFault' =>
               /\ stage = "uboot1_hdr" /\ HeaderAt(AppBlk + i, "uboot") =>
                      AppBlk + i \in Uboot1
               /\ stage = "uboot2" => hdr1 > 0 \/ ~HeaderAt(blk_start + i, "uboot")
               /\ stage = "fallback" => ~HeaderAt(blk_start + i, "uboot")
    PROVE  IInv'
  <1>1. /\ TypeOK /\ CallInv /\ LoadedInv /\ ScanInv /\ CauseInv /\ SpareInv
        /\ chip \in Chips /\ chip \in Chip /\ blk_start \in Nat /\ i \in 0..SearchCnt - 1
        /\ AppBlk \in Nat /\ SearchCnt \in Nat \ {0}
        /\ stage \in {"uboot1_hdr", "uboot2", "fallback", "fip"}
    BY ChipAssumption DEF IInv, TypeOK, CallInv, Blk, Running
  <1>2. /\ Uboot1' = Uboot1 /\ Uboot2' = Uboot2 /\ Start2' = Start2
        /\ Found(FipBlk, "fip")' = Found(FipBlk, "fip")
        /\ BothGood' <=> BothGood
    BY ChipConstant
  <1>3. ~failed' => \A k \in 0..i : ~HeaderAt(blk_start + k, name)
    BY <1>1 DEF ScanInv
  <1>4. OneFault' =>
            /\ OneFault /\ BothGood /\ faults' \in {0, 1}
            /\ stage = "uboot1_hdr" => \A k \in 0..i :
                   HeaderAt(AppBlk + k, "uboot") => AppBlk + k \in Uboot1
            /\ stage = "uboot2" =>
                   \/ hdr1 > 0
                   \/ /\ faults = 1 /\ blk_start = AppBlk + 1
                      /\ \A k \in 0..i : ~HeaderAt(blk_start + k, "uboot")
            /\ stage = "fallback" =>
                   faults = 1 /\ \A k \in 0..i : ~HeaderAt(blk_start + k, "uboot")
    BY <1>1, <1>2 DEF OneFault, TypeOK, SpareInv
  <1>5. CASE MoreBlocks(i) /\ i' = i + 1 /\ got' = 0
             /\ UNCHANGED <<stage, step, blk_start, read_length, hdr1>>
    <2>1. i' \in 0..SearchCnt - 1 /\ 0..i' - 1 = 0..i /\ stage' = stage
          /\ name' = name /\ blk_start' = blk_start /\ hdr1' = hdr1 /\ (Running' <=> Running)
      BY <1>1, <1>5 DEF MoreBlocks, name, Running
    <2>2. TypeOK'
      <3>1. blk_start + (i + 1) \in Blk /\ 0 % SectSz = 0
        BY <1>1, <1>5, ChipAssumption DEF CallInv, MoreBlocks, Blk
      <3> QED
        BY <1>1, <1>5, <2>1, <3>1 DEF TypeOK
    <2>3. CallInv'
      BY <1>1, <1>5, <2>1 DEF CallInv
    <2>4. LoadedInv'
      BY <1>1, <1>5, <2>1 DEF LoadedInv, Loaded, name, Running
    <2>5. ScanInv'
      <3>1. stage \in {"fip", "boot_uboot"} => buf'["uboot"] = buf["uboot"]
        BY DEF name, Running
      <3> QED
        BY <1>1, <1>2, <1>3, <1>5, <2>1, <3>1 DEF ScanInv, HeaderAt, WholeUboot, Preferred
    <2>6. CauseInv' /\ SpareInv'
      BY <1>1, <1>2, <1>4, <1>5, <2>1 DEF CauseInv, SpareInv, Running, HeaderAt
    <2> QED
      BY <2>2, <2>3, <2>4, <2>5, <2>6 DEF IInv
  <1>6. CASE ~MoreBlocks(i) /\ Return(FALSE)
    <2>1. i = SearchCnt - 1
      BY <1>1, <1>6 DEF MoreBlocks
    <2>2. ~failed' => Found(blk_start, name) = {}
      BY <1>1, <1>3, <2>1, NoneIsFound
    <2>3. ~failed' => RefusedHere
      BY <2>2 DEF RefusedHere
    <2>4. ASSUME OneFault', stage = "uboot1_hdr" PROVE faults' = 1
      <3>1. failed' \/ Uboot1 = {}
        BY <1>1, <2>2, <2>4 DEF Uboot1, CallInv, name
      <3> QED
        BY <1>4, <2>4, <3>1 DEF OneFault, BothGood
    <2>5. ASSUME OneFault', stage = "uboot2" PROVE hdr1 > 0
      <3>1. SUFFICES ASSUME ~(hdr1 > 0) PROVE FALSE
        OBVIOUS
      <3>2. Found(AppBlk + 1, "uboot") = {}
        BY <1>1, <1>4, <2>1, <2>5, <3>1, NoneIsFound
      <3> QED
        BY <1>1, <1>4, <2>5, <3>2, SecondWindow
    <2>6. ASSUME OneFault', stage = "fallback" PROVE FALSE
      <3>1. Found(AppBlk, "uboot") = {}
        BY <1>1, <1>4, <2>1, <2>6, NoneIsFound DEF CallInv
      <3> QED
        BY <1>4, <2>6, <3>1 DEF BothGood, Uboot1
    <2> QED
      BY <1>6, <2>3, <2>4, <2>5, <2>6, ReturnStep
  <1> QED
    BY <1>5, <1>6 DEF NextBlock

(* A page that is read is part of the image that starts at the block. *)
LEMMA ReadPageStep == IInv /\ ReadPage => IInv'
  <1> SUFFICES ASSUME IInv, ReadPage PROVE IInv'
    OBVIOUS
  <1> DEFINE all == got + SectSz
  <1>1. /\ TypeOK /\ CallInv /\ LoadedInv /\ ScanInv /\ CauseInv /\ SpareInv
        /\ chip \in Chips /\ chip \in Chip /\ blk_start \in Nat /\ i \in 0..SearchCnt - 1
        /\ blk_start + i \in Blk /\ got \in Nat /\ got % SectSz = 0
        /\ AppBlk \in Nat /\ SearchCnt \in Nat \ {0} /\ SectSz \in Nat \ {0}
        /\ stage \in {"uboot1_hdr", "uboot2", "fallback", "fip"}
        /\ step \in {"find", "load"} /\ name \in {"uboot", "fip"}
        /\ found \in Image /\ found.size \in Nat /\ found.body \in BOOLEAN
    BY ChipAssumption
       DEF IInv, TypeOK, CallInv, Blk, Running, ReadPage, name, found, Chip, Image
  <1>2. /\ Running /\ chip' = chip /\ faults' = faults /\ failed' = failed
        /\ faults' \in 0..MaxFaults /\ faults' >= faults
        /\ chip.bad = {} => (failed' <=> faults' > 0)
        /\ buf' = [buf EXCEPT ![name] = [src |-> blk_start + i, upto |-> all]]
    BY <1>1 DEF ReadPage, TypeOK, SpareInv, GotWith
  <1>3. failed' \in BOOLEAN /\ (failed => failed')
    BY <1>1, <1>2 DEF TypeOK
  <1>4. /\ buf' \in [{"uboot", "fip"} -> Buffer]
        /\ \A n \in {"uboot", "fip"} : n # name => buf'[n] = buf[n]
        /\ buf'[name] = [src |-> blk_start + i, upto |-> all]
    BY <1>1, <1>2 DEF TypeOK, Buffer
  <1>5. OneFault' => OneFault /\ BothGood /\ faults' \in {0, 1}
    <2>1. BothGood' <=> BothGood
      BY <1>2, ChipConstant
    <2> QED
      BY <1>1, <1>2, <2>1 DEF OneFault, TypeOK
  <1>6. blk_start \in Int /\ i \in 0..SearchCnt - 1
    BY <1>1
  <1>7. ~failed /\ HeaderOk(found, name) => Found(blk_start, name) = {blk_start + i}
    <2>1. ~failed => \A k \in 0..i - 1 : ~HeaderAt(blk_start + k, name)
      BY <1>1, <1>2 DEF ScanInv
    <2>2. HeaderOk(found, name) => HeaderAt(blk_start + i, name)
      BY DEF HeaderAt, found
    <2> QED
      BY <1>6, <2>1, <2>2, FirstIsFound
  <1>8. CASE all < read_length /\ got' = all
             /\ UNCHANGED <<stage, step, blk_start, i, read_length, hdr1>>
    <2>1. step = "load" /\ stage # "uboot1_hdr"
      BY <1>1, <1>2, <1>8 DEF CallInv, HdrSize, only_load_hdr
    <2>2. name' = name /\ (only_load_hdr' <=> only_load_hdr) /\ found' = found
          /\ (Running' <=> Running)
      BY <1>2, <1>8 DEF name, only_load_hdr, found, Running
    <2>3. TypeOK'
      <3>1. got \in Nat /\ SectSz \in Nat \ {0} /\ got % SectSz = 0
        BY <1>1
      <3>2. all \in Nat
        BY <3>1
      <3>3. all % SectSz = 0
        BY ONLY <3>1, PagesAdd
      <3> QED
        BY <1>1, <1>2, <1>3, <1>4, <1>8, <3>2, <3>3 DEF TypeOK
    <2>4. CallInv'
      BY <1>1, <1>2, <1>8, <2>1, <2>2 DEF CallInv
    <2>5. LoadedInv'
      BY <1>1, <1>2, <1>4, <1>8 DEF LoadedInv, Loaded, name, Running
    <2>6. /\ Uboot1' = Uboot1 /\ Uboot2' = Uboot2 /\ Start2' = Start2
          /\ Found(FipBlk, "fip")' = Found(FipBlk, "fip")
          /\ BothGood' <=> BothGood
      BY <1>2, ChipConstant
    <2>7. ScanInv'
      <3>1. stage \in {"fip", "boot_uboot"} => buf'["uboot"] = buf["uboot"]
        BY <1>2, <1>4 DEF name, Running
      <3> QED
        BY <1>1, <1>2, <1>8, <2>2, <2>6, <3>1 DEF ScanInv, HeaderAt, WholeUboot, Preferred
    <2>8. CauseInv' /\ SpareInv'
      BY <1>1, <1>2, <1>8, <2>6 DEF CauseInv, SpareInv, OneFault, Running, HeaderAt
    <2> QED
      BY <2>3, <2>4, <2>5, <2>7, <2>8 DEF IInv
  <1>9. CASE step = "find" /\ HeaderOk(found, name) /\ HeaderFound
    <2>1. CASE only_load_hdr /\ Return(found.size > 0)
      <3> DEFINE ok == found.size > 0
      <3>1. ok \in BOOLEAN
        BY <1>1
      <3>2. ~ok /\ ~failed' => RefusedHere
        BY <1>1, <1>2, <1>7, <1>9, <2>1 DEF RefusedHere, found
      <3>3. ASSUME OneFault', stage = "uboot1_hdr", ~ok PROVE faults' = 1
        <4>1. failed \/ Uboot1 = {}
          BY <1>1, <1>7, <1>9, <3>3 DEF Uboot1, CallInv, name, found
        <4> QED
          BY <1>2, <1>5, <3>3, <4>1 DEF OneFault, BothGood
      <3>4. stage = "uboot1_hdr"
        BY <2>1 DEF only_load_hdr
      <3> QED
        BY <1>2, <1>3, <1>4, <1>9, <2>1, <3>1, <3>2, <3>3, <3>4, ReturnStep
    <2>2. CASE /\ ~only_load_hdr
               /\ step' = "load" /\ got' = 0 /\ read_length' = LoadLength(found.size)
               /\ UNCHANGED <<stage, blk_start, i, hdr1>>
      <3>1. name' = name /\ (only_load_hdr' <=> only_load_hdr) /\ found' = found
            /\ (Running' <=> Running)
        BY <1>2, <2>2 DEF name, only_load_hdr, found, Running
      <3>2. TypeOK'
        <4>1. LoadLength(found.size) \in Nat /\ 0 % SectSz = 0
          BY <1>1, ChipAssumption DEF LoadLength, HdrSize
        <4> QED
          BY <1>1, <1>2, <1>3, <1>4, <2>2, <4>1 DEF TypeOK
      <3>3. CallInv'
        BY <1>1, <1>2, <1>9, <2>2, <3>1 DEF CallInv
      <3>4. LoadedInv'
        BY <1>1, <1>2, <1>4, <2>2 DEF LoadedInv, Loaded, name, Running
      <3>5. /\ Uboot1' = Uboot1 /\ Uboot2' = Uboot2 /\ Start2' = Start2
            /\ Found(FipBlk, "fip")' = Found(FipBlk, "fip")
            /\ BothGood' <=> BothGood
        BY <1>2, ChipConstant
      <3>6. ScanInv'
        <4>1. stage \in {"fip", "boot_uboot"} => buf'["uboot"] = buf["uboot"]
          BY <1>2, <1>4 DEF name, Running
        <4> QED
          BY <1>1, <1>2, <2>2, <3>1, <3>5, <4>1 DEF ScanInv, HeaderAt, WholeUboot, Preferred
      <3>7. CauseInv' /\ SpareInv'
        BY <1>1, <1>2, <2>2, <3>5 DEF CauseInv, SpareInv, OneFault, Running, HeaderAt
      <3> QED
        BY <3>2, <3>3, <3>4, <3>6, <3>7 DEF IInv
    <2> QED
      BY <1>9, <2>1, <2>2 DEF HeaderFound
  <1>10. CASE step = "find" /\ ~HeaderOk(found, name) /\ NextBlock
    <2>1. ~HeaderAt(blk_start + i, name)
      BY <1>10 DEF HeaderAt, found
    <2>2. stage \in {"uboot1_hdr", "uboot2", "fallback"} => name = "uboot"
      BY DEF name
    <2>3. stage = "uboot1_hdr" => blk_start = AppBlk
      BY <1>1 DEF CallInv
    <2> QED
      BY <1>2, <1>3, <1>4, <1>10, <2>1, <2>2, <2>3, NextBlockStep
  <1>11. CASE all >= read_length /\ step = "load" /\ Return(image_check_dcrc(found, all))
    <2> DEFINE ok == image_check_dcrc(found, all)
    <2>1. /\ ~only_load_hdr /\ HeaderOk(found, name)
          /\ all >= LoadLength(found.size) /\ found.magic
      BY <1>1, <1>2, <1>11 DEF CallInv, HeaderOk, image_check_magic
    <2>2. ok \in BOOLEAN /\ (ok <=> found.body)
      BY <1>1, <2>1, ChipAssumption DEF image_check_dcrc, LoadLength, HdrSize
    <2>3. ok => found.size > 0 /\ Whole(found, name, ChipLimit)
      <3>1. ok => found.size # 0
        BY <1>1, <2>1, <2>2, NoEmptyAssumption DEF found
      <3>2. HdrSize + found.size < ChipLimit
        BY <1>1, <2>1, FitsChip DEF found
      <3> QED
        BY <1>1, <2>1, <2>2, <3>1, <3>2 DEF Whole
    <2>4. ~ok => ~Whole(found, name, ChipLimit)
      BY <2>2 DEF Whole
    <2>5. ~ok /\ ~failed' => RefusedHere
      BY <1>2, <1>7, <2>1, <2>4 DEF RefusedHere, found
    <2>6. ASSUME OneFault', stage = "uboot2", ~ok PROVE hdr1 > 0
      <3>1. SUFFICES ASSUME ~(hdr1 > 0) PROVE FALSE
        OBVIOUS
      <3>2. blk_start = AppBlk + 1 /\ name = "uboot"
            /\ \A k \in 0..i - 1 : ~HeaderAt(blk_start + k, "uboot")
        BY <1>1, <1>5, <2>6, <3>1 DEF SpareInv, name
      <3>3. HeaderAt(blk_start + i, "uboot")
        BY <2>1, <3>2 DEF HeaderAt, found
      <3>4. Found(AppBlk + 1, "uboot") = {blk_start + i}
        BY <1>6, <3>2, <3>3, FirstIsFound
      <3> QED
        BY <1>1, <1>5, <2>4, <2>6, <3>2, <3>4, SecondWindow DEF WholeUboot, found
    <2>7. ASSUME OneFault', stage = "fallback", ~ok PROVE FALSE
      <3>1. blk_start = AppBlk /\ name = "uboot"
            /\ \A k \in 0..i - 1 : ~HeaderAt(blk_start + k, "uboot")
        BY <1>1, <1>5, <2>7 DEF SpareInv, CallInv, name
      <3>2. HeaderAt(blk_start + i, "uboot")
        BY <2>1, <3>1 DEF HeaderAt, found
      <3>3. Found(AppBlk, "uboot") = {blk_start + i}
        BY <1>6, <3>1, <3>2, FirstIsFound
      <3> QED
        BY <1>5, <2>4, <2>7, <3>1, <3>3 DEF BothGood, Uboot1, WholeUboot, found
    <2>8. stage # "uboot1_hdr"
      BY <2>1 DEF only_load_hdr
    <2> HIDE DEF ok
    <2> QED
      BY <1>2, <1>3, <1>4, <1>11, <2>1, <2>2, <2>3, <2>5, <2>6, <2>7, <2>8, ReturnStep DEF ok
  <1> QED
    BY <1>8, <1>9, <1>10, <1>11 DEF ReadPage, GotWith

(* A page that cannot be read ends the load, or only the look at the block. *)
LEMMA ReadPageFailsStep == IInv /\ ReadPageFails => IInv'
  <1> SUFFICES ASSUME IInv, ReadPageFails PROVE IInv'
    OBVIOUS
  <1>1. /\ TypeOK /\ CallInv /\ LoadedInv /\ ScanInv /\ CauseInv /\ SpareInv
        /\ chip \in Chips /\ blk_start \in Nat /\ i \in 0..SearchCnt - 1
        /\ AppBlk \in Nat /\ MaxFaults \in Nat /\ faults \in 0..MaxFaults
        /\ stage \in {"uboot1_hdr", "uboot2", "fallback", "fip"}
        /\ name \in {"uboot", "fip"}
    BY ChipAssumption
       DEF IInv, TypeOK, CallInv, Blk, Running, ReadPageFails, name
  <1>2. /\ Running /\ chip' = chip /\ failed' = TRUE
        /\ faults' \in 0..MaxFaults /\ faults' >= faults
        /\ chip.bad = {} => faults' = faults + 1
    BY <1>1 DEF ReadPageFails
  <1>3. failed' \in BOOLEAN /\ (failed => failed') /\ (chip.bad = {} => (failed' <=> faults' > 0))
    BY <1>1, <1>2
  <1>4. /\ buf' \in [{"uboot", "fip"} -> Buffer]
        /\ \A n \in {"uboot", "fip"} : n # name => buf'[n] = buf[n]
    <2>1. buf \in [{"uboot", "fip"} -> Buffer] /\ Empty \in Buffer
      BY <1>1 DEF TypeOK, Empty, Buffer
    <2>2. buf' = buf \/ buf' = [buf EXCEPT ![name] = Empty]
      BY DEF ReadPageFails
    <2> QED
      BY <1>1, <2>1, <2>2
  <1>5. OneFault' => BothGood /\ ~failed /\ faults = 0 /\ faults' = 1
    <2>1. BothGood' <=> BothGood
      BY <1>2, ChipConstant
    <2> QED
      BY <1>1, <1>2, <2>1 DEF OneFault, SpareInv
  <1>6. OneFault' =>
            /\ stage # "fallback"
            /\ stage = "uboot2" => hdr1 > 0
    BY <1>1, <1>2, <1>5 DEF SpareInv, OneFault
  <1>7. CASE step = "find" /\ NextBlock
    <2>1. ASSUME OneFault', stage = "uboot1_hdr", HeaderAt(AppBlk + i, "uboot")
          PROVE  AppBlk + i \in Uboot1
      <3>1. \A k \in 0..i - 1 : ~HeaderAt(AppBlk + k, "uboot")
        BY <1>1, <1>2, <1>5, <2>1 DEF ScanInv, CallInv, name
      <3>2. Found(AppBlk, "uboot") = {AppBlk + i}
        BY <1>1, <2>1, <3>1, FirstIsFound
      <3> QED
        BY <1>5, <2>1, <3>2 DEF BothGood, Uboot1
    <2> QED
      BY <1>2, <1>3, <1>4, <1>6, <1>7, <2>1, NextBlockStep
  <1>8. CASE step = "load" /\ Return(FALSE)
    <2>1. stage # "uboot1_hdr"
      BY <1>1, <1>2, <1>8 DEF CallInv, only_load_hdr
    <2> QED
      BY <1>2, <1>3, <1>4, <1>6, <1>8, <2>1, ReturnStep
  <1> QED
    BY <1>7, <1>8 DEF ReadPageFails

-----------------------------------------------------------------------------
(* The invariant holds in every reachable state. *)
THEOREM Invariance == Spec => []IInv
  <1>1. IInv /\ [Next]_vars => IInv'
    <2> SUFFICES ASSUME IInv, [Next]_vars PROVE IInv'
      OBVIOUS
    <2>1. CASE UNCHANGED vars
      <3>1. /\ Uboot1' = Uboot1 /\ Uboot2' = Uboot2 /\ Start2' = Start2
            /\ Found(FipBlk, "fip")' = Found(FipBlk, "fip")
            /\ BothGood' <=> BothGood
        BY <2>1, ChipConstant DEF vars
      <3>2. TypeOK' /\ CallInv' /\ LoadedInv'
        BY <2>1 DEF vars, IInv, TypeOK, CallInv, LoadedInv, Loaded, Running, found, name,
                    only_load_hdr
      <3>3. ScanInv' /\ CauseInv' /\ SpareInv'
        BY <2>1, <3>1 DEF vars, IInv, ScanInv, CauseInv, SpareInv, OneFault, Preferred,
                          Running, name, HeaderAt, WholeUboot, WholeFip
      <3> QED
        BY <3>2, <3>3 DEF IInv
    <2>2. CASE Terminated
      BY <2>1, <2>2 DEF Terminated
    <2> QED
      BY <2>1, <2>2, ReadPageStep, ReadPageFailsStep DEF Next
  <1> QED
    BY NandInit, <1>1, PTL DEF Spec

(* Every variable keeps its type: no search leaves the chip, and a page is
   always read to the end of the pages before it. *)
THEOREM TypeCorrect == Spec => []TypeOK
  BY Invariance, PTL DEF IInv

(* Whatever was loaded over it before and whichever pages failed, a buffer that
   is handed to boot_uboot holds header, data and signature of one image. *)
THEOREM SignatureIsLoaded == Spec => []SignatureLoaded
  <1>1. IInv => SignatureLoaded
    BY DEF IInv, LoadedInv, Loaded, SignatureLoaded, LoadLength, Blk, None
  <1> QED
    BY <1>1, Invariance, PTL

(* Where the second search begins at or before the end of uboot1, and no header
   lies between, it finds the update of uboot1. *)
LEMMA UpdateIsFound ==
    ASSUME chip \in Chips, NEW u \in Uboot1,
           u = AppBlk \/ (WholeUboot(u) /\ u < AppBlk + Blocks(u))
    PROVE  Uboot1 = {u} /\ Uboot2 = Update(u)
  <1> DEFINE S == {b \in Window(Start2) : HeaderAt(b, "uboot")}
             T == {v \in u + Blocks(u)..AppBlk + Blocks(u) + SearchCnt - 1 :
                       HeaderAt(v, "uboot")}
  <1>1. /\ u \in Found(AppBlk, "uboot") /\ AppBlk \in Nat /\ LastBlk \in Nat
        /\ SearchCnt \in Nat /\ Start2 \in Nat /\ Start2 > AppBlk
        /\ Start2 + SearchCnt - 1 <= LastBlk
        /\ Start2 = AppBlk + Blocks(u)
    BY Start2Properties, ChipAssumption DEF Uboot1, Blocks, BehindUboot1, Blk
  <1>2. u \in Nat /\ u >= AppBlk /\ HeaderAt(u, "uboot")
        /\ \A c \in Found(AppBlk, "uboot") : c = u
    BY <1>1, FoundProperties, ChipAssumption DEF Window, Blk
  <1>3. Uboot1 = {u}
    BY <1>2 DEF Uboot1
  <1>4. Blocks(u) \in Int
    <2>1. u \in Blk
      BY <1>1, FoundProperties, WindowsOnChip
    <2>2. HdrSize + chip.img[u].size \in Nat \ {0}
      BY <2>1, WindowsOnChip DEF Chip, Image, HdrSize
    <2> QED
      BY <2>2, UpPositive DEF Blocks
  <1>5. ASSUME NEW d \in S PROVE d >= u + Blocks(u)
    <2>1. d \in Nat /\ d >= Start2 /\ d \in Blk /\ chip.img[d].magic
      <3>1. d \in Start2..Start2 + SearchCnt - 1 /\ HeaderOk(chip.img[d], "uboot")
        BY DEF Window, HeaderAt
      <3>2. d \in Nat /\ d >= Start2 /\ d \in Blk
        BY <1>1, <3>1 DEF Blk
      <3> QED
        BY <3>1, <3>2 DEF HeaderOk, image_check_magic
    <2>2. CASE u = AppBlk
      BY <1>1, <2>1, <2>2
    <2>3. CASE WholeUboot(u) /\ u < AppBlk + Blocks(u)
      <3>1. u \in Blk /\ Whole(chip.img[u], "uboot", ChipLimit) /\ u < d
        BY <1>1, <1>2, <1>4, <2>1, <2>3 DEF WholeUboot
      <3>2. ~(d < u + Up(HdrSize + chip.img[u].size))
        BY <2>1, <3>1, DataAssumption
      <3> QED
        BY <1>2, <1>4, <2>1, <3>2 DEF Blocks
    <2> QED
      BY <2>2, <2>3
  <1>6. S = T
    <2>1. ASSUME NEW d \in S PROVE d \in T
      BY <1>1, <1>2, <1>4, <1>5, <2>1 DEF Window
    <2>2. ASSUME NEW d \in T PROVE d \in S
      BY <1>1, <1>2, <1>4 DEF Window
    <2> QED
      BY <2>1, <2>2
  <1>7. Uboot2 = First(S) /\ Update(u) = First(T)
    BY DEF Uboot2, Found, Update
  <1> QED
    BY <1>3, <1>6, <1>7

(* When every page reads well the update, the first image from where uboot1
   ends, runs if it is whole, and uboot1 if it is not: on every chip on which
   uboot1 is at app_blk_start, or is whole and begins less than its own length
   behind it. *)
THEOREM UpdateIsPreferred == Spec => []UpdatePreferred
  <1>1. ASSUME IInv, stage = "boot_uboot", ~failed, NEW u \in Uboot1,
               u = AppBlk \/ (WholeUboot(u) /\ u < AppBlk + Blocks(u))
        PROVE  buf["uboot"].src \in IF \E v \in Update(u) : WholeUboot(v)
                                    THEN Update(u) ELSE {u}
    <2>1. Uboot1 = {u} /\ Uboot2 = Update(u)
      BY <1>1, UpdateIsFound DEF IInv, CallInv
    <2>2. Preferred
      BY <1>1 DEF IInv, ScanInv
    <2> QED
      BY <2>1, <2>2 DEF Preferred
  <1>2. IInv => UpdatePreferred
    BY <1>1 DEF UpdatePreferred
  <1> QED
    BY <1>2, Invariance, PTL

(* With both copies in place and no bad page, one failing read before fip is
   looked for does not stop the boot. *)
THEOREM OneCopyIsEnough == Spec => []OneCopyIsSpare
  <1>1. IInv => OneCopyIsSpare
    <2> SUFFICES ASSUME IInv, stage = "return", chip.bad = {}, faults <= 1
                 PROVE  OneCopyIsSpare
      BY DEF OneCopyIsSpare
    <2>1. BothGood => blk_start = FipBlk
      BY DEF IInv, SpareInv, OneFault
    <2>2. Uboot2 \subseteq Int /\ AppBlk \in Int /\ SearchCnt \in Int
      BY PlacesOnChip, ChipAssumption DEF IInv, CallInv, Blk
    <2> QED
      BY <2>1, <2>2 DEF BothGood, OneCopyIsSpare
  <1> QED
    BY <1>1, Invariance, PTL

-----------------------------------------------------------------------------
(* Every step of nand_uboot is a step of the promise, or none. *)

(* the promise's notion of a whole image is that of the loader *)
LEMMA SameImages ==
    ASSUME NEW places
    PROVE  /\ \A b \in Blk : b \in Promise!WholeUboots(places) <=> b \in places /\ WholeUboot(b)
           /\ \A b \in Blk : b \in Promise!WholeFips(places) <=> b \in places /\ WholeFip(b)
           /\ Promise!WholeUboots(places) \subseteq places
           /\ Promise!WholeFips(places) \subseteq places
  BY DEF Promise!WholeUboots, Promise!WholeFips, Promise!Whole, Promise!HeaderOk,
     Promise!HdrSize, Promise!image_check_magic, Promise!image_check_hcrc, WholeUboot,
     WholeFip, Whole, HeaderOk, HdrSize, image_check_magic, image_check_hcrc

(* what the steps have in common, as far as the promise sees it *)
LEMMA PromiseSees ==
    ASSUME IInv, Next, Running
    PROVE  /\ chip' = chip
           /\ failed' = failed \/ (failed' = TRUE /\ stage' # "boot_uboot")
           /\ Uboot1' = Uboot1 /\ Uboot2' = Uboot2
           /\ Found(FipBlk, "fip")' = Found(FipBlk, "fip")
  <1>1. chip' = chip
    BY DEF Next, ReadPage, ReadPageFails, Terminated
  <1>2. failed' = failed \/ (failed' = TRUE /\ stage' # "boot_uboot")
    BY DEF Next, ReadPage, ReadPageFails, Terminated, NextBlock, Return, Load, End, Running
  <1> QED
    BY <1>1, <1>2, ChipConstant

LEMMA PromiseStep == IInv /\ IInv' /\ Next => [Promise!Next]_(Promise!vars)
  <1> SUFFICES ASSUME IInv, IInv', Next
               PROVE  Promise!Next \/ UNCHANGED Promise!vars
    OBVIOUS
  <1>1. chip \in Chips
    BY DEF IInv, CallInv
  <1>2. CASE ~Running
    <2>1. UNCHANGED vars
      BY <1>2 DEF Next, ReadPage, ReadPageFails, Terminated
    <2> QED
      BY <2>1, ChipConstant DEF vars, Promise!vars
  <1>3. CASE Running /\ stage' \notin {"return", "boot_uboot"}
    <2>1. CASE failed' = failed
      BY <1>3, <2>1, PromiseSees DEF Running, Promise!vars
    <2>2. CASE failed' = TRUE
      BY <1>3, <2>2, PromiseSees DEF Running, Promise!Next, Promise!Fault
    <2> QED
      BY <1>3, <2>1, <2>2, PromiseSees
  <1>4. CASE Running /\ stage' = "return"
    <2>1. CASE failed'
      BY <1>4, <2>1, PromiseSees DEF Running, Promise!Next, Promise!Fault
    <2>2. CASE ~failed'
      <3>1. \/ \A b \in Uboot1 \union Uboot2 : ~WholeUboot(b)
            \/ \A b \in Found(FipBlk, "fip") : ~WholeFip(b)
        BY <1>4, <2>2, PromiseSees DEF IInv, CauseInv, WholeUboot, WholeFip
      <3>2. \/ Promise!WholeUboots(Uboot1 \union Uboot2) = {}
            \/ Promise!WholeFips(Found(FipBlk, "fip")) = {}
        BY <1>1, <3>1, SameImages, PlacesOnChip
      <3> QED
        BY <1>4, <2>2, <3>2, PromiseSees DEF Running, Promise!Next, Promise!Refuse,
           Promise!WholeUboots, Promise!WholeFips
    <2> QED
      BY <2>1, <2>2
  <1>5. CASE Running /\ stage' = "boot_uboot"
    <2> DEFINE u == buf'["uboot"].src
               f == buf'["fip"].src
    <2>1. chip' = chip
      BY <1>5, PromiseSees
    <2>2. /\ u \in Blk /\ WholeUboot(u) /\ u >= AppBlk
          /\ f \in Window(FipBlk) /\ f \in Blk /\ WholeFip(f)
      BY <1>5, <2>1 DEF IInv, LoadedInv, Loaded, WholeUboot, WholeFip
    <2>3. u \in AppBlk..LastBlk
      BY <2>2, ChipAssumption DEF Blk
    <2>4. u \in Promise!WholeUboots(AppBlk..LastBlk) /\ f \in Promise!WholeFips(Window(FipBlk))
      BY <2>2, <2>3, SameImages
    <2> HIDE DEF u, f
    <2> QED
      BY <1>5, <2>4, PromiseSees DEF Running, Promise!Next, Promise!HandOver, u, f
  <1> QED
    BY <1>2, <1>3, <1>4, <1>5

(* nand_uboot implements the promise of a loader: it hands over whole images
   from the blocks that are searched, or refuses for a reason. *)
THEOREM ImplementsPromise == Spec => KeepsPromise
  <1>1. Init => Promise!Init
    <2> SUFFICES ASSUME Init PROVE Promise!Init
      OBVIOUS
    <2>1. chip \in Chips /\ chip \in Chip
      BY ChipAssumption DEF Init
    <2>2. chip.img \in [Blk -> Promise!Image]
      BY <2>1 DEF Chip, Image, Promise!Image, ImageName, Promise!ImageName
    <2> QED
      BY <2>1, <2>2, PlacesOnChip DEF Init, Promise!Init, Promise!Nothing
  <1>2. IInv /\ IInv' /\ [Next]_vars => [Promise!Next]_(Promise!vars)
    <2>1. UNCHANGED vars => UNCHANGED Promise!vars
      BY ChipConstant DEF vars, Promise!vars
    <2> QED
      BY <2>1, PromiseStep
  <1> QED
    BY <1>1, <1>2, Invariance, PTL DEF Spec, KeepsPromise, Promise!Spec

(***************************************************************************)
(* The page reads below nand_uboot: InitDevice() and bblk_read() with      *)
(* either driver.  Nothing stops a transfer or a command that was given    *)
(* up, so the invariant says what may still be under way at each step.     *)
(***************************************************************************)

(* What bblk_read has so far *)
SpiReading == {"data", "data_go", "data_wait", "parity", "parity_go", "parity_wait", "bch"}
Raw == {"fire_raw", "check_raw", "abort_raw", "data_raw"}
ParaReading == {"fire", "check", "abort", "data"} \union Raw
Reading == SpiReading \union ParaReading
PagesRead == \A s \in 0..j - 1 :
    mem[s] = Data(asked.first + s) /\ page[asked.first + s] # "bad"
PageCallInv ==
    /\ pc \in Reading => j < asked.len /\ result = "none" /\ gInitNand_flag = 1
    /\ pc \notin Reading \union {"idle"} => asked.len = 0

(* The SPI driver: a wait that has succeeded was ended by a transfer since the
   registers were written, so that only the transfer started behind it may
   still run; and one of the two that are decoded has come from this page. *)
DataGo == [slot |-> j, got |-> Data(ThePage)]
ParityGot == IF b0 = "continuous" THEN Data(ThePage) ELSE Stored("parity", ThePage)
ParityGo == [slot |-> j + 1, got |-> ParityGot]
OneHere == mem[j] = Data(ThePage) \/ mem[j + 1] = ParityGot
SpiPlaces == pc \in SpiReading \/ (pc = "idle" /\ result = "good") =>
                 PagesRead /\ \A t \in dma : t.slot >= j
SpiInv ==
    /\ SpiPlaces
    /\ pc = "data_go" /\ done => dma = {}
    /\ pc = "data_wait" /\ done => dma \subseteq {DataGo}
    /\ pc \in {"parity", "parity_go"} /\ ret = 0 => dma \subseteq {DataGo}
    /\ pc = "parity_go" /\ ret = 0 /\ done => dma = {} /\ mem[j] = Data(ThePage)
    /\ pc = "parity_wait" /\ ret = 0 =>
           /\ dma \subseteq {DataGo} \/ dma \subseteq {ParityGo}
           /\ done => dma \subseteq {ParityGo} /\ OneHere
    /\ pc = "bch" => dma \subseteq {ParityGo} /\ OneHere

(* The parallel driver, as long as no command was given up: a command is in the
   queue only while it is waited for, and what is in the buffer is its page. *)
Quiet == queue = <<>> /\ sts = {} /\ bmc = <<>>
Waiting(c) == queue = <<c>> /\ sts = {} /\ bmc = <<>>
Lost == queue = <<>> /\ sts = {} /\ bmc = <<>>
ResetDone == Lost \/ (queue = <<>> /\ sts = {"complete"} /\ bmc = <<>>)
EccError == IF page[ThePage] # "good" THEN {"ecc"} ELSE {}
ReadDone(error) ==
    \/ Lost
    \/ queue = <<>> /\ sts = {"complete", "failed"} /\ bmc = <<>>
    \/ queue = <<>> /\ sts = {"complete"} \union error /\ bmc = <<Arrives(ThePage)>>
FirstTry == [what |-> "raw", page |-> ThePage]
ParaInv ==
    /\ pc \in ParaReading \/ (pc = "idle" /\ result = "good") => PagesRead
    /\ pc \in {"soft_reset", "idle", "fire", "fire_raw"} => Quiet
    /\ pc \in {"check_start", "abort", "abort_raw"} => Waiting(Reset) \/ ResetDone
    /\ pc = "check" => Waiting(ThePage) \/ ReadDone(EccError)
    /\ pc = "check_raw" => Waiting(ThePage) \/ ReadDone({})
    /\ pc = "abort" => status = {"complete", "failed"}
    /\ pc = "data" => \/ Quiet /\ status = {"complete", "failed"}
                      \/ /\ queue = <<>> /\ sts = {} /\ bmc = <<Arrives(ThePage)>>
                         /\ status = {"complete"} \union EccError
    /\ pc = "data_raw" =>
           queue = <<>> /\ sts = {} /\ (bmc = <<>> \/ bmc = <<Arrives(ThePage)>>)
    /\ pc \in Raw => /\ status = {"complete", "ecc"} /\ page[ThePage] # "good"
                     /\ mem[j] = IF page[ThePage] = "erased" THEN AllOnes ELSE FirstTry

PageInv ==
    /\ ChipTypeOK /\ SpiTypeOK /\ ParaTypeOK /\ PageCallInv
    /\ kind = "spi" => SpiInv
    /\ kind = "para" /\ ~timedOut => ParaInv

-----------------------------------------------------------------------------
(* Types.  Contents, the page that is read, and the steps both drivers share. *)

LEMMA Contents ==
    ASSUME ChipTypeOK, NEW p \in Pages
    PROVE  /\ Data(p) \in Content /\ Stored("parity", p) \in Content /\ Arrives(p) \in Content
           /\ Zero \in Content /\ AllOnes \in Content
           /\ Data(p) = IF page[p] = "erased" THEN AllOnes ELSE [what |-> "data", page |-> p]
    BY DEF ChipTypeOK, Data, Stored, Arrives, Zero, AllOnes, Content

LEMMA Reads ==
    ASSUME ChipTypeOK, j < asked.len
    PROVE  /\ ThePage \in Pages /\ ThePage \in Nat /\ LastPage \in Nat /\ MaxLength \in Nat
           /\ j \in 0..MaxLength /\ j + 1 \in 0..MaxLength /\ j \in Nat
    BY NandAssumption DEF ChipTypeOK, ThePage, Pages, NandAssumption

LEMMA CallReadTypes ==
    ASSUME ChipTypeOK, NEW first, first \in Reading, CallRead(first)
    PROVE  /\ ChipTypeOK' /\ PageCallInv' /\ pc' = first /\ j' = 0 /\ pc = "idle"
           /\ gInitNand_flag = 1
    <1>1. first # "idle" BY DEF Reading, SpiReading, ParaReading, Raw
    <1>2. /\ pc = "idle" /\ reads < MaxReads /\ reads' = reads + 1
          /\ asked' \in [first : Pages, len : 0..MaxLength] /\ asked'.len >= 1
          /\ asked'.first + asked'.len <= LastPage + 1
          /\ j' = 0 /\ result' = "none" /\ pc' = first
          /\ kind' = kind /\ page' = page /\ mem' = mem
          /\ gInitNand_flag' = gInitNand_flag /\ failures' = failures
        BY NandAssumption DEF CallRead, NandAssumption, Fine, Pages
    <1>3. gInitNand_flag = 1 BY <1>2 DEF ChipTypeOK
    <1>4. reads' \in 0..MaxReads BY <1>2, NandAssumption DEF ChipTypeOK, NandAssumption
    <1>5. ChipTypeOK' BY <1>1, <1>2, <1>4 DEF ChipTypeOK
    <1>6. PageCallInv' BY <1>1, <1>2, <1>5 DEF PageCallInv, ChipTypeOK
    <1> QED BY <1>2, <1>3, <1>5, <1>6

LEMMA StartedTypes ==
    ASSUME ChipTypeOK, PageCallInv, pc \notin Reading \union {"idle"},
           NEW ok \in BOOLEAN, Started(ok), failures' \in 0..MaxFailures
    PROVE  /\ ChipTypeOK' /\ PageCallInv' /\ pc' = IF ok THEN "idle" ELSE "no_nand"
           /\ j' = 0
    <1>1. /\ gInitNand_flag' = IF ok THEN 1 ELSE 0
          /\ result' = IF ok THEN "good" ELSE "failed"
          /\ pc' = IF ok THEN "idle" ELSE "no_nand"
          /\ kind' = kind /\ page' = page /\ asked' = asked /\ j' = j /\ mem' = mem
          /\ reads' = reads
        BY DEF Started
    <1>2. asked.len = 0 /\ j = 0 BY DEF PageCallInv, ChipTypeOK
    <1>3. ChipTypeOK' BY <1>1, <1>2 DEF ChipTypeOK
    <1>4. PageCallInv' BY <1>1, <1>2 DEF PageCallInv, Reading, SpiReading, ParaReading, Raw
    <1> QED BY <1>1, <1>2, <1>3, <1>4

(* A page read that succeeded is followed by the next page or by the return. *)
LEMMA PageDoneTypes ==
    ASSUME ChipTypeOK, PageCallInv, pc \in Reading, NEW ok \in BOOLEAN, NEW first,
           first \in {"data", "fire"}, PageDone(ok, first), failures' \in 0..MaxFailures
    PROVE  /\ ChipTypeOK' /\ PageCallInv' /\ pc' \in {"idle", first}
           /\ j' = IF ok THEN j + 1 ELSE j
           /\ ~ok => pc' = "idle" /\ result' = "failed"
    <1>0. first \in Reading /\ first # "idle" BY DEF Reading, SpiReading, ParaReading
    <1>1. j < asked.len /\ gInitNand_flag = 1 /\ j \in Nat /\ asked.len \in Nat
        BY DEF PageCallInv, ChipTypeOK
    <1>2. /\ j' = IF ok THEN j + 1 ELSE j
          /\ result' = IF ~ok THEN "failed" ELSE IF j' = asked.len THEN "good" ELSE "none"
          /\ pc' = IF result' = "none" THEN first ELSE "idle"
          /\ kind' = kind /\ page' = page /\ asked' = asked /\ mem' = mem
          /\ gInitNand_flag' = gInitNand_flag /\ reads' = reads
        BY DEF PageDone, AllRead
    <1>3. CASE ok
        <2>1. j' = j + 1 /\ j' \in 0..asked.len BY <1>1, <1>2, <1>3
        <2>2. CASE j' = asked.len
            <3>1. result' = "good" /\ pc' = "idle" BY <1>2, <1>3, <2>2
            <3> QED BY <1>1, <1>2, <2>1, <2>2, <3>1 DEF ChipTypeOK, PageCallInv, Reading, SpiReading, ParaReading, Raw
        <2>3. CASE j' # asked.len
            <3>1. result' = "none" /\ pc' = first BY <1>2, <1>3, <2>3
            <3> QED BY <1>0, <1>1, <1>2, <2>1, <2>3, <3>1 DEF ChipTypeOK, PageCallInv
        <2> QED BY <2>2, <2>3
    <1>4. CASE ~ok
        <2>1. j' = j /\ result' = "failed" /\ pc' = "idle" BY <1>2, <1>4
        <2> QED BY <1>1, <1>2, <2>1 DEF ChipTypeOK, PageCallInv, Reading, SpiReading, ParaReading, Raw
    <1> QED BY <1>3, <1>4

LEMMA FaultTypes ==
    ASSUME ChipTypeOK, Fault \/ Fine
    PROVE  failures' \in 0..MaxFailures
    BY NandAssumption DEF ChipTypeOK, Fault, Fine, NandAssumption

LEMMA ExpiresTypes ==
    ASSUME ChipTypeOK, NEW late, Expires(late)
    PROVE  failures' \in 0..MaxFailures
    <1>1. Fault \/ Fine BY DEF Expires
    <1> QED BY <1>1, FaultTypes

-----------------------------------------------------------------------------
(* The SPI driver. *)

SpiPcs == SpiReading \union {"reset", "id", "feature", "set_feature", "no_nand", "idle"}

(* Every step of the SPI driver leaves the other driver's state alone. *)
LEMMA SpiSide ==
    ASSUME PageInv, kind = "spi", ChipTypeOK', PageCallInv', SpiTypeOK', SpiInv',
           kind' = kind, UNCHANGED paraOwn
    PROVE  PageInv'
    <1>1. pc' \notin Raw BY DEF SpiTypeOK, Raw
    <1>2. ParaTypeOK' BY <1>1 DEF PageInv, ParaTypeOK, paraOwn, Raw
    <1> QED BY <1>2 DEF PageInv

(* The steps up to "no_nand" or "idle" *)
SpiStart == SpiReset \/ SpiReadId \/ SpiGetFeature \/ SpiSetFeature

LEMMA SpiStartKeeps ==
    ASSUME PageInv, kind = "spi", SpiStart, UNCHANGED paraOwn
    PROVE  PageInv'
    <1>1. /\ pc \in {"reset", "id", "feature", "set_feature"} /\ pc \notin Reading \union {"idle"}
          /\ dma' = dma /\ done' = done /\ ret' = ret
          /\ b0' \in {"buffer", "continuous"}
        BY DEF SpiStart, SpiReset, SpiReadId, SpiGetFeature, SpiSetFeature, spiOwn, PageInv,
               SpiTypeOK, Reading, SpiReading, ParaReading, Raw
    <1>2. failures' \in 0..MaxFailures
        <2>1. Fault \/ Fine
            BY DEF SpiStart, SpiReset, SpiReadId, SpiGetFeature, SpiSetFeature
        <2> QED BY <2>1, FaultTypes DEF PageInv
    <1>3. \/ pc' \in {"id", "feature", "set_feature"} /\ UNCHANGED nand
          \/ \E ok \in BOOLEAN : Started(ok)
        BY DEF SpiStart, SpiReset, SpiReadId, SpiGetFeature, SpiSetFeature
    <1>4. CASE pc' \in {"id", "feature", "set_feature"} /\ UNCHANGED nand
        <2>1. /\ kind' = kind /\ page' = page /\ asked' = asked /\ j' = j /\ mem' = mem
              /\ result' = result /\ gInitNand_flag' = gInitNand_flag /\ reads' = reads
            BY <1>4 DEF nand
        <2>2. ~(gInitNand_flag = 1 /\ result # "none") BY <1>1 DEF PageInv, ChipTypeOK
        <2>3. ChipTypeOK' BY <1>2, <1>4, <2>1, <2>2 DEF PageInv, ChipTypeOK
        <2>4. asked'.len = 0 /\ pc' \notin Reading \union {"idle"}
            BY <1>1, <1>4, <2>1 DEF PageInv, PageCallInv, Reading, SpiReading, ParaReading, Raw
        <2>5. PageCallInv' BY <2>4 DEF PageCallInv
        <2>6. SpiTypeOK' BY <1>1, <1>4, <2>1 DEF PageInv, SpiTypeOK
        <2>7. SpiInv' BY <1>4 DEF SpiInv, SpiPlaces, SpiReading
        <2> QED BY <2>1, <2>3, <2>5, <2>6, <2>7, SpiSide
    <1>5. ASSUME NEW ok \in BOOLEAN, Started(ok) PROVE PageInv'
        <2>1. ChipTypeOK' /\ PageCallInv' /\ pc' \in {"idle", "no_nand"} /\ j' = 0
            BY <1>1, <1>2, <1>5, StartedTypes DEF PageInv
        <2>2. SpiTypeOK' BY <1>1, <2>1 DEF PageInv, SpiTypeOK
        <2>3. \A t \in dma' : t.slot >= j' BY <1>1, <2>1 DEF PageInv, SpiTypeOK
        <2>4. PagesRead' BY <2>1 DEF PagesRead
        <2>5. SpiInv' BY <2>1, <2>3, <2>4 DEF SpiInv, SpiPlaces
        <2>6. kind' = kind BY <1>5 DEF Started
        <2> QED BY <2>1, <2>2, <2>5, <2>6, SpiSide
    <1> QED BY <1>3, <1>4, <1>5

LEMMA SpiCallKeeps ==
    ASSUME PageInv, kind = "spi", SpiCall, UNCHANGED paraOwn
    PROVE  PageInv'
    <1>1. "data" \in Reading /\ CallRead("data") /\ UNCHANGED spiOwn
        BY DEF SpiCall, Reading, SpiReading
    <1>2. ChipTypeOK' /\ PageCallInv' /\ pc' = "data" /\ j' = 0
        BY <1>1, CallReadTypes DEF PageInv
    <1>3. kind' = kind BY <1>1 DEF CallRead
    <1>4. SpiTypeOK' BY <1>1, <1>2 DEF PageInv, SpiTypeOK, spiOwn
    <1>5. \A t \in dma' : t.slot >= j' BY <1>1, <1>2 DEF PageInv, SpiTypeOK, spiOwn
    <1>6. PagesRead' BY <1>2 DEF PagesRead
    <1>7. SpiInv' BY <1>2, <1>5, <1>6 DEF SpiInv, SpiPlaces
    <1> QED BY <1>2, <1>3, <1>4, <1>7, SpiSide

(* The next step of the same page read *)
LEMMA SameRead ==
    ASSUME ChipTypeOK, PageCallInv, pc \in Reading, pc' \in Reading, UNCHANGED nand,
           failures' \in 0..MaxFailures
    PROVE  /\ ChipTypeOK' /\ PageCallInv' /\ kind' = kind /\ mem' = mem /\ j' = j
           /\ asked' = asked /\ page' = page /\ ThePage' = ThePage
           /\ PagesRead => PagesRead'
           /\ \A p : Data(p)' = Data(p) /\ Stored("parity", p)' = Stored("parity", p)
    <1>1. /\ kind' = kind /\ page' = page /\ asked' = asked /\ j' = j /\ mem' = mem
          /\ result' = result /\ gInitNand_flag' = gInitNand_flag /\ reads' = reads
        BY DEF nand
    <1>2. pc # "idle" /\ pc' # "idle" BY DEF Reading, SpiReading, ParaReading, Raw
    <1>3. ChipTypeOK' BY <1>1, <1>2 DEF ChipTypeOK
    <1>4. PageCallInv' BY <1>1, <1>2 DEF PageCallInv
    <1>5. ThePage' = ThePage BY <1>1 DEF ThePage
    <1>6. \A p : Data(p)' = Data(p) /\ Stored("parity", p)' = Stored("parity", p)
        BY <1>1 DEF Data, Stored
    <1>7. PagesRead => PagesRead' BY <1>1, <1>6 DEF PagesRead, Data, Stored
    <1> QED BY <1>1, <1>3, <1>4, <1>5, <1>6, <1>7

LEMMA SpiReads ==
    ASSUME PageInv, kind = "spi", pc \in SpiReading
    PROVE  /\ pc \in Reading /\ PagesRead /\ \A t \in dma : t.slot >= j
           /\ DataGo \in [slot : 0..MaxLength, got : Content]
           /\ ParityGo \in [slot : 0..MaxLength, got : Content]
           /\ DataGo.slot >= j /\ ParityGo.slot >= j
           /\ j \in 0..MaxLength /\ j + 1 \in 0..MaxLength
    <1>1. pc \in Reading BY DEF Reading
    <1>2. ThePage \in Pages /\ j \in 0..MaxLength /\ j + 1 \in 0..MaxLength
        BY <1>1, Reads DEF PageInv, PageCallInv
    <1>3. Data(ThePage) \in Content /\ ParityGot \in Content
        BY <1>2, Contents DEF PageInv, ParityGot
    <1>4. DataGo.slot >= j /\ ParityGo.slot >= j BY <1>2 DEF DataGo, ParityGo
    <1> QED BY <1>1, <1>2, <1>3, <1>4 DEF PageInv, SpiInv, SpiPlaces, DataGo, ParityGo

LEMMA SpiProgramKeeps ==
    ASSUME PageInv, kind = "spi", SpiProgram, UNCHANGED paraOwn
    PROVE  PageInv'
    <1>1. /\ pc \in {"data", "parity"} /\ done' = FALSE /\ dma' = dma /\ ret' = ret /\ b0' = b0
          /\ pc' = IF pc = "data" THEN "data_go" ELSE "parity_go"
          /\ UNCHANGED nand /\ failures' \in 0..MaxFailures
        BY FaultTypes DEF SpiProgram, PageInv
    <1>2. pc \in SpiReading /\ pc' \in SpiReading BY <1>1 DEF SpiReading
    <1>3. pc \in Reading /\ pc' \in Reading BY <1>2 DEF Reading
    <1>4. /\ ChipTypeOK' /\ PageCallInv' /\ kind' = kind /\ j' = j /\ ThePage' = ThePage
          /\ PagesRead => PagesRead'
          /\ \A p : Data(p)' = Data(p)
        BY <1>1, <1>3, SameRead DEF PageInv
    <1>5. SpiTypeOK' BY <1>1, <1>4 DEF PageInv, SpiTypeOK
    <1>6. DataGo' = DataGo BY <1>4 DEF DataGo
    <1>7. SpiPlaces' BY <1>1, <1>2, <1>4, SpiReads DEF SpiPlaces
    <1>8. ~done' BY <1>1
    <1>9. pc' \in {"parity", "parity_go"} /\ ret' = 0 => dma' \subseteq {DataGo'}
        BY <1>1, <1>6 DEF PageInv, SpiInv
    <1>10. pc' \notin {"data_wait", "parity_wait", "bch"} BY <1>1
    <1>11. SpiInv' BY <1>7, <1>8, <1>9, <1>10 DEF SpiInv
    <1> QED BY <1>1, <1>4, <1>5, <1>11, SpiSide

LEMMA SpiTriggerKeeps ==
    ASSUME PageInv, kind = "spi", SpiTrigger, UNCHANGED paraOwn
    PROVE  PageInv'
    <1>1. /\ pc \in {"data_go", "parity_go"} /\ done' = done /\ ret' = ret /\ b0' = b0
          /\ dma' = {Transfer} \/ (dma # {} /\ dma' = dma)
          /\ pc' = IF pc = "data_go" THEN "data_wait" ELSE "parity_wait"
          /\ UNCHANGED nand /\ failures' \in 0..MaxFailures
        BY FaultTypes DEF SpiTrigger, PageInv
    <1>2. pc \in SpiReading /\ pc' \in SpiReading BY <1>1 DEF SpiReading
    <1>3. pc \in Reading /\ pc' \in Reading BY <1>2 DEF Reading
    <1>4. /\ ChipTypeOK' /\ PageCallInv' /\ kind' = kind /\ j' = j /\ ThePage' = ThePage
          /\ PagesRead => PagesRead'
          /\ mem' = mem
          /\ \A p : Data(p)' = Data(p) /\ Stored("parity", p)' = Stored("parity", p)
        BY <1>1, <1>3, SameRead DEF PageInv
    <1>5. Transfer = IF pc = "data_go" THEN DataGo ELSE ParityGo
        BY DEF Transfer, DataGo, ParityGo, ParityGot
    <1>6. /\ PagesRead /\ \A t \in dma : t.slot >= j
          /\ DataGo \in [slot : 0..MaxLength, got : Content] /\ DataGo.slot >= j
          /\ ParityGo \in [slot : 0..MaxLength, got : Content] /\ ParityGo.slot >= j
        BY <1>2, SpiReads
    <1>7. SpiTypeOK' BY <1>1, <1>4, <1>5, <1>6 DEF PageInv, SpiTypeOK
    <1>8. DataGo' = DataGo /\ ParityGot' = ParityGot /\ ParityGo' = ParityGo
        BY <1>1, <1>4 DEF DataGo, ParityGo, ParityGot
    <1>9. SpiPlaces' BY <1>1, <1>4, <1>5, <1>6 DEF SpiPlaces
    <1>10. CASE pc = "data_go"
        <2>1. done => dma = {} BY <1>10 DEF PageInv, SpiInv
        <2>2. done' => dma' = {DataGo'} BY <2>1, <1>1, <1>5, <1>8, <1>10
        <2>3. pc' = "data_wait" BY <1>1, <1>10
        <2> QED BY <2>2, <2>3, <1>1, <1>4, <1>7, <1>9, SpiSide DEF SpiInv
    <1>11. CASE pc = "parity_go"
        <2>1. pc' = "parity_wait" BY <1>1, <1>11
        <2>2. ret = 0 => /\ dma \subseteq {DataGo}
                         /\ done => dma = {} /\ mem[j] = Data(ThePage)
            BY <1>11 DEF PageInv, SpiInv
        <2>3. dma' = {ParityGo'} \/ (dma # {} /\ dma' = dma) BY <1>1, <1>5, <1>8, <1>11
        <2>4. ret' = 0 => /\ dma' \subseteq {DataGo'} \/ dma' \subseteq {ParityGo'}
                          /\ done' => dma' \subseteq {ParityGo'} /\ mem[j] = Data(ThePage)
            BY <1>1, <1>8, <2>2, <2>3
        <2>5. mem[j] = Data(ThePage) => OneHere' BY <1>4 DEF OneHere
        <2> QED BY <2>1, <2>4, <2>5, <1>1, <1>4, <1>7, <1>9, SpiSide DEF SpiInv
    <1> QED BY <1>1, <1>10, <1>11

(* The transfer that ends writes nothing of the pages that are read already. *)
LEMMA DmaEndsKeeps ==
    ASSUME PageInv, kind = "spi", DmaEnds, UNCHANGED paraOwn
    PROVE  PageInv'
    <1>1. PICK t \in dma :
             \/ mem' = [mem EXCEPT ![t.slot] = t.got] /\ done' = TRUE /\ Fine
             \/ Fault /\ UNCHANGED <<mem, done>>
        BY DEF DmaEnds
    <1>2. /\ dma' = {} /\ kind' = kind /\ page' = page /\ asked' = asked /\ j' = j
          /\ result' = result /\ gInitNand_flag' = gInitNand_flag /\ reads' = reads
          /\ pc' = pc /\ ret' = ret /\ b0' = b0
        BY DEF DmaEnds
    <1>3. failures' \in 0..MaxFailures BY <1>1, FaultTypes DEF PageInv
    <1>4. t.slot \in 0..MaxLength /\ t.got \in Content /\ dma = {t}
        BY <1>1 DEF PageInv, SpiTypeOK
    <1>5. mem \in [0..MaxLength -> Content] BY DEF PageInv, ChipTypeOK
    <1>6. mem' \in [0..MaxLength -> Content] BY <1>1, <1>4, <1>5
    <1>7. ChipTypeOK' BY <1>2, <1>3, <1>6 DEF PageInv, ChipTypeOK
    <1>8. PageCallInv' BY <1>2 DEF PageInv, PageCallInv
    <1>9. SpiTypeOK' BY <1>1, <1>2 DEF PageInv, SpiTypeOK
    <1>10. ThePage' = ThePage /\ \A p : Data(p)' = Data(p) /\ Stored("parity", p)' = Stored("parity", p)
        BY <1>2 DEF ThePage, Data, Stored
    <1>11. ParityGot' = ParityGot BY <1>2, <1>10 DEF ParityGot
    <1>12. SpiPlaces'
        <2>1. SUFFICES ASSUME pc' \in SpiReading \/ (pc' = "idle" /\ result' = "good")
                       PROVE  PagesRead'
            BY <1>2 DEF SpiPlaces
        <2>2. PagesRead /\ t.slot >= j BY <2>1, <1>1, <1>2 DEF PageInv, SpiInv, SpiPlaces
        <2>3. j \in Nat /\ j <= MaxLength /\ MaxLength \in Nat
            BY NandAssumption DEF PageInv, ChipTypeOK, NandAssumption, Pages
        <2>4. ASSUME NEW s \in 0..j - 1 PROVE mem'[s] = mem[s]
            BY <2>2, <2>3, <1>1, <1>4, <1>5
        <2> QED BY <2>2, <2>4, <1>2, <1>10 DEF PagesRead
    <1>13. CASE pc \notin {"parity_go", "parity_wait", "bch"}
        BY <1>2, <1>7, <1>8, <1>9, <1>12, <1>13, SpiSide DEF SpiInv
    <1>14. CASE pc = "parity_go"
        <2>1. j \in 0..MaxLength BY <1>14, SpiReads DEF SpiReading
        <2>2. CASE done' = done /\ mem' = mem
            <3>1. ret = 0 => ~done BY <1>1, <1>14 DEF PageInv, SpiInv
            <3>2. ret' = 0 => ~done' BY <3>1, <1>2, <2>2
            <3> QED BY <3>2, <1>2, <1>7, <1>8, <1>9, <1>12, <1>14, SpiSide DEF SpiInv
        <2>3. CASE mem' = [mem EXCEPT ![t.slot] = t.got]
            <3>1. ret = 0 => t = DataGo BY <1>1, <1>14 DEF PageInv, SpiInv
            <3>2. ret' = 0 => mem'[j] = Data(ThePage)' BY <3>1, <2>1, <2>3, <1>2, <1>5, <1>10 DEF DataGo
            <3> QED BY <3>2, <1>2, <1>7, <1>8, <1>9, <1>10, <1>12, <1>14, SpiSide DEF SpiInv
        <2> QED BY <1>1, <2>2, <2>3
    <1>15. CASE pc = "parity_wait" \/ pc = "bch"
        <2>1. j \in 0..MaxLength /\ j + 1 \in 0..MaxLength BY <1>15, SpiReads DEF SpiReading
        <2>2. (pc = "bch" \/ ret = 0) => (t = DataGo \/ t = ParityGo)
            BY <1>1, <1>15 DEF PageInv, SpiInv
        <2>3. pc = "bch" \/ (ret = 0 /\ done) => OneHere /\ t = ParityGo
            BY <1>1, <1>15 DEF PageInv, SpiInv
        <2>4. mem' = [mem EXCEPT ![t.slot] = t.got] /\ (t = DataGo \/ t = ParityGo) => OneHere'
            <3>1. SUFFICES ASSUME mem' = [mem EXCEPT ![t.slot] = t.got], t = DataGo \/ t = ParityGo
                           PROVE  OneHere'
                OBVIOUS
            <3>2. CASE t = DataGo
                <4>1. mem'[j] = Data(ThePage) BY <3>1, <3>2, <2>1, <1>5 DEF DataGo
                <4> QED BY <4>1, <1>2, <1>10 DEF OneHere
            <3>3. CASE t = ParityGo
                <4>1. mem'[j + 1] = ParityGot BY <3>1, <3>3, <2>1, <1>5 DEF ParityGo
                <4> QED BY <4>1, <1>2, <1>11 DEF OneHere
            <3> QED BY <3>1, <3>2, <3>3
        <2>5. mem' = mem /\ OneHere => OneHere' BY <1>2, <1>10, <1>11 DEF OneHere
        <2>6. pc' = "bch" \/ (ret' = 0 /\ done') => OneHere'
            BY <2>2, <2>3, <2>4, <2>5, <1>1, <1>2
        <2> QED BY <2>6, <1>2, <1>7, <1>8, <1>9, <1>12, <1>15, SpiSide DEF SpiInv
    <1> QED BY <1>13, <1>14, <1>15

(* A wait that succeeded was ended by a transfer since the registers were
   written: what still runs is the transfer that was started behind it. *)
LEMMA SpiWaitKeeps ==
    ASSUME PageInv, kind = "spi", SpiWait, UNCHANGED paraOwn
    PROVE  PageInv'
    <1>1. /\ pc \in {"data_wait", "parity_wait"} /\ dma' = dma /\ done' = done /\ b0' = b0
          /\ IF done THEN Fine ELSE Expires(dma # {})
        BY DEF SpiWait
    <1>2. failures' \in 0..MaxFailures BY <1>1, FaultTypes, ExpiresTypes DEF PageInv
    <1>3. pc \in SpiReading /\ pc \in Reading BY <1>1 DEF SpiReading, Reading
    <1>4. PagesRead /\ \A t \in dma : t.slot >= j BY <1>3, SpiReads
    <1>5. CASE pc = "data_wait"
        <2>1. /\ pc' = "parity" /\ UNCHANGED nand /\ ret' = IF done THEN 0 ELSE -1
            BY <1>5 DEF SpiWait
        <2>2. pc' \in Reading BY <2>1 DEF Reading, SpiReading
        <2>3. /\ ChipTypeOK' /\ PageCallInv' /\ kind' = kind /\ j' = j /\ ThePage' = ThePage
              /\ PagesRead => PagesRead'
              /\ \A p : Data(p)' = Data(p)
            BY <1>2, <1>3, <2>1, <2>2, SameRead DEF PageInv
        <2>4. SpiTypeOK' BY <1>1, <2>1, <2>3 DEF PageInv, SpiTypeOK
        <2>5. SpiPlaces' BY <1>1, <1>4, <2>3 DEF SpiPlaces
        <2>6. DataGo' = DataGo BY <2>3 DEF DataGo
        <2>7. ret' = 0 => dma' \subseteq {DataGo'} BY <1>1, <1>5, <2>1, <2>6 DEF PageInv, SpiInv
        <2>8. SpiInv' BY <2>1, <2>5, <2>7 DEF SpiInv
        <2> QED BY <2>3, <2>4, <2>8, SpiSide
    <1>6. CASE pc = "parity_wait" /\ done /\ ret = 0
        <2>1. pc' = "bch" /\ UNCHANGED nand /\ ret' = 0
            BY <1>6 DEF SpiWait
        <2>2. pc' \in Reading BY <2>1 DEF Reading, SpiReading
        <2>3. /\ ChipTypeOK' /\ PageCallInv' /\ kind' = kind /\ j' = j /\ ThePage' = ThePage
              /\ mem' = mem /\ page' = page
              /\ PagesRead => PagesRead'
              /\ \A p : Data(p)' = Data(p) /\ Stored("parity", p)' = Stored("parity", p)
            BY <1>2, <1>3, <2>1, <2>2, SameRead DEF PageInv
        <2>4. SpiTypeOK' BY <1>1, <2>1, <2>3 DEF PageInv, SpiTypeOK
        <2>5. SpiPlaces' BY <1>1, <1>4, <2>3 DEF SpiPlaces
        <2>6. ParityGot' = ParityGot /\ ParityGo' = ParityGo
            BY <1>1, <2>3 DEF ParityGo, ParityGot
        <2>7. dma \subseteq {ParityGo} /\ OneHere BY <1>6 DEF PageInv, SpiInv
        <2>8. dma' \subseteq {ParityGo'} BY <1>1, <2>6, <2>7
        <2>9. OneHere'
            <3>0. Data(ThePage)' = Data(ThePage) BY <2>3 DEF Data, Stored
            <3>1. mem[j] = Data(ThePage) => mem'[j'] = Data(ThePage)' BY <2>3, <3>0
            <3>2. mem[j + 1] = ParityGot => mem'[j' + 1] = ParityGot' BY <2>3, <2>6
            <3> QED BY <3>1, <3>2, <2>7 DEF OneHere
        <2>10. SpiInv' BY <2>1, <2>5, <2>8, <2>9 DEF SpiInv
        <2> QED BY <2>3, <2>4, <2>10, SpiSide
    <1>7. CASE pc = "parity_wait" /\ ~(done /\ ret = 0)
        <2>1. ret' = 0 /\ PageDone(FALSE, "data")
            <3>1. -1 # 0 OBVIOUS
            <3>2. (IF pc = "data_wait" \/ ret = 0 THEN IF done THEN 0 ELSE -1 ELSE -1) # 0
                BY <1>7, <3>1
            <3>3. pc # "data_wait" BY <1>7
            <3> QED BY <3>2, <3>3, Zenon DEF SpiWait
        <2>2. /\ ChipTypeOK' /\ PageCallInv' /\ pc' = "idle" /\ result' = "failed"
            BY <1>2, <1>3, <2>1, PageDoneTypes DEF PageInv
        <2>3. kind' = kind BY <2>1 DEF PageDone
        <2>4. SpiTypeOK' BY <1>1, <2>1, <2>2, <2>3 DEF PageInv, SpiTypeOK
        <2>5. SpiInv' BY <2>2 DEF SpiInv, SpiPlaces, SpiReading
        <2> QED BY <2>2, <2>3, <2>4, <2>5, SpiSide
    <1> QED BY <1>1, <1>5, <1>6, <1>7

(* A decode that succeeds shows that data and parity are of one page, and one
   of them is known to be of the page that was read. *)
LEMMA BCHProcessKeeps ==
    ASSUME PageInv, kind = "spi", BCHProcess, UNCHANGED paraOwn
    PROVE  PageInv'
    <1>1. PICK ok \in Decodes(j) : PageDone(ok, "data") BY DEF BCHProcess
    <1>2. pc = "bch" /\ Fine /\ dma' = dma /\ done' = done /\ ret' = ret /\ b0' = b0
        BY DEF BCHProcess, spiOwn
    <1>3. failures' \in 0..MaxFailures BY <1>2, FaultTypes DEF PageInv
    <1>4. pc \in SpiReading BY <1>2 DEF SpiReading
    <1>5. /\ pc \in Reading /\ PagesRead /\ \A t \in dma : t.slot >= j
          /\ j \in 0..MaxLength
        BY <1>4, SpiReads
    <1>6. ok \in BOOLEAN BY <1>1 DEF Decodes
    <1>7. /\ ChipTypeOK' /\ PageCallInv' /\ pc' \in {"idle", "data"}
          /\ j' = IF ok THEN j + 1 ELSE j
          /\ ~ok => pc' = "idle" /\ result' = "failed"
        BY <1>1, <1>3, <1>5, <1>6, PageDoneTypes DEF PageInv
    <1>8. kind' = kind /\ mem' = mem /\ page' = page /\ asked' = asked BY <1>1 DEF PageDone
    <1>9. SpiTypeOK' BY <1>2, <1>7, <1>8 DEF PageInv, SpiTypeOK
    <1>10. CASE ~ok
        <2>1. SpiInv' BY <1>7, <1>10 DEF SpiInv, SpiPlaces, SpiReading
        <2> QED BY <2>1, <1>7, <1>8, <1>9, SpiSide
    <1>11. CASE ok
        <2>1. dma \subseteq {ParityGo} /\ OneHere BY <1>2 DEF PageInv, SpiInv
        <2>2. \A t \in dma' : t.slot >= j'
            BY <1>2, <1>5, <1>7, <1>11, <2>1 DEF ParityGo
        <2>3. mem[j] = Data(ThePage) /\ page[ThePage] # "bad"
            <3>1. ThePage \in Pages /\ ThePage \in Nat /\ LastPage \in Nat
                BY <1>5, Reads DEF PageInv, PageCallInv
            <3>2. ThePage # LastPage + 1 BY <3>1 DEF Pages
            <3>3. CASE mem[j] = AllOnes /\ mem[j + 1] = AllOnes
                <4>1. Data(ThePage) = AllOnes \/ Stored("parity", ThePage) = AllOnes
                    BY <2>1, <3>3 DEF OneHere, ParityGot
                <4>2. page[ThePage] = "erased"
                    BY <4>1, <3>2 DEF Data, Stored, AllOnes
                <4> QED BY <3>3, <4>2 DEF Data, Stored
            <3>4. CASE /\ mem[j].what = "data" /\ mem[j + 1] = [mem[j] EXCEPT !.what = "parity"]
                       /\ page[mem[j].page] = "good"
                <4>0. mem[j] \in [what : {"data", "raw", "parity", "zero", "ff"}, page : Nat]
                    BY <1>5, <3>1 DEF PageInv, ChipTypeOK, Content, Pages
                <4>1. /\ mem[j + 1].what = "parity" /\ mem[j + 1].page = mem[j].page
                      /\ mem[j] = [what |-> "data", page |-> mem[j].page]
                    BY <3>4, <4>0
                <4>2. mem[j].page = ThePage
                    <5>1. CASE mem[j] = Data(ThePage)
                        BY <5>1, <4>1 DEF Data, Stored, AllOnes
                    <5>2. CASE mem[j + 1] = ParityGot
                        BY <5>2, <4>1 DEF ParityGot, Data, Stored, AllOnes
                    <5> QED BY <2>1, <5>1, <5>2 DEF OneHere
                <4> QED BY <3>4, <4>1, <4>2 DEF Data, Stored
            <3> QED BY <1>1, <1>11, <3>3, <3>4 DEF Decodes
        <2>4. PagesRead'
            <3>1. \A s : Data(s)' = Data(s) BY <1>8 DEF Data, Stored
            <3>2. j \in Nat BY <1>5
            <3>3. ASSUME NEW s \in 0..j' - 1
                  PROVE  mem'[s] = Data(asked.first + s)' /\ page'[asked.first + s] # "bad"
                <4>1. s \in 0..j - 1 \/ s = j BY <3>2, <1>7, <1>11
                <4> QED BY <4>1, <3>1, <1>5, <1>8, <2>3 DEF PagesRead, ThePage
            <3> QED BY <3>3, <1>8 DEF PagesRead
        <2>5. SpiInv' BY <1>7, <2>2, <2>4 DEF SpiInv, SpiPlaces
        <2> QED BY <2>5, <1>7, <1>8, <1>9, SpiSide
    <1> QED BY <1>6, <1>10, <1>11

-----------------------------------------------------------------------------
(* The parallel driver. *)

LEMMA ParaSide ==
    ASSUME PageInv, kind = "para", ChipTypeOK', PageCallInv', ParaTypeOK',
           ~timedOut' => ParaInv', kind' = kind, UNCHANGED spiOwn
    PROVE  PageInv'
    <1>1. SpiTypeOK' BY DEF PageInv, SpiTypeOK, spiOwn
    <1> QED BY <1>1 DEF PageInv

LEMMA ParaReads ==
    ASSUME PageInv, kind = "para", pc \in ParaReading
    PROVE  /\ pc \in Reading /\ ThePage \in Pages /\ ThePage \in Nat /\ LastPage \in Nat
           /\ j \in 0..MaxLength /\ j \in Nat /\ Data(ThePage) \in Content
           /\ Arrives(ThePage) \in Content /\ Zero \in Content /\ AllOnes \in Content
           /\ ThePage # Reset
    <1>1. pc \in Reading BY DEF Reading
    <1>2. /\ ThePage \in Pages /\ ThePage \in Nat /\ LastPage \in Nat
          /\ j \in 0..MaxLength /\ j \in Nat
        BY <1>1, Reads DEF PageInv, PageCallInv
    <1>3. ThePage # Reset BY <1>2 DEF Pages, Reset
    <1> QED BY <1>1, <1>2, <1>3, Contents DEF PageInv

LEMMA ParaCallKeeps ==
    ASSUME PageInv, kind = "para", ParaCall, UNCHANGED spiOwn
    PROVE  PageInv'
    <1>1. "fire" \in Reading /\ CallRead("fire")
        BY DEF ParaCall, Reading, ParaReading
    <1>2. ChipTypeOK' /\ PageCallInv' /\ pc' = "fire" /\ j' = 0 /\ pc = "idle"
        BY <1>1, CallReadTypes DEF PageInv
    <1>3. kind' = kind BY <1>1 DEF CallRead
    <1>4. /\ queue' = queue /\ sts' = sts /\ bmc' = bmc /\ ecc' = ecc /\ status' = status
          /\ timedOut' = timedOut
        BY DEF ParaCall, paraOwn
    <1>5. ParaTypeOK' BY <1>2, <1>3, <1>4 DEF PageInv, ParaTypeOK
    <1>6. PagesRead' BY <1>2 DEF PagesRead
    <1>7. ~timedOut' => Quiet' BY <1>2, <1>4 DEF PageInv, ParaInv, Quiet
    <1>8. ~timedOut' => ParaInv' BY <1>2, <1>6, <1>7 DEF ParaInv, Raw
    <1> QED BY <1>2, <1>3, <1>5, <1>8, ParaSide

LEMMA ParaResetKeeps ==
    ASSUME PageInv, kind = "para", ParaReset, UNCHANGED spiOwn
    PROVE  PageInv'
    <1>1. /\ pc = "soft_reset" /\ pc' = "check_start" /\ ecc' = TRUE /\ queue' = <<Reset>>
          /\ sts' = sts /\ bmc' = bmc /\ status' = status /\ timedOut' = timedOut
          /\ failures' \in 0..MaxFailures /\ UNCHANGED nand
        BY FaultTypes DEF ParaReset, hw_init_and_setting, EccSetting, PageInv
    <1>2. /\ kind' = kind /\ page' = page /\ asked' = asked /\ j' = j /\ mem' = mem
          /\ result' = result /\ gInitNand_flag' = gInitNand_flag /\ reads' = reads
        BY <1>1 DEF nand
    <1>3. ChipTypeOK' BY <1>1, <1>2 DEF PageInv, ChipTypeOK
    <1>4. PageCallInv'
        BY <1>1, <1>2 DEF PageInv, PageCallInv, Reading, SpiReading, ParaReading, Raw
    <1>5. ParaTypeOK' BY <1>1, <1>2 DEF PageInv, ParaTypeOK
    <1>6. ~timedOut' => Waiting(Reset)' BY <1>1 DEF PageInv, ParaInv, Quiet, Waiting, Reset
    <1>7. ~timedOut' => ParaInv' BY <1>1, <1>6 DEF ParaInv, ParaReading, Raw
    <1> QED BY <1>2, <1>3, <1>4, <1>5, <1>7, ParaSide

LEMMA CheckStartKeeps ==
    ASSUME PageInv, kind = "para", CheckStart, UNCHANGED spiOwn
    PROVE  PageInv'
    <1>1. /\ pc = "check_start" /\ Started(TRUE) /\ queue' = queue /\ bmc' = bmc
          /\ ecc' = ecc /\ status' = status
          /\ \/ "complete" \in sts /\ sts' = {} /\ timedOut' = timedOut
             \/ timedOut' = TRUE /\ sts' = sts
        BY DEF CheckStart
    <1>2. failures' \in 0..MaxFailures BY FaultTypes, ExpiresTypes DEF CheckStart, PageInv
    <1>3. pc \notin Reading \union {"idle"} BY <1>1 DEF Reading, SpiReading, ParaReading, Raw
    <1>4. ChipTypeOK' /\ PageCallInv' /\ pc' = "idle" /\ j' = 0
        BY <1>1, <1>2, <1>3, StartedTypes DEF PageInv
    <1>5. kind' = kind BY <1>1 DEF Started
    <1>6. ParaTypeOK' BY <1>1, <1>4, <1>5 DEF PageInv, ParaTypeOK
    <1>7. PagesRead' BY <1>4 DEF PagesRead
    <1>8. ~timedOut' => Quiet'
        BY <1>1 DEF PageInv, ParaInv, Quiet, Waiting, ResetDone, Lost
    <1>9. ~timedOut' => ParaInv' BY <1>4, <1>7, <1>8 DEF ParaInv, ParaReading, Raw
    <1> QED BY <1>4, <1>5, <1>6, <1>9, ParaSide

(* What the steps of a page read have in common *)
LEMMA ParaSame ==
    ASSUME PageInv, kind = "para", pc \in ParaReading, pc' \in ParaReading, UNCHANGED nand,
           failures' \in 0..MaxFailures
    PROVE  /\ ChipTypeOK' /\ PageCallInv' /\ kind' = kind /\ mem' = mem /\ j' = j
           /\ page' = page /\ ThePage' = ThePage
           /\ ~timedOut => PagesRead'
    <1>1. pc \in Reading /\ pc' \in Reading BY DEF Reading
    <1>2. ~timedOut => PagesRead BY DEF PageInv, ParaInv
    <1> QED BY <1>1, <1>2, SameRead DEF PageInv

LEMMA FireKeeps ==
    ASSUME PageInv, kind = "para", Fire, UNCHANGED spiOwn
    PROVE  PageInv'
    <1>1. /\ pc = "fire" /\ pc' = "check" /\ mem' = [mem EXCEPT ![j] = Zero]
          /\ queue' = Append(queue, ThePage) /\ failures' = failures
          /\ kind' = kind /\ page' = page /\ asked' = asked /\ j' = j /\ result' = result
          /\ gInitNand_flag' = gInitNand_flag /\ reads' = reads
          /\ sts' = sts /\ bmc' = bmc /\ ecc' = ecc /\ status' = status /\ timedOut' = timedOut
        BY DEF Fire, Fired, Fine
    <1>2. pc \in ParaReading /\ pc' \in ParaReading BY <1>1 DEF ParaReading
    <1>3. ThePage \in Pages /\ j \in 0..MaxLength /\ j \in Nat /\ Zero \in Content
        BY <1>2, ParaReads
    <1>4. mem' \in [0..MaxLength -> Content] /\ \A s \in 0..j - 1 : mem'[s] = mem[s]
        BY <1>1, <1>3 DEF PageInv, ChipTypeOK
    <1>5. ChipTypeOK' BY <1>1, <1>4 DEF PageInv, ChipTypeOK
    <1>6. PageCallInv' BY <1>1, <1>2 DEF PageInv, PageCallInv, Reading
    <1>7. queue' \in Seq(Pages \union {Reset}) BY <1>1, <1>3 DEF PageInv, ParaTypeOK
    <1>8. ParaTypeOK' BY <1>1, <1>7 DEF PageInv, ParaTypeOK
    <1>9. ThePage' = ThePage /\ \A p : Data(p)' = Data(p) BY <1>1 DEF ThePage, Data, Stored
    <1>10. ASSUME ~timedOut' PROVE ParaInv'
        <2>1. PagesRead /\ Quiet BY <1>1, <1>2, <1>10 DEF PageInv, ParaInv
        <2>2. PagesRead' BY <2>1, <1>1, <1>4, <1>9 DEF PagesRead
        <2>3. Waiting(ThePage)' BY <2>1, <1>1, <1>9 DEF Quiet, Waiting
        <2> QED BY <2>2, <2>3, <1>1 DEF ParaInv, Raw
    <1> QED BY <1>1, <1>5, <1>6, <1>8, <1>10, ParaSide

(* Check_command_status *)
LEMMA Answer ==
    ASSUME ParaTypeOK, ChipTypeOK, NEW next, NEW abort, Complete(next, abort) \/ GiveUp(next)
    PROVE  /\ queue' \in Seq(Pages \union {Reset}) /\ sts' \subseteq {"complete", "failed", "ecc"}
           /\ bmc' \in Seq(Content) /\ timedOut' \in BOOLEAN /\ pc' \in {next, abort}
           /\ failures' \in 0..MaxFailures
           /\ ~timedOut' => Complete(next, abort) /\ ~timedOut
    <1>1. failures' \in 0..MaxFailures BY FaultTypes, ExpiresTypes DEF Complete, GiveUp
    <1>2. CASE Complete(next, abort)
        <2>1. ~(timedOut' # timedOut) BY <1>2 DEF Complete
        <2>2. CASE "failed" \in sts
            <3>1. /\ sts' = sts \ {"complete", "failed"} /\ pc' = abort
                  /\ queue' = <<Reset>> /\ bmc' = <<>>
                BY <1>2, <2>2 DEF Complete
            <3>2. <<Reset>> \in Seq(Pages \union {Reset}) /\ <<>> \in Seq(Content) OBVIOUS
            <3> QED BY <1>1, <1>2, <2>1, <3>1, <3>2 DEF ParaTypeOK
        <2>3. CASE "failed" \notin sts
            <3>1. sts' = {} /\ pc' = next /\ queue' = queue /\ bmc' = bmc
                BY <1>2, <2>3 DEF Complete
            <3> QED BY <1>1, <1>2, <2>1, <3>1 DEF ParaTypeOK
        <2> QED BY <2>2, <2>3
    <1>3. CASE GiveUp(next)
        BY <1>1, <1>3 DEF GiveUp, ParaTypeOK
    <1> QED BY <1>2, <1>3

LEMMA CheckKeeps ==
    ASSUME PageInv, kind = "para", Check, UNCHANGED spiOwn
    PROVE  PageInv'
    <1>1. /\ pc = "check" /\ UNCHANGED nand /\ ecc' = ecc
          /\ Complete("data", "abort") \/ GiveUp("data")
          /\ status' \subseteq {"complete", "failed", "ecc"}
        BY DEF Check, PageInv, ParaTypeOK
    <1>2. /\ queue' \in Seq(Pages \union {Reset}) /\ sts' \subseteq {"complete", "failed", "ecc"}
          /\ bmc' \in Seq(Content) /\ timedOut' \in BOOLEAN /\ pc' \in {"data", "abort"}
          /\ failures' \in 0..MaxFailures
          /\ ~timedOut' => Complete("data", "abort") /\ ~timedOut
        BY <1>1, Answer DEF PageInv
    <1>3. pc \in ParaReading /\ pc' \in ParaReading BY <1>1, <1>2 DEF ParaReading
    <1>4. /\ ChipTypeOK' /\ PageCallInv' /\ kind' = kind /\ mem' = mem /\ j' = j
          /\ page' = page /\ ThePage' = ThePage
          /\ ~timedOut => PagesRead'
        BY <1>1, <1>2, <1>3, ParaSame
    <1>5. ParaTypeOK' BY <1>1, <1>2, <1>4 DEF PageInv, ParaTypeOK
    <1>6. ASSUME ~timedOut' PROVE ParaInv'
        <2>1. /\ "complete" \in sts
              /\ IF "failed" \in sts
                 THEN /\ sts' = sts \ {"complete", "failed"} /\ pc' = "abort"
                      /\ queue' = <<Reset>> /\ bmc' = <<>>
                 ELSE sts' = {} /\ pc' = "data" /\ queue' = queue /\ bmc' = bmc
            BY <1>2, <1>6 DEF Complete
        <2>2. status' = sts \ (IF "failed" \in sts THEN {"ecc"} ELSE {})
            <3>1. ~GiveUp("data") BY <2>1 DEF GiveUp
            <3> QED BY <3>1 DEF Check
        <2>3. \/ queue = <<>> /\ sts = {"complete", "failed"} /\ bmc = <<>>
              \/ queue = <<>> /\ sts = {"complete"} \union EccError /\ bmc = <<Arrives(ThePage)>>
            BY <1>1, <1>2, <1>6, <2>1 DEF PageInv, ParaInv, Waiting, ReadDone, Lost
        <2>4. CASE sts = {"complete", "failed"}
            <3>1. pc' = "abort" /\ Waiting(Reset)' /\ status' = {"complete", "failed"}
                BY <2>1, <2>2, <2>4 DEF Waiting, Reset
            <3> QED BY <3>1, <1>2, <1>4, <1>6 DEF ParaInv, Raw
        <2>5. CASE /\ queue = <<>> /\ sts = {"complete"} \union EccError
                   /\ bmc = <<Arrives(ThePage)>>
            <3>1. "failed" \notin sts BY <2>5 DEF EccError
            <3>2. pc' = "data" /\ sts' = {} /\ queue' = <<>> /\ bmc' = <<Arrives(ThePage)>>
                  /\ status' = {"complete"} \union EccError
                BY <2>1, <2>2, <2>5, <3>1
            <3>3. EccError' = EccError BY <1>4 DEF EccError
            <3>4. Arrives(ThePage)' = Arrives(ThePage) BY <1>1, <1>4 DEF Arrives
            <3> QED BY <3>2, <3>3, <3>4, <1>2, <1>4, <1>6 DEF ParaInv, Raw
        <2> QED BY <2>3, <2>4, <2>5
    <1> QED BY <1>4, <1>5, <1>6, ParaSide

LEMMA CheckRawKeeps ==
    ASSUME PageInv, kind = "para", CheckRaw, UNCHANGED spiOwn
    PROVE  PageInv'
    <1>1. /\ pc = "check_raw" /\ UNCHANGED nand /\ ecc' = ecc /\ status' = status
          /\ Complete("data_raw", "abort_raw") \/ GiveUp("data_raw")
        BY DEF CheckRaw
    <1>2. /\ queue' \in Seq(Pages \union {Reset}) /\ sts' \subseteq {"complete", "failed", "ecc"}
          /\ bmc' \in Seq(Content) /\ timedOut' \in BOOLEAN /\ pc' \in {"data_raw", "abort_raw"}
          /\ failures' \in 0..MaxFailures
          /\ ~timedOut' => Complete("data_raw", "abort_raw") /\ ~timedOut
        BY <1>1, Answer DEF PageInv
    <1>3. pc \in ParaReading /\ pc' \in ParaReading BY <1>1, <1>2 DEF ParaReading, Raw
    <1>4. /\ ChipTypeOK' /\ PageCallInv' /\ kind' = kind /\ mem' = mem /\ j' = j
          /\ page' = page /\ ThePage' = ThePage
          /\ ~timedOut => PagesRead'
        BY <1>1, <1>2, <1>3, ParaSame
    <1>5. ParaTypeOK' BY <1>1, <1>2, <1>4 DEF PageInv, ParaTypeOK
    <1>6. ASSUME ~timedOut' PROVE ParaInv'
        <2>1. /\ "complete" \in sts
              /\ IF "failed" \in sts
                 THEN /\ sts' = sts \ {"complete", "failed"} /\ pc' = "abort_raw"
                      /\ queue' = <<Reset>> /\ bmc' = <<>>
                 ELSE sts' = {} /\ pc' = "data_raw" /\ queue' = queue /\ bmc' = bmc
            BY <1>2, <1>6 DEF Complete
        <2>2. \/ queue = <<>> /\ sts = {"complete", "failed"} /\ bmc = <<>>
              \/ queue = <<>> /\ sts = {"complete"} /\ bmc = <<Arrives(ThePage)>>
            BY <1>1, <1>2, <1>6, <2>1 DEF PageInv, ParaInv, Waiting, ReadDone, Lost
        <2>3. Arrives(ThePage)' = Arrives(ThePage) BY <1>1, <1>4 DEF Arrives
        <2>4. /\ status' = {"complete", "ecc"} /\ page'[ThePage'] # "good"
              /\ mem'[j'] = (IF page[ThePage] = "erased" THEN AllOnes ELSE FirstTry)'
            BY <1>1, <1>2, <1>4, <1>6 DEF PageInv, ParaInv, Raw, FirstTry, AllOnes
        <2>5. CASE sts = {"complete", "failed"}
            <3>1. pc' = "abort_raw" /\ Waiting(Reset)' BY <2>1, <2>5 DEF Waiting, Reset
            <3> QED BY <3>1, <2>4, <1>2, <1>4, <1>6 DEF ParaInv
        <2>6. CASE queue = <<>> /\ sts = {"complete"} /\ bmc = <<Arrives(ThePage)>>
            <3>1. /\ pc' = "data_raw" /\ sts' = {} /\ queue' = <<>>
                  /\ bmc' = <<Arrives(ThePage)>>'
                BY <2>1, <2>3, <2>6
            <3> QED BY <3>1, <2>4, <1>2, <1>4, <1>6 DEF ParaInv
        <2> QED BY <2>2, <2>5, <2>6
    <1> QED BY <1>4, <1>5, <1>6, ParaSide

(* The reset of an abort is answered, or was never sent to the end. *)
LEMMA AbortKeeps ==
    ASSUME PageInv, kind = "para", Abort, UNCHANGED spiOwn
    PROVE  PageInv'
    <1> DEFINE next == IF pc = "abort" THEN "data" ELSE "data_raw"
    <1>1. /\ pc \in {"abort", "abort_raw"} /\ UNCHANGED nand /\ ecc' = ecc
          /\ Complete(next, pc) \/ GiveUp(next)
          /\ status' \subseteq {"complete", "failed", "ecc"}
        BY DEF Abort, PageInv, ParaTypeOK
    <1>2. /\ queue' \in Seq(Pages \union {Reset}) /\ sts' \subseteq {"complete", "failed", "ecc"}
          /\ bmc' \in Seq(Content) /\ timedOut' \in BOOLEAN /\ pc' \in {next, pc}
          /\ failures' \in 0..MaxFailures
          /\ ~timedOut' => Complete(next, pc) /\ ~timedOut
        BY <1>1, Answer DEF PageInv
    <1>3. pc \in ParaReading /\ pc' \in ParaReading BY <1>1, <1>2 DEF ParaReading, Raw
    <1>4. /\ ChipTypeOK' /\ PageCallInv' /\ kind' = kind /\ mem' = mem /\ j' = j
          /\ page' = page /\ ThePage' = ThePage
          /\ ~timedOut => PagesRead'
        BY <1>1, <1>2, <1>3, ParaSame
    <1>5. ParaTypeOK' BY <1>1, <1>2, <1>4 DEF PageInv, ParaTypeOK
    <1>6. ASSUME ~timedOut' PROVE ParaInv'
        <2>1. "complete" \in sts BY <1>2, <1>6 DEF Complete
        <2>2. queue = <<>> /\ sts = {"complete"} /\ bmc = <<>>
            BY <1>1, <1>2, <1>6, <2>1 DEF PageInv, ParaInv, Waiting, ResetDone, Lost
        <2>3. sts' = {} /\ pc' = next /\ queue' = <<>> /\ bmc' = <<>>
            BY <1>2, <1>6, <2>2 DEF Complete
        <2>4. status' = status
            <3>1. ~GiveUp(next) BY <2>1 DEF GiveUp
            <3> QED BY <3>1 DEF Abort
        <2>5. CASE pc = "abort"
            <3>1. status' = {"complete", "failed"} BY <2>4, <2>5, <1>2, <1>6 DEF PageInv, ParaInv
            <3>2. pc' = "data" BY <2>3, <2>5
            <3> QED BY <3>1, <3>2, <2>3, <1>2, <1>4, <1>6 DEF ParaInv, Raw, Quiet
        <2>6. CASE pc = "abort_raw"
            <3>1. /\ status' = {"complete", "ecc"} /\ page'[ThePage'] # "good"
                  /\ mem'[j'] = (IF page[ThePage] = "erased" THEN AllOnes ELSE FirstTry)'
                BY <1>2, <1>4, <1>6, <2>4, <2>6 DEF PageInv, ParaInv, Raw, FirstTry, AllOnes
            <3>2. pc' = "data_raw" BY <2>3, <2>6
            <3> QED BY <3>1, <3>2, <2>3, <1>2, <1>4, <1>6 DEF ParaInv
        <2> QED BY <1>1, <2>5, <2>6
    <1> QED BY <1>4, <1>5, <1>6, ParaSide

LEMMA FireRawKeeps ==
    ASSUME PageInv, kind = "para", FireRaw, UNCHANGED spiOwn
    PROVE  PageInv'
    <1>1. /\ pc = "fire_raw" /\ pc' = "check_raw" /\ queue' = Append(queue, ThePage)
          /\ failures' \in 0..MaxFailures /\ UNCHANGED nand
          /\ sts' = sts /\ bmc' = bmc /\ ecc' = ecc /\ status' = status /\ timedOut' = timedOut
        BY FaultTypes DEF FireRaw, Fired, PageInv
    <1>2. pc \in ParaReading /\ pc' \in ParaReading BY <1>1 DEF ParaReading, Raw
    <1>3. /\ ChipTypeOK' /\ PageCallInv' /\ kind' = kind /\ mem' = mem /\ j' = j
          /\ page' = page /\ ThePage' = ThePage
          /\ ~timedOut => PagesRead'
        BY <1>1, <1>2, ParaSame
    <1>4. ThePage \in Pages BY <1>2, ParaReads
    <1>5. queue' \in Seq(Pages \union {Reset}) BY <1>1, <1>4 DEF PageInv, ParaTypeOK
    <1>6. ParaTypeOK' BY <1>1, <1>3, <1>5 DEF PageInv, ParaTypeOK
    <1>7. ASSUME ~timedOut' PROVE ParaInv'
        <2>1. Waiting(ThePage)' BY <1>1, <1>3, <1>7 DEF PageInv, ParaInv, Quiet, Waiting
        <2>2. /\ status' = {"complete", "ecc"} /\ page'[ThePage'] # "good"
              /\ mem'[j'] = (IF page[ThePage] = "erased" THEN AllOnes ELSE FirstTry)'
            BY <1>1, <1>3, <1>7 DEF PageInv, ParaInv, Raw, FirstTry, AllOnes
        <2> QED BY <2>1, <2>2, <1>1, <1>3, <1>7 DEF ParaInv
    <1> QED BY <1>3, <1>6, <1>7, ParaSide

(* Data_read: the page in the buffer, if there is one, goes to its place. *)
LEMMA Copies ==
    ASSUME Copy, ChipTypeOK, ParaTypeOK, j \in 0..MaxLength
    PROVE  /\ bmc' \in Seq(Content) /\ mem' \in [0..MaxLength -> Content]
           /\ \A s \in 0..j - 1 : mem'[s] = mem[s]
           /\ bmc = <<>> => bmc' = <<>> /\ mem' = mem
           /\ \A c : bmc = <<c>> => bmc' = <<>> /\ mem'[j] = c
    <1>1. CASE bmc # <<>> /\ bmc' = Tail(bmc) /\ mem' = [mem EXCEPT ![j] = Head(bmc)]
        <2>1. bmc \in Seq(Content) /\ mem \in [0..MaxLength -> Content]
            BY DEF ParaTypeOK, ChipTypeOK
        <2>2. Head(bmc) \in Content /\ Tail(bmc) \in Seq(Content) BY <1>1, <2>1
        <2>3. \A s \in 0..j - 1 : mem'[s] = mem[s] BY <1>1, <2>1
        <2>4. \A c : bmc = <<c>> => bmc' = <<>> /\ mem'[j] = c BY <1>1, <2>1
        <2> QED BY <1>1, <2>1, <2>2, <2>3, <2>4
    <1>2. CASE bmc = <<>> /\ bmc' = bmc /\ mem' = mem
        <2>1. \A c : <<>> # <<c>> OBVIOUS
        <2> QED BY <1>2, <2>1 DEF ParaTypeOK, ChipTypeOK
    <1> QED BY <1>1, <1>2 DEF Copy

LEMMA Returns ==
    ASSUME ChipTypeOK, PageCallInv, pc \in Reading, NEW st, PageReturn(st),
           mem' \in [0..MaxLength -> Content],
           UNCHANGED <<kind, page, asked, gInitNand_flag, reads>>, failures' \in 0..MaxFailures
    PROVE  /\ ChipTypeOK' /\ PageCallInv' /\ pc' \in {"fire", "idle"}
           /\ st \intersect {"failed", "ecc"} = {} => j' = j + 1
           /\ st \intersect {"failed", "ecc"} # {} => pc' = "idle" /\ result' = "failed"
    <1>1. j < asked.len /\ gInitNand_flag = 1 /\ j \in Nat /\ asked.len \in Nat
        BY DEF PageCallInv, ChipTypeOK
    <1>2. /\ result' = IF j' = j THEN "failed" ELSE IF j' = asked.len THEN "good" ELSE "none"
          /\ pc' = IF result' = "none" THEN "fire" ELSE "idle"
          /\ kind' = kind /\ page' = page /\ asked' = asked
          /\ gInitNand_flag' = gInitNand_flag /\ reads' = reads
        BY DEF PageReturn, AllRead
    <1>3. CASE st \intersect {"failed", "ecc"} = {}
        <2>1. j' = j + 1 BY <1>3 DEF PageReturn
        <2>2. j' # j /\ j' \in 0..asked.len BY <1>1, <2>1
        <2>3. CASE j' = asked.len
            <3>1. result' = "good" /\ pc' = "idle" BY <1>2, <2>2, <2>3
            <3> QED BY <1>1, <1>2, <1>3, <2>1, <2>2, <2>3, <3>1
                    DEF ChipTypeOK, PageCallInv, Reading, SpiReading, ParaReading, Raw
        <2>4. CASE j' # asked.len
            <3>1. result' = "none" /\ pc' = "fire" BY <1>2, <2>2, <2>4
            <3>2. pc' # "idle" /\ pc' \in Reading BY <3>1 DEF Reading, ParaReading
            <3> QED BY <1>1, <1>2, <1>3, <2>1, <2>2, <2>4, <3>1, <3>2 DEF ChipTypeOK, PageCallInv
        <2> QED BY <2>3, <2>4
    <1>4. CASE st \intersect {"failed", "ecc"} # {}
        <2>1. j' = j BY <1>4 DEF PageReturn
        <2>2. result' = "failed" /\ pc' = "idle" BY <1>2, <2>1
        <2> QED BY <1>1, <1>2, <1>4, <2>1, <2>2
                DEF ChipTypeOK, PageCallInv, Reading, SpiReading, ParaReading, Raw
    <1> QED BY <1>3, <1>4

(* One page more, when it is in its place *)
LEMMA OneMore ==
    ASSUME PagesRead, j' = j + 1, j \in Nat, page' = page, asked' = asked,
           \A s \in 0..j - 1 : mem'[s] = mem[s],
           mem'[j] = Data(ThePage), page[ThePage] # "bad"
    PROVE  PagesRead'
    <1>1. \A s : Data(s)' = Data(s) BY DEF Data, Stored
    <1>2. ASSUME NEW s \in 0..j' - 1
          PROVE  mem'[s] = Data(asked.first + s)' /\ page'[asked.first + s] # "bad"
        <2>1. s \in 0..j - 1 \/ s = j OBVIOUS
        <2> QED BY <2>1, <1>1 DEF PagesRead, ThePage
    <1> QED BY <1>2 DEF PagesRead

LEMMA DataReadKeeps ==
    ASSUME PageInv, kind = "para", DataRead, UNCHANGED spiOwn
    PROVE  PageInv'
    <1>1. /\ pc = "data" /\ Copy /\ failures' \in 0..MaxFailures
          /\ UNCHANGED <<kind, page, asked, gInitNand_flag, reads>>
          /\ queue' = queue /\ sts' = sts /\ status' = status /\ timedOut' = timedOut
        BY FaultTypes DEF DataRead, PageInv
    <1>2. pc \in ParaReading BY <1>1 DEF ParaReading
    <1>3. /\ pc \in Reading /\ j \in 0..MaxLength /\ j \in Nat /\ ThePage \in Pages
        BY <1>2, ParaReads
    <1>4. /\ bmc' \in Seq(Content) /\ mem' \in [0..MaxLength -> Content]
          /\ \A s \in 0..j - 1 : mem'[s] = mem[s]
          /\ bmc = <<>> => bmc' = <<>> /\ mem' = mem
          /\ \A c : bmc = <<c>> => bmc' = <<>> /\ mem'[j] = c
        BY <1>1, <1>3, Copies DEF PageInv
    <1>6. ecc /\ ecc \in BOOLEAN BY <1>1 DEF PageInv, ParaTypeOK, Raw
    <1>7. ASSUME ~timedOut'
          PROVE  /\ PagesRead /\ queue' = <<>> /\ sts' = {} /\ bmc' = <<>>
                 /\ \/ status = {"complete", "failed"}
                    \/ status = {"complete"} \union EccError /\ mem'[j] = Arrives(ThePage)
        <2>1. /\ PagesRead
              /\ \/ Quiet /\ status = {"complete", "failed"}
                 \/ /\ queue = <<>> /\ sts = {} /\ bmc = <<Arrives(ThePage)>>
                    /\ status = {"complete"} \union EccError
            BY <1>1, <1>2, <1>7 DEF PageInv, ParaInv
        <2> QED BY <2>1, <1>1, <1>4 DEF Quiet
    <1>8. CASE "ecc" \in status
        <2>1. pc' = "fire_raw" /\ ecc' = FALSE /\ j' = j /\ result' = result
            BY <1>8 DEF DataRead
        <2>2. pc' \in Reading /\ pc' # "idle" /\ pc # "idle"
            BY <2>1, <1>1 DEF Reading, ParaReading, Raw
        <2>3. ChipTypeOK' BY <1>1, <1>4, <2>1, <2>2 DEF PageInv, ChipTypeOK
        <2>4. PageCallInv' BY <1>1, <1>3, <2>1, <2>2 DEF PageInv, PageCallInv
        <2>5. ParaTypeOK' BY <1>1, <1>4, <2>1 DEF PageInv, ParaTypeOK
        <2>6. ASSUME ~timedOut' PROVE ParaInv'
            <3>1. status = {"complete"} \union EccError /\ mem'[j] = Arrives(ThePage)
                BY <1>7, <1>8, <2>6
            <3>2. page[ThePage] # "good" BY <3>1, <1>8 DEF EccError
            <3>3. status = {"complete", "ecc"} BY <3>1, <3>2 DEF EccError
            <3>4. ThePage' = ThePage BY <1>1, <2>1 DEF ThePage
            <3>5. mem'[j'] = (IF page[ThePage] = "erased" THEN AllOnes ELSE FirstTry)'
                BY <1>1, <2>1, <3>1, <3>2, <3>4 DEF Arrives, FirstTry, AllOnes
            <3>6. PagesRead'
                <4>1. \A s : Data(s)' = Data(s) BY <1>1 DEF Data, Stored
                <4> QED BY <4>1, <1>1, <1>4, <1>7, <2>1, <2>6 DEF PagesRead
            <3>7. Quiet' BY <1>7, <2>6 DEF Quiet
            <3>8. status' = {"complete", "ecc"} /\ page'[ThePage'] # "good"
                BY <1>1, <3>2, <3>3, <3>4
            <3> QED BY <3>5, <3>6, <3>7, <3>8, <2>1 DEF ParaInv
        <2> QED BY <1>1, <2>3, <2>4, <2>5, <2>6, ParaSide
    <1>9. CASE "ecc" \notin status
        <2>1. PageReturn(status) /\ ecc' = ecc BY <1>9 DEF DataRead
        <2>2. /\ ChipTypeOK' /\ PageCallInv' /\ pc' \in {"fire", "idle"}
              /\ status \intersect {"failed", "ecc"} = {} => j' = j + 1
              /\ status \intersect {"failed", "ecc"} # {} => pc' = "idle" /\ result' = "failed"
            BY <1>1, <1>3, <1>4, <2>1, Returns DEF PageInv
        <2>3. ParaTypeOK' BY <1>1, <1>4, <1>6, <2>1, <2>2 DEF PageInv, ParaTypeOK
        <2>4. ASSUME ~timedOut' PROVE ParaInv'
            <3>1. Quiet' BY <1>7, <2>4 DEF Quiet
            <3>2. CASE status = {"complete", "failed"}
                <4>1. pc' = "idle" /\ result' = "failed" BY <2>2, <3>2
                <4> QED BY <4>1, <3>1 DEF ParaInv, ParaReading, Raw
            <3>3. CASE status = {"complete"} \union EccError /\ mem'[j] = Arrives(ThePage)
                <4>1. page[ThePage] = "good" BY <3>3, <1>9 DEF EccError
                <4>2. mem'[j] = Data(ThePage) BY <3>3, <4>1, <1>6 DEF Arrives, Data, Stored
                <4>3. status \intersect {"failed", "ecc"} = {} BY <3>3, <4>1 DEF EccError
                <4>4. j' = j + 1 BY <2>2, <4>3
                <4>5. PagesRead' BY <1>1, <1>3, <1>4, <1>7, <2>4, <4>1, <4>2, <4>4, OneMore
                <4> QED BY <2>2, <3>1, <4>5 DEF ParaInv, Raw
            <3> QED BY <1>7, <2>4, <3>2, <3>3
        <2> QED BY <1>1, <2>2, <2>3, <2>4, ParaSide
    <1> QED BY <1>8, <1>9

(* Only a page that was not good is read once more, so that one of ones only is
   an erased page. *)
LEMMA DataReadRawKeeps ==
    ASSUME PageInv, kind = "para", DataReadRaw, UNCHANGED spiOwn
    PROVE  PageInv'
    <1> DEFINE st == IF mem'[j] = AllOnes THEN status \ {"ecc"} ELSE status
    <1>1. /\ pc = "data_raw" /\ Copy /\ failures' \in 0..MaxFailures /\ PageReturn(st)
          /\ UNCHANGED <<kind, page, asked, gInitNand_flag, reads>> /\ ecc' = TRUE
          /\ queue' = queue /\ sts' = sts /\ status' = status /\ timedOut' = timedOut
        BY FaultTypes DEF DataReadRaw, EccRestored, PageInv
    <1>2. pc \in ParaReading BY <1>1 DEF ParaReading, Raw
    <1>3. /\ pc \in Reading /\ j \in 0..MaxLength /\ j \in Nat /\ ThePage \in Pages
          /\ ThePage # LastPage + 1
        BY <1>2, ParaReads DEF Reset
    <1>4. /\ bmc' \in Seq(Content) /\ mem' \in [0..MaxLength -> Content]
          /\ \A s \in 0..j - 1 : mem'[s] = mem[s]
          /\ bmc = <<>> => bmc' = <<>> /\ mem' = mem
          /\ \A c : bmc = <<c>> => bmc' = <<>> /\ mem'[j] = c
        BY <1>1, <1>3, Copies DEF PageInv
    <1>5. /\ ChipTypeOK' /\ PageCallInv' /\ pc' \in {"fire", "idle"}
          /\ st \intersect {"failed", "ecc"} = {} => j' = j + 1
          /\ st \intersect {"failed", "ecc"} # {} => pc' = "idle" /\ result' = "failed"
        <2> HIDE DEF st
        <2> QED BY <1>1, <1>3, <1>4, Returns DEF PageInv
    <1>6. ParaTypeOK' BY <1>1, <1>4, <1>5 DEF PageInv, ParaTypeOK
    <1>7. ASSUME ~timedOut' PROVE ParaInv'
        <2>1. /\ PagesRead /\ queue = <<>> /\ sts = {}
              /\ bmc = <<>> \/ bmc = <<Arrives(ThePage)>>
              /\ status = {"complete", "ecc"} /\ page[ThePage] # "good"
              /\ mem[j] = IF page[ThePage] = "erased" THEN AllOnes ELSE FirstTry
            BY <1>1, <1>2, <1>7 DEF PageInv, ParaInv, Raw
        <2>2. bmc' = <<>> BY <1>4, <2>1
        <2>3. Quiet' BY <1>1, <2>1, <2>2 DEF Quiet
        <2>4. mem'[j] = IF page[ThePage] = "erased" THEN AllOnes ELSE FirstTry
            <3>1. Arrives(ThePage) = IF page[ThePage] = "erased" THEN AllOnes ELSE FirstTry
                BY <2>1 DEF Arrives, FirstTry
            <3> QED BY <1>4, <2>1, <3>1
        <2>5. CASE page[ThePage] = "erased"
            <3>1. mem'[j] = AllOnes /\ mem'[j] = Data(ThePage) BY <2>4, <2>5 DEF Data, Stored
            <3>2. st \intersect {"failed", "ecc"} = {} BY <2>1, <3>1
            <3>3. j' = j + 1 BY <1>5, <3>2
            <3>4. PagesRead' BY <1>1, <1>3, <1>4, <2>1, <2>5, <3>1, <3>3, OneMore
            <3> QED BY <1>5, <2>3, <3>4 DEF ParaInv, Raw
        <2>6. CASE page[ThePage] # "erased"
            <3>1. mem'[j] # AllOnes BY <1>3, <2>4, <2>6 DEF AllOnes, FirstTry
            <3>2. pc' = "idle" /\ result' = "failed" BY <1>5, <2>1, <3>1
            <3> QED BY <3>2, <2>3 DEF ParaInv, ParaReading, Raw
        <2> QED BY <2>5, <2>6
    <1> QED BY <1>1, <1>5, <1>6, <1>7, ParaSide

(* Before anything was given up, the controller has at most the command that is
   waited for. *)
LEMMA ExecuteKeeps ==
    ASSUME PageInv, kind = "para", Execute, UNCHANGED spiOwn
    PROVE  PageInv'
    <1>1. /\ queue # <<>> /\ queue' = Tail(queue) /\ UNCHANGED nand /\ pc' = pc
          /\ ecc' = ecc /\ status' = status /\ timedOut' = timedOut
        BY DEF Execute
    <1>2. \/ Head(queue) = Reset /\ sts' = sts \union {"complete"} /\ bmc' = bmc
          \/ /\ Head(queue) # Reset /\ bmc' = Append(bmc, Arrives(Head(queue)))
             /\ sts' = sts \union {"complete"}
                       \union IF ecc /\ page[Head(queue)] # "good" THEN {"ecc"} ELSE {}
          \/ Head(queue) # Reset /\ sts' = sts \union {"complete", "failed"} /\ bmc' = bmc
          \/ sts' = sts /\ bmc' = bmc
        BY DEF Execute
    <1>3. failures' \in 0..MaxFailures
        <2>1. Fault \/ Fine BY DEF Execute
        <2> QED BY <2>1, FaultTypes DEF PageInv
    <1>4. /\ kind' = kind /\ page' = page /\ asked' = asked /\ j' = j /\ mem' = mem
          /\ result' = result /\ gInitNand_flag' = gInitNand_flag /\ reads' = reads
        BY <1>1 DEF nand
    <1>5. ChipTypeOK' BY <1>1, <1>3, <1>4 DEF PageInv, ChipTypeOK
    <1>6. PageCallInv' BY <1>1, <1>4 DEF PageInv, PageCallInv
    <1>7. Head(queue) \in Pages \union {Reset} /\ queue' \in Seq(Pages \union {Reset})
        <2>1. queue \in Seq(Pages \union {Reset}) BY DEF PageInv, ParaTypeOK
        <2> QED BY <2>1, <1>1
    <1>8. sts' \subseteq {"complete", "failed", "ecc"}
        BY <1>2 DEF PageInv, ParaTypeOK
    <1>9. bmc' \in Seq(Content)
        <2>1. bmc \in Seq(Content) BY DEF PageInv, ParaTypeOK
        <2>2. Head(queue) # Reset => Arrives(Head(queue)) \in Content
            BY <1>7, Contents DEF PageInv
        <2> QED BY <1>2, <2>1, <2>2
    <1>10. ParaTypeOK' BY <1>1, <1>4, <1>7, <1>8, <1>9 DEF PageInv, ParaTypeOK
    <1>11. ASSUME ~timedOut' PROVE ParaInv'
        <2>1. ParaInv BY <1>1, <1>11 DEF PageInv
        <2>2. pc \notin {"soft_reset", "idle", "fire", "fire_raw", "data", "data_raw"}
            BY <1>1, <2>1 DEF ParaInv, Quiet
        <2>3. ThePage' = ThePage /\ Arrives(ThePage)' = Arrives(ThePage)
              /\ \A p : Data(p)' = Data(p)
            BY <1>1, <1>4 DEF ThePage, Arrives, Data, Stored
        <2>4. PagesRead => PagesRead' BY <1>4, <2>3 DEF PagesRead
        <2>5. pc \in Raw => mem'[j'] = (IF page[ThePage] = "erased" THEN AllOnes ELSE FirstTry)'
            BY <1>4, <2>1, <2>3 DEF ParaInv, FirstTry, AllOnes
        <2>6. CASE pc \in {"check_start", "abort", "abort_raw"}
            <3>1. Waiting(Reset) BY <1>1, <2>1, <2>6 DEF ParaInv, Waiting, ResetDone, Lost
            <3>2. Head(queue) = Reset /\ Tail(queue) = <<>> BY <3>1 DEF Waiting
            <3>3. ResetDone' BY <1>1, <1>2, <3>1, <3>2 DEF Waiting, ResetDone, Lost
            <3> QED BY <1>1, <1>4, <2>1, <2>3, <2>4, <2>5, <2>6, <3>3 DEF ParaInv, ParaReading, Raw
        <2>7. CASE pc \in {"check", "check_raw"}
            <3>0. pc \in ParaReading BY <2>7 DEF ParaReading, Raw
            <3>1. Waiting(ThePage)
                BY <1>1, <2>1, <2>7 DEF ParaInv, Waiting, ReadDone, Lost
            <3>2. Head(queue) = ThePage /\ Tail(queue) = <<>> /\ ThePage # Reset
                BY <3>0, <3>1, ParaReads DEF Waiting
            <3>3. Append(<<>>, Arrives(ThePage)) = <<Arrives(ThePage)>> OBVIOUS
            <3>4. CASE pc = "check"
                <4>1. ecc BY <3>4 DEF PageInv, ParaTypeOK, Raw
                <4>2. ReadDone(EccError)'
                    BY <1>1, <1>2, <1>4, <2>3, <3>1, <3>2, <3>3, <4>1
                    DEF Waiting, ReadDone, Lost, EccError
                <4> QED BY <1>1, <1>4, <2>1, <2>3, <2>4, <3>0, <3>4, <4>2 DEF ParaInv, Raw
            <3>5. CASE pc = "check_raw"
                <4>1. ~ecc BY <3>5 DEF PageInv, ParaTypeOK
                <4>2. ReadDone({})'
                    BY <1>1, <1>2, <2>3, <3>1, <3>2, <3>3, <4>1
                    DEF Waiting, ReadDone, Lost
                <4> QED BY <1>1, <1>4, <2>1, <2>3, <2>4, <2>5, <3>0, <3>5, <4>2 DEF ParaInv, Raw
            <3> QED BY <2>7, <3>4, <3>5
        <2>8. CASE pc \notin {"check_start", "abort", "abort_raw", "check", "check_raw",
                              "soft_reset", "idle", "fire", "fire_raw", "data", "data_raw"}
            <3>1. FALSE BY <2>8 DEF PageInv, ParaTypeOK
            <3> QED BY <3>1
        <2> QED BY <2>2, <2>6, <2>7, <2>8
    <1> QED BY <1>4, <1>5, <1>6, <1>10, <1>11, ParaSide
-----------------------------------------------------------------------------
(* Both drivers *)

LEMMA PageInitInv == PageInit => PageInv
    <1> SUFFICES ASSUME PageInit PROVE PageInv OBVIOUS
    <1>1. /\ kind \in {"spi", "para"} /\ page \in [Pages -> {"good", "bad", "erased"}]
          /\ asked = [first |-> 0, len |-> 0] /\ j = 0 /\ mem = [s \in 0..MaxLength |-> Zero]
          /\ result = "none" /\ gInitNand_flag = 0 /\ reads = 0 /\ failures = 0
          /\ dma = {} /\ done = FALSE /\ ret = 0 /\ b0 \in {"buffer", "continuous"}
          /\ queue = <<>> /\ sts = {} /\ bmc = <<>> /\ ecc = FALSE /\ status = {}
          /\ timedOut = FALSE
          /\ pc = IF kind = "spi" THEN "reset" ELSE "soft_reset"
        BY DEF PageInit, ChipInit, SpiInit, ParaInit
    <1>2. 0 \in Pages /\ MaxLength \in Nat /\ MaxReads \in Nat /\ MaxFailures \in Nat
          /\ LastPage \in Nat
        BY NandAssumption DEF NandAssumption, Pages
    <1>3. Zero \in Content BY DEF Zero, Content
    <1>4. mem \in [0..MaxLength -> Content] BY <1>1, <1>3
    <1>5. asked \in [first : Pages, len : 0..MaxLength] BY <1>1, <1>2
    <1>6. ChipTypeOK BY <1>1, <1>2, <1>4, <1>5 DEF ChipTypeOK
    <1>7. pc \in {"reset", "soft_reset"} BY <1>1
    <1>8. PageCallInv BY <1>1, <1>7 DEF PageCallInv, Reading, SpiReading, ParaReading, Raw
    <1>9. SpiTypeOK BY <1>1 DEF SpiTypeOK
    <1>10. ParaTypeOK
        <2>1. queue \in Seq(Pages \union {Reset}) /\ bmc \in Seq(Content) BY <1>1
        <2>2. pc \notin {"check_raw", "abort_raw", "data_raw", "fire_raw"} BY <1>7
        <2>3. kind = "para" => pc = "soft_reset" BY <1>1
        <2> QED BY <1>1, <2>1, <2>2, <2>3 DEF ParaTypeOK
    <1>11. SpiInv BY <1>1, <1>7 DEF SpiInv, SpiPlaces, SpiReading
    <1>12. ParaInv BY <1>1, <1>7 DEF ParaInv, Quiet, ParaReading, Raw
    <1> QED BY <1>6, <1>8, <1>9, <1>10, <1>11, <1>12 DEF PageInv

LEMMA PageStep == PageInv /\ [PageNext]_pageVars => PageInv'
    <1> SUFFICES ASSUME PageInv, [PageNext]_pageVars PROVE PageInv' OBVIOUS
    <1>1. CASE SpiNext /\ UNCHANGED paraOwn
        <2>1. kind = "spi" BY <1>1 DEF SpiNext
        <2>2. CASE SpiStart BY <1>1, <2>1, <2>2, SpiStartKeeps
        <2>3. CASE SpiCall BY <1>1, <2>1, <2>3, SpiCallKeeps
        <2>4. CASE SpiProgram BY <1>1, <2>1, <2>4, SpiProgramKeeps
        <2>5. CASE SpiTrigger BY <1>1, <2>1, <2>5, SpiTriggerKeeps
        <2>6. CASE SpiWait BY <1>1, <2>1, <2>6, SpiWaitKeeps
        <2>7. CASE BCHProcess BY <1>1, <2>1, <2>7, BCHProcessKeeps
        <2>8. CASE DmaEnds BY <1>1, <2>1, <2>8, DmaEndsKeeps
        <2> QED BY <1>1, <2>2, <2>3, <2>4, <2>5, <2>6, <2>7, <2>8
                DEF SpiNext, SpiProgramStep, SpiStart
    <1>2. CASE ParaNext /\ UNCHANGED spiOwn
        <2>1. kind = "para" BY <1>2 DEF ParaNext
        <2>2. CASE ParaCall BY <1>2, <2>1, <2>2, ParaCallKeeps
        <2>3. CASE ParaReset BY <1>2, <2>1, <2>3, ParaResetKeeps
        <2>4. CASE CheckStart BY <1>2, <2>1, <2>4, CheckStartKeeps
        <2>5. CASE Fire BY <1>2, <2>1, <2>5, FireKeeps
        <2>6. CASE Check BY <1>2, <2>1, <2>6, CheckKeeps
        <2>7. CASE Abort BY <1>2, <2>1, <2>7, AbortKeeps
        <2>8. CASE DataRead BY <1>2, <2>1, <2>8, DataReadKeeps
        <2>9. CASE FireRaw BY <1>2, <2>1, <2>9, FireRawKeeps
        <2>10. CASE CheckRaw BY <1>2, <2>1, <2>10, CheckRawKeeps
        <2>11. CASE DataReadRaw BY <1>2, <2>1, <2>11, DataReadRawKeeps
        <2>12. CASE Execute BY <1>2, <2>1, <2>12, ExecuteKeeps
        <2> QED BY <1>2, <2>2, <2>3, <2>4, <2>5, <2>6, <2>7, <2>8, <2>9, <2>10, <2>11, <2>12
                DEF ParaNext, ParaProgramStep
    <1>3. CASE UNCHANGED pageVars
        <2>1. UNCHANGED nand /\ pc' = pc /\ failures' = failures /\ UNCHANGED spiOwn
              /\ UNCHANGED paraOwn
            BY <1>3 DEF pageVars, shared
        <2>2. /\ kind' = kind /\ page' = page /\ asked' = asked /\ j' = j /\ mem' = mem
              /\ result' = result /\ gInitNand_flag' = gInitNand_flag /\ reads' = reads
            BY <2>1 DEF nand
        <2>3. ChipTypeOK' /\ PageCallInv' BY <2>1, <2>2 DEF PageInv, ChipTypeOK, PageCallInv
        <2>4. SpiTypeOK' BY <2>1, <2>2 DEF PageInv, SpiTypeOK, spiOwn
        <2>5. ParaTypeOK' BY <2>1, <2>2 DEF PageInv, ParaTypeOK, paraOwn
        <2>6. /\ ThePage' = ThePage
              /\ \A p : Data(p)' = Data(p) /\ Stored("parity", p)' = Stored("parity", p)
            BY <2>2 DEF ThePage, Data, Stored
        <2>7. PagesRead' = PagesRead BY <2>2, <2>6 DEF PagesRead, Data, Stored
        <2>8. SpiInv => SpiInv'
            <3>1. ParityGot' = ParityGot BY <2>1, <2>6 DEF ParityGot, spiOwn
            <3>2. DataGo' = DataGo /\ ParityGo' = ParityGo /\ OneHere' = OneHere
                BY <2>2, <2>6, <3>1 DEF DataGo, ParityGo, OneHere
            <3>3. Data(ThePage)' = Data(ThePage) BY <2>2, <2>6 DEF Data, Stored
            <3>4. SpiPlaces => SpiPlaces' BY <2>1, <2>2, <2>7 DEF SpiPlaces, spiOwn
            <3> QED BY <2>1, <2>2, <3>2, <3>3, <3>4 DEF SpiInv, spiOwn
        <2>9. ParaInv => ParaInv'
            <3>1. /\ queue' = queue /\ sts' = sts /\ bmc' = bmc /\ ecc' = ecc
                  /\ status' = status /\ timedOut' = timedOut
                BY <2>1 DEF paraOwn
            <3>2. Arrives(ThePage)' = Arrives(ThePage) /\ EccError' = EccError
                  /\ FirstTry' = FirstTry
                BY <2>2, <2>6, <3>1 DEF Arrives, EccError, FirstTry
            <3> QED BY <2>1, <2>2, <2>6, <2>7, <3>1, <3>2
                    DEF ParaInv, Quiet, Waiting, ResetDone, ReadDone, Lost, AllOnes, Reset
        <2> QED BY <2>1, <2>2, <2>3, <2>4, <2>5, <2>8, <2>9 DEF PageInv, paraOwn
    <1> QED BY <1>1, <1>2, <1>3 DEF PageNext

(* The inductive invariant of the page reads: at most one transfer or command
   is where the program thinks it is. *)
THEOREM PageInvariance == PageSpec => []PageInv
    <1> QED BY PageInitInv, PageStep, PTL DEF PageSpec

(* The variables of both drivers have their types. *)
THEOREM PageTypeCorrect == PageSpec => [](ChipTypeOK /\ SpiTypeOK /\ ParaTypeOK)
    <1>1. PageInv => ChipTypeOK /\ SpiTypeOK /\ ParaTypeOK BY DEF PageInv
    <1> QED BY <1>1, PageInvariance, PTL

(* A read of either driver that reported success has brought every page that
   was asked for, in order, and none beyond correction is among them - the
   parallel driver as long as no command was given up
   (spi_nand.c:690-717, para_nand.c:283-328, xboot.c:1576-1660). *)
THEOREM GoodPageReadIsWhole == PageSpec => []GoodReadIsWhole
    <1>1. PageInv => GoodReadIsWhole
        <2> SUFFICES ASSUME PageInv PROVE GoodReadIsWhole OBVIOUS
        <2>1. result = "good" => pc = "idle" \/ asked.len = 0
            BY DEF PageInv, PageCallInv
        <2>2. result = "good" => j = asked.len BY DEF PageInv, ChipTypeOK
        <2>3. result = "good" /\ PagesRead => PagesWhole BY <2>2 DEF PagesRead, PagesWhole
        <2>4. asked.len = 0 => PagesWhole BY DEF PagesWhole
        <2>5. SpiReadIsWhole
            BY <2>1, <2>3, <2>4 DEF SpiReadIsWhole, PageInv, SpiInv, SpiPlaces
        <2>6. ParaReadIsWhole
            BY <2>1, <2>3, <2>4 DEF ParaReadIsWhole, PageInv, ParaInv
        <2> QED BY <2>5, <2>6 DEF GoodReadIsWhole
    <1> QED BY <1>1, PageInvariance, PTL
=============================================================================
