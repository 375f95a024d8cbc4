--------------------------- MODULE SmpBoot_proofs ---------------------------
(***************************************************************************)
(* Proofs about SmpBoot for every table of contents: what core 0 has       *)
(* written is in memory before any core needs it, in whatever order the    *)
(* cores run and however late the writes arrive.                           *)
(***************************************************************************)
EXTENDS SmpBoot, SequenceTheorems, TLAPS

(* The locations that are written with one value only, and that value.  The
   words the cores wait for are not among them: a wake-up writes them twice. *)
Once == (Region \X {0}) \union ({"vector"} \X Core) \union {<<"word", ApWord>>}
Final(l) == IF l[1] = "word" THEN "ap" ELSE "set"

At(r) == <<r, 0>>
Ap == <<"word", ApWord>>

(* a write that gives such a location its value, and one that wakes no core *)
OnceWrite == {w \in Loc \X Value : w[1] \in Once => w[2] = Final(w[1])}
QuietWrite == {w \in OnceWrite : w[2] # "wait64"}

(* the locations with a write on its way; the value is there or on its way *)
Locs(writes) == {writes[k][1] : k \in 1..Len(writes)}
WillBe(l) == mem[l] = Final(l) \/ l \in Locs(store)

Core0Late == {"dsb32", "a64", "dsb64", "sev", "boot_cpuN", "bl31"}
Core0Aarch64 == Core0Late \ {"dsb32"}
Core0Woken == {"dsb64", "sev", "boot_cpuN", "bl31"}

(* the images of the fip that the table names: none of them is copied when the
   table does not begin with its name *)
Found == boot = "warm" \/ named
Images == {At(toc[k]) : k \in {x \in 1..Len(toc) : Found /\ toc[x] \in Wanted}}
(* what core 0 has written before it asks for AArch64 *)
Prepared == Images \union {At("modules"), At("tzc"), At("a64up")} \union ({"vector"} \X Core)
            \union (IF boot = "cold" THEN {Ap} ELSE {})

StoreInv ==
    /\ store \in Seq(OnceWrite)
    /\ pc[0] = "a64" => store = <<>>

(* what has been written when core 0 is where it is *)
WrittenInv ==
    /\ n <= Len(toc)
    /\ boot = "warm" => /\ pc[0] \notin {"tfa", "mon_shell", "a32"}
                        /\ mem[At("bl31")] = "set" /\ mem[At("optee")] = "set"
                        /\ mem[At("xboot")] = "set"
    /\ boot = "cold" => pc[0] # "restore"
    /\ pc[0] = "mon_shell" => ~named
    /\ pc[0] = "tfa" => \A k \in 1..n : toc[k] \in Wanted => WillBe(At(toc[k]))
    /\ pc[0] = "a32" => \A l \in Images : WillBe(l)
    /\ pc[0] \in Core0Late => \A l \in Prepared : WillBe(l)
    /\ pc[0] \in Core0Aarch64 => \A l \in Prepared : mem[l] = Final(l)
    /\ pc[0] \in Core0Woken => WillBe(At("xboot"))
    /\ pc[0] \in Core0Woken \ {"dsb64"} => mem[At("xboot")] = "set"

(* The other cores are woken by core 0 in AArch64, and the buffer of xBoot is
   cleared before the word that wakes a core is written. *)
WakeInv ==
    /\ pc[0] \notin Core0Woken => /\ store \in Seq(QuietWrite)
                                  /\ \A l \in Loc : mem[l] # "wait64"
    /\ (\E l \in Loc : mem[l] = "wait64") => mem[At("xboot")] = "set"
    /\ \A k \in 1..Len(store) : store[k][2] = "wait64" =>
           mem[At("xboot")] = "set" \/ \E j \in 1..k - 1 : store[j][1] = At("xboot")
    /\ \A i \in Other : pc[i] \in {"rmr", "boot_cpuN", "bl31"} =>
           pc[0] \in Core0Woken /\ mem[At("xboot")] = "set"

IInv == TypeOK /\ StoreInv /\ WrittenInv /\ WakeInv

-----------------------------------------------------------------------------
(* Facts about sequences of writes *)

(* The constant sets, element by element. *)
LEMMA LocFacts ==
    /\ \A r \in Region : <<r, 0>> \in Loc /\ <<r, 0>> \in Once /\ Final(<<r, 0>>) = "set"
    /\ \A i \in Core : /\ <<"vector", i>> \in Loc /\ <<"vector", i>> \in Once
                      /\ Final(<<"vector", i>>) = "set"
    /\ Ap \in Loc /\ Ap \in Once /\ Final(Ap) = "ap"
    /\ \A v \in Word : /\ <<"word", v>> \in Loc
                      /\ v # ApWord => <<"word", v>> \notin Once
    /\ Once \subseteq Loc
    /\ \A l \in Loc : Final(l) \in Value
BY DEF Loc, Once, Final, Region, Core, Word, ApWord, Ap, Value

(* Core 0's writes are appended, so their locations are added. *)
LEMMA LocsConcat ==
    ASSUME NEW S, NEW s \in Seq(S), NEW t \in Seq(S)
    PROVE  Locs(s \o t) = Locs(s) \union Locs(t)
<1>1. /\ s \o t \in Seq(S) /\ Len(s \o t) = Len(s) + Len(t)
      /\ \A i \in 1 .. Len(s) + Len(t) :
            (s \o t)[i] = IF i <= Len(s) THEN s[i] ELSE t[i - Len(s)]
  BY ConcatProperties
<1>2. Len(s) \in Nat /\ Len(t) \in Nat
  BY LenProperties
<1>3. ASSUME NEW l \in Locs(s \o t)
      PROVE  l \in Locs(s) \union Locs(t)
  <2>1. PICK i \in 1 .. Len(s) + Len(t) : l = (s \o t)[i][1]
    BY <1>1, <1>3 DEF Locs
  <2>2. CASE i <= Len(s)
    BY <1>1, <1>2, <2>1, <2>2 DEF Locs
  <2>3. CASE i > Len(s)
    <3>1. i - Len(s) \in 1 .. Len(t) /\ l = t[i - Len(s)][1]
      BY <1>1, <1>2, <2>1, <2>3
    <3>2. QED  BY <3>1 DEF Locs
  <2>4. QED  BY <1>2, <2>2, <2>3
<1>4. ASSUME NEW i \in 1 .. Len(s)
      PROVE  s[i][1] \in Locs(s \o t)
  <2>1. i \in 1 .. Len(s) + Len(t) /\ (s \o t)[i] = s[i]
    BY <1>1, <1>2
  <2>2. QED  BY <1>1, <2>1 DEF Locs
<1>5. ASSUME NEW i \in 1 .. Len(t)
      PROVE  t[i][1] \in Locs(s \o t)
  <2>1. Len(s) + i \in 1 .. Len(s) + Len(t) /\ (s \o t)[Len(s) + i] = t[i]
    BY <1>1, <1>2
  <2>2. QED  BY <1>1, <2>1 DEF Locs
<1>6. QED  BY <1>3, <1>4, <1>5 DEF Locs

(* What was on its way or in memory still is after more writes. *)
LEMMA WriteKeeps ==
    ASSUME NEW S, store \in Seq(S), NEW w \in Seq(S), Write(w), mem' = mem
    PROVE  /\ store' \in Seq(S)
           /\ \A l : WillBe(l) => WillBe(l)'
           /\ \A l \in Locs(w) : WillBe(l)'
<1>1. Locs(store') = Locs(store) \union Locs(w)
  BY LocsConcat DEF Write
<1>2. store' \in Seq(S)
  BY ConcatProperties DEF Write
<1>3. QED  BY <1>1, <1>2 DEF WillBe, Locs

(* The writes both starts have in common: the code of a64up and the reset
   vector of every core. *)
LEMMA VectorWrites ==
    /\ SetVectors \in Seq(QuietWrite)
    /\ Locs(SetVectors) = {At("a64up")} \union ({"vector"} \X Core)
<1> DEFINE v == [k \in 1..4 |-> <<<<"vector", k - 1>>, "set">>]
<1>1. Put("a64up") \in QuietWrite
  BY LocFacts DEF Put, QuietWrite, OnceWrite, Region, Value
<1>2. ASSUME NEW k \in 1..4
      PROVE  <<<<"vector", k - 1>>, "set">> \in QuietWrite
  <2>1. k - 1 \in Core
    BY DEF Core
  <2>2. QED  BY <2>1, LocFacts DEF QuietWrite, OnceWrite, Value
<1>3. v \in Seq(QuietWrite) /\ Len(v) = 4
  BY <1>2
<1>4. <<Put("a64up")>> \in Seq(QuietWrite) /\ Locs(<<Put("a64up")>>) = {At("a64up")}
  BY <1>1 DEF Locs, Put, At
<1>5. Locs(v) = {"vector"} \X Core
  <2>1. Locs(v) = {<<"vector", k - 1>> : k \in 1..4}
    BY <1>3 DEF Locs
  <2>2. \A i \in Core : i + 1 \in 1..4 /\ (i + 1) - 1 = i
    BY DEF Core
  <2>3. \A k \in 1..4 : k - 1 \in Core
    BY DEF Core
  <2>4. QED  BY <2>1, <2>2, <2>3
<1>6. SetVectors = <<Put("a64up")>> \o v
  BY DEF SetVectors
<1>7. SetVectors \in Seq(QuietWrite)
  BY <1>3, <1>4, <1>6, ConcatProperties
<1> HIDE DEF v
<1>8. Locs(SetVectors) = Locs(<<Put("a64up")>>) \union Locs(v)
  <2> DEFINE a == <<Put("a64up")>>
  <2>1. a \in Seq(QuietWrite) /\ v \in Seq(QuietWrite)
    BY <1>3, <1>4
  <2> HIDE DEF a
  <2>2. Locs(a \o v) = Locs(a) \union Locs(v)
    BY <2>1, LocsConcat
  <2>3. QED  BY <1>6, <2>2 DEF a
<1>9. QED  BY <1>4, <1>5, <1>7, <1>8

-----------------------------------------------------------------------------
(* The invariant *)

LEMMA PreparedOnce ==
    ASSUME TypeOK
    PROVE  /\ Images \subseteq Once
           /\ Prepared \subseteq Once
<1>1. Images \subseteq Once
  BY LocFacts DEF Images, At, Wanted, Region
<1>2. {At("modules"), At("tzc"), At("a64up")} \subseteq Once
  BY LocFacts DEF At, Region
<1>3. ({"vector"} \X Core) \subseteq Once
  BY DEF Once
<1>4. QED  BY <1>1, <1>2, <1>3, LocFacts DEF Prepared

LEMMA InitIInv == Init => IInv
<1> SUFFICES ASSUME Init PROVE IInv
  OBVIOUS
<1>1. toc \in Seq({"bl31", "optee", "other"}) /\ Len(toc) <= MaxToc
  <2>1. PICK k \in 0..MaxToc : toc \in [1..k -> {"bl31", "optee", "other"}]
    BY DEF Init
  <2>2. QED  BY <2>1, SmpBootAssumption
<1>2. store \in Seq(OnceWrite) /\ store \in Seq(QuietWrite) /\ store \in Seq(Loc \X Value)
      /\ Len(store) = 0
  BY EmptySeq DEF Init
<1>3. /\ pc \in [Core -> Core0Place \union OtherPlace]
      /\ pc[0] = IF boot = "cold" THEN "tfa" ELSE "restore"
      /\ \A i \in Other : pc[i] = "look"
  <2>1. pc = [i \in Core |-> IF i # 0 THEN "look"
                             ELSE IF boot = "cold" THEN "tfa" ELSE "restore"]
    BY DEF Init
  <2>2. 0 \in Core /\ \A i \in Other : i \in Core /\ i # 0
    BY DEF Core, Other
  <2>3. \A i \in Core : pc[i] \in Core0Place \union OtherPlace
    BY <2>1 DEF Core0Place, OtherPlace
  <2>4. pc \in [Core -> Core0Place \union OtherPlace]
    BY <2>1, <2>3
  <2>5. QED  BY <2>1, <2>2, <2>4
<1>4. /\ mem \in [Loc -> Value]
      /\ \A l \in Loc : mem[l] # "wait64"
      /\ boot = "warm" => mem[At("bl31")] = "set" /\ mem[At("optee")] = "set"
                            /\ mem[At("xboot")] = "set"
  BY LocFacts DEF Init, Kept, Value, At, Region
<1>5. TypeOK
  BY <1>1, <1>2, <1>3, <1>4, SmpBootAssumption DEF TypeOK, Init, Core0Place, OtherPlace
<1>6. StoreInv
  BY <1>2, <1>3 DEF StoreInv, Init
<1>7. WrittenInv
  BY <1>1, <1>3, <1>4, LenProperties DEF WrittenInv, Init, Core0Late, Core0Aarch64, Core0Woken
<1>8. WakeInv
  BY <1>2, <1>3, <1>4 DEF WakeInv, Core0Woken, Init
<1>9. QED  BY <1>5, <1>6, <1>7, <1>8 DEF IInv

(* A step of core 0 that moves it on and writes w: what the invariant says of
   the writes is kept, and nobody else has moved. *)
LEMMA CoreZeroWrites ==
    ASSUME IInv, NEW w \in Seq(QuietWrite), Write(w), mem' = mem,
           pc[0] \notin Core0Woken
    PROVE  /\ store' \in Seq(OnceWrite)
           /\ store' \in Seq(QuietWrite)
           /\ store' \in Seq(Loc \X Value)
           /\ \A l : WillBe(l) => WillBe(l)'
           /\ \A l \in Locs(w) : WillBe(l)'
           /\ \A k \in 1..Len(store') : store'[k][2] # "wait64"
<1>1. store \in Seq(QuietWrite)
  BY DEF IInv, WakeInv
<1>2. QuietWrite \subseteq OnceWrite /\ OnceWrite \subseteq Loc \X Value
  BY DEF QuietWrite, OnceWrite
<1>3. /\ store' \in Seq(QuietWrite)
      /\ \A l : WillBe(l) => WillBe(l)'
      /\ \A l \in Locs(w) : WillBe(l)'
  BY <1>1, WriteKeeps
<1>4. store' \in Seq(OnceWrite) /\ store' \in Seq(Loc \X Value)
  BY <1>2, <1>3, SeqMonotonic
<1>5. \A k \in 1..Len(store') : store'[k] \in QuietWrite
  BY <1>3, ElementOfSeq
<1>6. QED  BY <1>3, <1>4, <1>5 DEF QuietWrite

(* The steps of core 0 that write. *)
LEMMA LoadEntryIInv == IInv /\ LoadEntry => IInv'
<1> SUFFICES ASSUME IInv, LoadEntry PROVE IInv'
  OBVIOUS
<1> DEFINE w == IF toc[n + 1] \in Wanted THEN <<Put(toc[n + 1])>> ELSE <<>>
<1>1. /\ pc[0] = "tfa" /\ n \in Nat /\ n + 1 \in 1..Len(toc) /\ Len(toc) \in Nat
      /\ toc \in Seq({"bl31", "optee", "other"})
  BY LenProperties DEF IInv, TypeOK, LoadEntry
<1>2. /\ n' = n + 1 /\ Write(w) /\ mem' = mem /\ pc' = pc /\ toc' = toc /\ boot' = boot
      /\ event' = event /\ named' = named
  BY DEF LoadEntry
<1>3. /\ w \in Seq(QuietWrite)
      /\ toc[n + 1] \in Wanted => At(toc[n + 1]) \in Locs(w)
  <2>1. CASE toc[n + 1] \in Wanted
    <3>1. Put(toc[n + 1]) \in QuietWrite
      BY <2>1, LocFacts DEF Put, QuietWrite, OnceWrite, Region, Value, Wanted
    <3>2. QED  BY <2>1, <3>1 DEF Locs, Put, At
  <2>2. CASE toc[n + 1] \notin Wanted
    BY <2>2, EmptySeq
  <2>3. QED  BY <2>1, <2>2
<1> HIDE DEF w
<1>4. /\ store' \in Seq(OnceWrite) /\ store' \in Seq(QuietWrite) /\ store' \in Seq(Loc \X Value)
      /\ \A l : WillBe(l) => WillBe(l)'
      /\ \A l \in Locs(w) : WillBe(l)'
      /\ \A k \in 1..Len(store') : store'[k][2] # "wait64"
  <2>1. pc[0] \notin Core0Woken
    BY <1>1 DEF Core0Woken
  <2>2. QED  BY <1>2, <1>3, <2>1, CoreZeroWrites
<1>5. TypeOK'
  BY <1>1, <1>2, <1>4, SmpBootAssumption DEF IInv, TypeOK
<1>6. StoreInv'
  BY <1>1, <1>2, <1>4 DEF StoreInv
<1>7. WrittenInv'
  <2> DEFINE Later(l) == mem'[l] = Final(l) \/ l \in Locs(store')
  <2>a. \A l : WillBe(l)' <=> Later(l)
    BY DEF WillBe, Locs
  <2>b. \A l : WillBe(l) \/ l \in Locs(w) => Later(l)
    BY <1>4, <2>a
  <2> HIDE DEF Later
  <2>1. \A k \in 1..n : toc[k] \in Wanted => Later(At(toc[k]))
    BY <1>1, <2>b DEF IInv, WrittenInv
  <2>2. toc[n + 1] \in Wanted => Later(At(toc[n + 1]))
    BY <1>3, <2>b
  <2>3. \A k \in 1..n' : k \in 1..n \/ k = n + 1
    BY <1>1, <1>2
  <2>4. \A k \in 1..n' : toc'[k] \in Wanted => WillBe(At(toc[k]))'
    <3>1. \A k \in 1..n' : toc[k] \in Wanted => Later(At(toc[k]))
      BY <2>1, <2>2, <2>3
    <3>2. QED  BY <1>2, <2>a, <3>1 DEF At
  <2>5. n' <= Len(toc')
    BY <1>1, <1>2
  <2>6. boot # "warm" /\ boot' # "warm"
    BY <1>1, <1>2 DEF IInv, WrittenInv
  <2>7. QED  BY <1>1, <1>2, <2>4, <2>5, <2>6
             DEF WrittenInv, Core0Late, Core0Aarch64, Core0Woken
<1>8. WakeInv'
  <2>1. pc[0] \notin Core0Woken /\ pc'[0] \notin Core0Woken
    BY <1>1, <1>2 DEF Core0Woken
  <2>2. QED  BY <1>2, <1>4, <2>1 DEF IInv, WakeInv
<1>9. QED  BY <1>5, <1>6, <1>7, <1>8 DEF IInv

(* After the last entry every image is on its way. *)
LEMMA AllLoadedIInv == IInv /\ AllLoaded => IInv'
<1> SUFFICES ASSUME IInv, AllLoaded PROVE IInv'
  OBVIOUS
<1>1. /\ pc[0] = "tfa" /\ n = Len(toc) /\ pc'[0] = "a32" /\ \A i \in Other : pc'[i] = pc[i]
      /\ pc' \in [Core -> Core0Place \union OtherPlace]
      /\ UNCHANGED <<boot, named, toc, n, mem, store, event>>
  BY DEF IInv, TypeOK, AllLoaded, Goto, Core, Other, Core0Place
<1>2. TypeOK'
  BY <1>1 DEF IInv, TypeOK, Core0Place
<1>3. StoreInv'
  BY <1>1 DEF IInv, StoreInv
<1>4. WrittenInv'
  <2>1. \A l \in Images : WillBe(l)
    BY <1>1 DEF IInv, WrittenInv, Images
  <2>2. Images' = Images
    BY <1>1 DEF Images, Found
  <2>3. QED  BY <1>1, <2>1, <2>2
             DEF IInv, WrittenInv, WillBe, Core0Late, Core0Aarch64, Core0Woken
<1>5. WakeInv'
  <2>1. pc[0] \notin Core0Woken /\ pc'[0] \notin Core0Woken
    BY <1>1 DEF Core0Woken
  <2>2. QED  BY <1>1, <2>1 DEF IInv, WakeInv
<1>6. QED  BY <1>2, <1>3, <1>4, <1>5 DEF IInv

(* Both starts end with the writes of VectorWrites, and then all that must be
   prepared is on its way. *)
LEMMA PreparedWritten ==
    ASSUME IInv, NEW w \in Seq(QuietWrite), Write(w), Goto(0, "dsb32"),
           UNCHANGED <<boot, named, toc, n, mem, event>>,
           \/ pc[0] = "a32" /\ Ap \in Locs(w)
           \/ pc[0] = "restore",
           {At("modules"), At("tzc"), At("a64up")} \union ({"vector"} \X Core) \subseteq Locs(w)
    PROVE  IInv'
<1>1. /\ pc[0] \in {"a32", "restore"}
      /\ pc'[0] = "dsb32" /\ \A i \in Other : pc'[i] = pc[i]
      /\ pc' \in [Core -> Core0Place \union OtherPlace]
  BY DEF IInv, TypeOK, Goto, Core, Other, Core0Place
<1>2. /\ store' \in Seq(OnceWrite) /\ store' \in Seq(QuietWrite) /\ store' \in Seq(Loc \X Value)
      /\ \A l : WillBe(l) => WillBe(l)'
      /\ \A l \in Locs(w) : WillBe(l)'
      /\ \A k \in 1..Len(store') : store'[k][2] # "wait64"
  <2>1. pc[0] \notin Core0Woken
    BY <1>1 DEF Core0Woken
  <2>2. QED  BY <2>1, CoreZeroWrites
<1>3. TypeOK'
  BY <1>1, <1>2 DEF IInv, TypeOK, Core0Place
<1>4. StoreInv'
  BY <1>1, <1>2 DEF StoreInv
<1>5. \A l \in Prepared' : WillBe(l)'
  <2>1. Prepared' = Prepared
    BY DEF Prepared, Images, Found
  <2>2. \A l \in Images : WillBe(l)'
    <3>1. CASE pc[0] = "a32"
      BY <1>2, <3>1 DEF IInv, WrittenInv
    <3>2. CASE pc[0] = "restore"
      <4>1. boot = "warm"
        BY <3>2 DEF IInv, TypeOK, WrittenInv
      <4>2. mem[At("bl31")] = "set" /\ mem[At("optee")] = "set"
        BY <4>1 DEF IInv, WrittenInv
      <4>3. \A l \in Images : mem[l] = "set" /\ Final(l) = "set"
        BY <4>2, LocFacts DEF Images, Wanted, At, Region
      <4>4. QED  BY <1>2, <4>3 DEF WillBe
    <3>3. QED  BY <1>1, <3>1, <3>2
  <2>3. boot = "cold" => pc[0] = "a32"
    BY <1>1 DEF IInv, WrittenInv
  <2>4. Prepared \subseteq Images \union Locs(w)
    BY <2>3 DEF Prepared
  <2>5. QED  BY <1>2, <2>1, <2>2, <2>4
<1>6. WrittenInv'
  BY <1>1, <1>5 DEF IInv, WrittenInv, Core0Late, Core0Aarch64, Core0Woken
<1>7. WakeInv'
  <2>1. pc[0] \notin Core0Woken /\ pc'[0] \notin Core0Woken
    BY <1>1 DEF Core0Woken
  <2>2. QED  BY <1>1, <1>2, <2>1 DEF IInv, WakeInv
<1>8. QED  BY <1>3, <1>4, <1>6, <1>7 DEF IInv

(* A shell that is left has copied nothing, and no image is expected. *)
LEMMA QuitShellIInv == IInv /\ QuitShell => IInv'
<1> SUFFICES ASSUME IInv, QuitShell PROVE IInv'
  OBVIOUS
<1>1. /\ pc[0] = "mon_shell" /\ pc'[0] = "a32" /\ \A i \in Other : pc'[i] = pc[i]
      /\ pc' \in [Core -> Core0Place \union OtherPlace]
      /\ UNCHANGED <<boot, named, toc, n, mem, store, event>>
  BY DEF IInv, TypeOK, QuitShell, Goto, Core, Other, Core0Place
<1>2. TypeOK'
  BY <1>1 DEF IInv, TypeOK, Core0Place
<1>3. StoreInv'
  BY <1>1 DEF IInv, StoreInv
<1>4. WrittenInv'
  <2>1. boot # "warm" /\ ~named
    BY <1>1 DEF IInv, WrittenInv
  <2>2. Images = {} /\ Images' = {}
    BY <1>1, <2>1 DEF Images, Found
  <2>3. QED  BY <1>1, <2>1, <2>2
             DEF IInv, WrittenInv, Core0Late, Core0Aarch64, Core0Woken
<1>5. WakeInv'
  <2>1. pc[0] \notin Core0Woken /\ pc'[0] \notin Core0Woken
    BY <1>1 DEF Core0Woken
  <2>2. QED  BY <1>1, <2>1 DEF IInv, WakeInv
<1>6. QED  BY <1>2, <1>3, <1>4, <1>5 DEF IInv

LEMMA GoA32ToA64IInv == IInv /\ GoA32ToA64 => IInv'
<1> SUFFICES ASSUME IInv, GoA32ToA64 PROVE IInv'
  OBVIOUS
<1> DEFINE a == <<Put("modules"), Put("tzc"), <<Ap, "ap">>>>
<1>1. a \in Seq(QuietWrite)
  <2>1. Put("modules") \in QuietWrite /\ Put("tzc") \in QuietWrite /\ <<Ap, "ap">> \in QuietWrite
    BY LocFacts DEF Put, QuietWrite, OnceWrite, Region, Value
  <2>2. QED  BY <2>1
<1>2. Locs(a) = {At("modules"), At("tzc"), Ap}
  <2>1. Len(a) = 3
    OBVIOUS
  <2>2. a[1][1] = At("modules") /\ a[2][1] = At("tzc") /\ a[3][1] = Ap
    BY DEF Put, At
  <2>3. QED  BY <2>1, <2>2 DEF Locs
<1>3. Write(a \o SetVectors)
  BY DEF GoA32ToA64, Ap
<1> HIDE DEF a
<1>4. a \o SetVectors \in Seq(QuietWrite)
  BY <1>1, VectorWrites, ConcatProperties
<1>5. Locs(a \o SetVectors) = Locs(a) \union Locs(SetVectors)
  BY <1>1, VectorWrites, LocsConcat
<1>6. {At("modules"), At("tzc"), Ap, At("a64up")} \union ({"vector"} \X Core)
          \subseteq Locs(a \o SetVectors)
  BY <1>2, <1>5, VectorWrites
<1>7. /\ pc[0] = "a32" /\ Goto(0, "dsb32")
      /\ UNCHANGED <<boot, named, toc, n, mem, event>>
  BY DEF GoA32ToA64
<1>8. QED  BY <1>3, <1>4, <1>6, <1>7, PreparedWritten

LEMMA RestoreIInv == IInv /\ Restore => IInv'
<1> SUFFICES ASSUME IInv, Restore PROVE IInv'
  OBVIOUS
<1> DEFINE a == <<Put("modules")>>
           b == [k \in 1..6 |-> <<<<"word", k - 1>>, "saved">>]
           c == <<Put("tzc")>>
<1>1. a \in Seq(QuietWrite) /\ Locs(a) = {At("modules")}
  <2>1. Put("modules") \in QuietWrite
    BY LocFacts DEF Put, QuietWrite, OnceWrite, Region, Value
  <2>2. QED  BY <2>1 DEF Locs, Put, At
<1>2. b \in Seq(QuietWrite)
  <2>1. ASSUME NEW k \in 1..6
        PROVE  <<<<"word", k - 1>>, "saved">> \in QuietWrite
    <3>1. k - 1 \in Word /\ k - 1 # ApWord
      BY DEF Word, ApWord
    <3>2. <<"word", k - 1>> \in Loc /\ <<"word", k - 1>> \notin Once
      BY <3>1 DEF Loc, Once, Region
    <3>3. QED  BY <3>2 DEF QuietWrite, OnceWrite, Value
  <2>2. QED  BY <2>1
<1>3. c \in Seq(QuietWrite) /\ Locs(c) = {At("tzc")}
  <2>1. Put("tzc") \in QuietWrite
    BY LocFacts DEF Put, QuietWrite, OnceWrite, Region, Value
  <2>2. QED  BY <2>1 DEF Locs, Put, At
<1>4. Write(a \o b \o c \o SetVectors)
  BY DEF Restore
<1> HIDE DEF a, b, c
<1>5. a \o b \in Seq(QuietWrite) /\ a \o b \o c \in Seq(QuietWrite)
  BY <1>1, <1>2, <1>3, ConcatProperties
<1>6. a \o b \o c \o SetVectors \in Seq(QuietWrite)
  BY <1>5, VectorWrites, ConcatProperties
<1>7. Locs(a \o b \o c \o SetVectors) = Locs(a \o b \o c) \union Locs(SetVectors)
  <2> DEFINE d == a \o b \o c
  <2>1. d \in Seq(QuietWrite)
    BY <1>5
  <2> HIDE DEF d
  <2>2. Locs(d \o SetVectors) = Locs(d) \union Locs(SetVectors)
    BY <2>1, VectorWrites, LocsConcat
  <2>3. QED  BY <2>2 DEF d
<1>8. Locs(a \o b \o c) = Locs(a \o b) \union Locs(c)
  <2> DEFINE d == a \o b
  <2>1. d \in Seq(QuietWrite) /\ c \in Seq(QuietWrite)
    BY <1>3, <1>5
  <2> HIDE DEF d
  <2>2. Locs(d \o c) = Locs(d) \union Locs(c)
    BY <2>1, LocsConcat
  <2>3. QED  BY <2>2 DEF d
<1>9. Locs(a \o b) = Locs(a) \union Locs(b)
  BY <1>1, <1>2, LocsConcat
<1>10. {At("modules"), At("tzc"), At("a64up")} \union ({"vector"} \X Core)
          \subseteq Locs(a \o b \o c \o SetVectors)
  BY <1>1, <1>3, <1>7, <1>8, <1>9, VectorWrites
<1>11. /\ pc[0] = "restore" /\ Goto(0, "dsb32")
       /\ UNCHANGED <<boot, named, toc, n, mem, event>>
  BY DEF Restore
<1>12. QED  BY <1>4, <1>6, <1>10, <1>11, PreparedWritten

(* The dsb before the switch to AArch64 waits for all of it. *)
LEMMA SwitchToA64IInv == IInv /\ SwitchToA64 => IInv'
<1> SUFFICES ASSUME IInv, SwitchToA64 PROVE IInv'
  OBVIOUS
<1>1. /\ pc[0] = "dsb32" /\ store = <<>> /\ pc'[0] = "a64" /\ \A i \in Other : pc'[i] = pc[i]
      /\ pc' \in [Core -> Core0Place \union OtherPlace]
      /\ UNCHANGED <<boot, named, toc, n, mem, store, event>>
  BY DEF IInv, TypeOK, SwitchToA64, Goto, Core, Other, Core0Place, Dsb
<1>2. TypeOK'
  BY <1>1 DEF IInv, TypeOK, Core0Place
<1>3. StoreInv'
  BY <1>1 DEF IInv, StoreInv
<1>4. WrittenInv'
  <2>1. Locs(store) = {}
    BY <1>1 DEF Locs
  <2>2. \A l \in Prepared : mem[l] = Final(l)
    BY <1>1, <2>1 DEF IInv, WrittenInv, WillBe, Core0Late
  <2>3. Prepared' = Prepared
    BY <1>1 DEF Prepared, Images, Found
  <2>4. QED  BY <1>1, <2>2, <2>3
             DEF IInv, WrittenInv, WillBe, Core0Late, Core0Aarch64, Core0Woken
<1>5. WakeInv'
  <2>1. pc[0] \notin Core0Woken /\ pc'[0] \notin Core0Woken
    BY <1>1 DEF Core0Woken
  <2>2. QED  BY <1>1, <2>1 DEF IInv, WakeInv
<1>6. QED  BY <1>2, <1>3, <1>4, <1>5 DEF IInv

LEMMA BadTocIInv == IInv /\ BadToc => IInv'
<1> SUFFICES ASSUME IInv, BadToc PROVE IInv'
  OBVIOUS
<1>1. /\ pc[0] = "tfa" /\ pc'[0] = "mon_shell" /\ \A i \in Other : pc'[i] = pc[i]
      /\ pc' \in [Core -> Core0Place \union OtherPlace]
      /\ UNCHANGED <<boot, named, toc, n, mem, store, event>>
  BY DEF IInv, TypeOK, BadToc, Goto, Core, Other, Core0Place
<1>2. TypeOK'
  BY <1>1 DEF IInv, TypeOK, Core0Place
<1>3. StoreInv'
  BY <1>1 DEF IInv, StoreInv
<1>4. WrittenInv'
  <2>1. ~named
    BY <1>1 DEF BadToc
  <2>2. QED  BY <1>1, <2>1 DEF IInv, WrittenInv, Core0Late, Core0Aarch64, Core0Woken
<1>5. WakeInv'
  <2>1. pc[0] \notin Core0Woken /\ pc'[0] \notin Core0Woken
    BY <1>1 DEF Core0Woken
  <2>2. QED  BY <1>1, <2>1 DEF IInv, WakeInv
<1>6. QED  BY <1>2, <1>3, <1>4, <1>5 DEF IInv

(* Core 0 in AArch64: the buffer of xBoot before the words of the others. *)
LEMMA StartA64IInv == IInv /\ StartA64 => IInv'
<1> SUFFICES ASSUME IInv, StartA64 PROVE IInv'
  OBVIOUS
<1> DEFINE a == IF boot = "cold" THEN <<Put("xboot")>> ELSE <<>>
           b == [i \in Other |-> <<<<"word", WaitWord(i)>>, "wait64">>]
<1>1. /\ pc[0] = "a64" /\ store = <<>>
      /\ pc'[0] = "dsb64" /\ \A i \in Other : pc'[i] = pc[i]
      /\ pc' \in [Core -> Core0Place \union OtherPlace]
      /\ UNCHANGED <<boot, named, toc, n, mem, event>>
  BY DEF IInv, TypeOK, StoreInv, StartA64, Goto, Core, Other, Core0Place
<1>2. /\ a \in Seq(OnceWrite)
      /\ boot = "cold" => Len(a) = 1 /\ a[1] = Put("xboot")
      /\ boot # "cold" => Len(a) = 0
  <2>1. Put("xboot") \in OnceWrite
    BY LocFacts DEF Put, OnceWrite, Region, Value
  <2>2. CASE boot = "cold"
    BY <2>1, <2>2
  <2>3. CASE boot # "cold"
    BY <2>3, EmptySeq
  <2>4. QED  BY <2>2, <2>3
<1>3. b \in Seq(OnceWrite) /\ Len(b) = 3
  <2>1. Other = 1..3
    BY DEF Core, Other
  <2>2. ASSUME NEW i \in 1..3
        PROVE  <<<<"word", WaitWord(i)>>, "wait64">> \in OnceWrite
    <3>1. WaitWord(i) \in Word /\ WaitWord(i) # ApWord
      BY DEF WaitWord, Word, ApWord
    <3>2. <<"word", WaitWord(i)>> \in Loc /\ <<"word", WaitWord(i)>> \notin Once
      BY <3>1 DEF Loc, Once, Region
    <3>3. QED  BY <3>2 DEF OnceWrite, Value
  <2> DEFINE c == [i \in 1..3 |-> <<<<"word", WaitWord(i)>>, "wait64">>]
  <2>3. c \in Seq(OnceWrite) /\ Len(c) = 3
    BY <2>2
  <2>4. b = c
    BY <2>1
  <2>5. QED  BY <2>3, <2>4
<1>4. store' = a \o b
  <2>1. store' = <<>> \o (a \o b)
    BY <1>1 DEF StartA64, Write
  <2>2. a \o b \in Seq(OnceWrite)
    BY <1>2, <1>3, ConcatProperties
  <2>3. QED  BY <2>1, <2>2, ConcatEmptySeq
<1> HIDE DEF a, b
<1>5. /\ store' \in Seq(OnceWrite) /\ Len(store') = Len(a) + Len(b)
      /\ boot = "cold" => store'[1] = Put("xboot")
  <2>1. /\ a \o b \in Seq(OnceWrite) /\ Len(a \o b) = Len(a) + Len(b)
        /\ \A i \in 1 .. Len(a) + Len(b) :
              (a \o b)[i] = IF i <= Len(a) THEN a[i] ELSE b[i - Len(a)]
    BY <1>2, <1>3, ConcatProperties
  <2>2. ASSUME boot = "cold" PROVE (a \o b)[1] = Put("xboot")
    <3>1. Len(a) = 1 /\ a[1] = Put("xboot") /\ Len(b) = 3
      BY <1>2, <1>3, <2>2
    <3>2. 1 \in 1 .. Len(a) + Len(b) /\ 1 <= Len(a)
      BY ONLY <3>1
    <3>3. QED  BY <2>1, <3>1, <3>2
  <2>3. QED  BY <1>4, <2>1, <2>2
<1>6. TypeOK'
  <2>1. store' \in Seq(Loc \X Value)
    <3>1. OnceWrite \subseteq Loc \X Value
      BY DEF OnceWrite
    <3>2. QED  BY <1>5, <3>1, SeqMonotonic
  <2>2. QED  BY <1>1, <2>1 DEF IInv, TypeOK, Core0Place
<1>7. StoreInv'
  BY <1>1, <1>5 DEF StoreInv
<1>8. /\ boot = "cold" => store'[1][1] = At("xboot") /\ store'[1][2] = "set" /\ 1 \in 1..Len(store')
      /\ boot # "cold" => mem[At("xboot")] = "set"
  <2>1. boot # "cold" => mem[At("xboot")] = "set"
    BY DEF IInv, TypeOK, WrittenInv
  <2>2. QED  BY <1>2, <1>3, <1>5, <2>1 DEF Put, At
<1>9. WrittenInv'
  <2>1. \A l \in Prepared : mem[l] = Final(l)
    BY <1>1 DEF IInv, WrittenInv, Core0Aarch64, Core0Late
  <2>2. Prepared' = Prepared
    BY <1>1 DEF Prepared, Images, Found
  <2>3. WillBe(At("xboot"))'
    <3>1. CASE boot = "cold"
      <4>1. At("xboot") \in Locs(store')
        BY <1>8, <3>1 DEF Locs
      <4>2. QED  BY <4>1 DEF WillBe, Locs, At
    <3>2. CASE boot # "cold"
      <4>1. Final(At("xboot")) = "set"
        BY LocFacts DEF At, Region
      <4>2. mem'[At("xboot")] = Final(At("xboot"))
        BY <1>1, <1>8, <3>2, <4>1
      <4>3. QED  BY <4>2 DEF WillBe, At, Final
    <3>3. QED  BY <3>1, <3>2
  <2>4. \A l \in Prepared' : (mem'[l] = Final(l)) /\ WillBe(l)'
    BY <1>1, <2>1, <2>2 DEF WillBe
  <2>5. QED  BY <1>1, <2>3, <2>4
             DEF IInv, WrittenInv, Core0Late, Core0Aarch64, Core0Woken
<1>10. WakeInv'
  <2>1. pc[0] \notin Core0Woken /\ pc'[0] \in Core0Woken
    BY <1>1 DEF Core0Woken
  <2>2. \A l \in Loc : mem'[l] # "wait64"
    BY <1>1, <2>1 DEF IInv, WakeInv
  <2>3. ASSUME NEW k \in 1..Len(store'), store'[k][2] = "wait64"
        PROVE  mem'[At("xboot")] = "set" \/ \E j \in 1..k - 1 : store'[j][1] = At("xboot")
    <3>1. CASE boot = "cold"
      <4>1. k # 1
        BY <1>8, <2>3, <3>1
      <4>2. 1 \in 1..k - 1
        BY <1>5, <4>1
      <4>3. QED  BY <1>8, <3>1, <4>2
    <3>2. CASE boot # "cold"
      BY <1>1, <1>8, <3>2
    <3>3. QED  BY <3>1, <3>2
  <2>4. \A i \in Other : pc'[i] \notin {"rmr", "boot_cpuN", "bl31"}
    BY <1>1, <2>1 DEF IInv, WakeInv
  <2>5. At("xboot")' = At("xboot")
    BY DEF At
  <2>6. QED  BY <2>1, <2>2, <2>3, <2>4, <2>5 DEF WakeInv
<1>11. QED  BY <1>6, <1>7, <1>9, <1>10 DEF IInv

LEMMA WaitForWritesIInv == IInv /\ WaitForWrites => IInv'
<1> SUFFICES ASSUME IInv, WaitForWrites PROVE IInv'
  OBVIOUS
<1>1. /\ pc[0] = "dsb64" /\ store = <<>> /\ pc'[0] = "sev" /\ \A i \in Other : pc'[i] = pc[i]
      /\ pc' \in [Core -> Core0Place \union OtherPlace]
      /\ UNCHANGED <<boot, named, toc, n, mem, store, event>>
  BY DEF IInv, TypeOK, WaitForWrites, Goto, Core, Other, Core0Place, Dsb
<1>2. TypeOK'
  BY <1>1 DEF IInv, TypeOK, Core0Place
<1>3. StoreInv'
  BY <1>1 DEF IInv, StoreInv
<1>4. WrittenInv'
  <2>1. Locs(store) = {}
    BY <1>1 DEF Locs
  <2>2. mem[At("xboot")] = "set"
    <3>1. WillBe(At("xboot"))
      BY <1>1 DEF IInv, WrittenInv, Core0Woken
    <3>2. Final(At("xboot")) = "set"
      BY LocFacts DEF At, Region
    <3>3. QED  BY <2>1, <3>1, <3>2 DEF WillBe
  <2>3. Prepared' = Prepared /\ Locs(store') = Locs(store)
    BY <1>1 DEF Prepared, Images, Found, Locs
  <2>4. \A l \in Prepared : WillBe(l) /\ mem[l] = Final(l)
    BY <1>1 DEF IInv, WrittenInv, Core0Late, Core0Aarch64
  <2>5. WillBe(At("xboot"))
    BY <1>1 DEF IInv, WrittenInv, Core0Woken
  <2>6. QED  BY <1>1, <2>2, <2>3, <2>4, <2>5
             DEF IInv, WrittenInv, WillBe, Core0Late, Core0Aarch64, Core0Woken, At
<1>5. WakeInv'
  <2>1. pc[0] \in Core0Woken /\ pc'[0] \in Core0Woken
    BY <1>1 DEF Core0Woken
  <2>2. QED  BY <1>1, <2>1 DEF IInv, WakeInv, At
<1>6. QED  BY <1>2, <1>3, <1>4, <1>5 DEF IInv

(* Core 0 goes on, nothing is written. *)
LEMMA CoreZeroGoesOn ==
    ASSUME IInv, NEW p \in {"boot_cpuN", "bl31"}, pc[0] \in Core0Woken \ {"dsb64"},
           pc' = [pc EXCEPT ![0] = p], event' \in [Core -> BOOLEAN],
           UNCHANGED <<boot, named, toc, n, mem, store>>
    PROVE  IInv'
<1>1. /\ pc'[0] = p /\ \A i \in Other : pc'[i] = pc[i]
      /\ pc' \in [Core -> Core0Place \union OtherPlace]
  BY DEF IInv, TypeOK, Core, Other, Core0Place
<1>2. pc'[0] \in Core0Woken \ {"dsb64"}
  BY <1>1 DEF Core0Woken
<1>3. TypeOK'
  BY <1>1 DEF IInv, TypeOK, Core0Place
<1>4. StoreInv'
  BY <1>1 DEF IInv, StoreInv
<1>5. WrittenInv'
  <2>1. Prepared' = Prepared
    BY DEF Prepared, Images, Found
  <2>2. /\ \A l \in Prepared : WillBe(l) /\ mem[l] = Final(l)
        /\ WillBe(At("xboot")) /\ mem[At("xboot")] = "set"
    BY DEF IInv, WrittenInv, Core0Late, Core0Aarch64, Core0Woken
  <2>3. QED  BY <1>1, <1>2, <2>1, <2>2
             DEF IInv, WrittenInv, WillBe, Locs, At, Core0Late, Core0Aarch64, Core0Woken
<1>6. WakeInv'
  BY <1>1, <1>2 DEF IInv, WakeInv, At
<1>7. QED  BY <1>3, <1>4, <1>5, <1>6 DEF IInv

(* Another core goes on; it leaves the ROM only when core 0 has woken it. *)
LEMMA OtherGoesOn ==
    ASSUME IInv, NEW i \in Other, NEW p \in OtherPlace,
           pc' = [pc EXCEPT ![i] = p], event' \in [Core -> BOOLEAN],
           UNCHANGED <<boot, named, toc, n, mem, store>>,
           p \in {"rmr", "boot_cpuN", "bl31"} =>
                \/ pc[i] \in {"rmr", "boot_cpuN", "bl31"}
                \/ \E l \in Loc : mem[l] = "wait64"
    PROVE  IInv'
<1>1. i \in Core /\ i # 0 /\ 0 \in Core
  BY DEF Core, Other
<1>2. /\ pc'[0] = pc[0] /\ pc'[i] = p /\ \A j \in Other : j # i => pc'[j] = pc[j]
      /\ pc' \in [Core -> Core0Place \union OtherPlace]
  BY <1>1 DEF IInv, TypeOK, Core, Other
<1>3. TypeOK'
  BY <1>2 DEF IInv, TypeOK
<1>4. StoreInv'
  BY <1>2 DEF IInv, StoreInv
<1>5. WrittenInv'
  <2>1. Prepared' = Prepared /\ Images' = Images
    BY DEF Prepared, Images, Found
  <2>2. \A l : WillBe(l)' <=> WillBe(l)
    BY DEF WillBe, Locs
  <2>3. \A k \in 1..n : WillBe(At(toc[k]))' <=> WillBe(At(toc[k]))
    BY DEF WillBe, Locs, At
  <2>4. WillBe(At("xboot"))' <=> WillBe(At("xboot"))
    BY DEF WillBe, Locs, At
  <2>5. QED  BY <1>2, <2>1, <2>2, <2>3, <2>4 DEF IInv, WrittenInv, At
<1>6. WakeInv'
  <2>1. p \in {"rmr", "boot_cpuN", "bl31"} => pc[0] \in Core0Woken /\ mem[At("xboot")] = "set"
    BY DEF IInv, WakeInv
  <2>2. QED  BY <1>2, <2>1 DEF IInv, WakeInv, At
<1>7. QED  BY <1>3, <1>4, <1>5, <1>6 DEF IInv

LEMMA OtherCoreIInv == ASSUME NEW i \in Other PROVE IInv /\ OtherCore(i) => IInv'
<1> SUFFICES ASSUME IInv, OtherCore(i) PROVE IInv'
  OBVIOUS
<1>1. event \in [Core -> BOOLEAN]
  BY DEF IInv, TypeOK
<1>2. <<"word", WaitWord(i)>> \in Loc
  <2>1. WaitWord(i) \in Word
    BY DEF Other, Core, Word, WaitWord, ApWord
  <2>2. QED  BY <2>1 DEF Loc
<1>3. CASE Look(i)
  <2> DEFINE p == IF mem[<<"word", WaitWord(i)>>] = "wait64" THEN "rmr" ELSE "wfe"
  <2>1. p \in OtherPlace /\ (p = "rmr" => mem[<<"word", WaitWord(i)>>] = "wait64")
        /\ (p = "rmr" \/ p = "wfe")
    BY DEF OtherPlace
  <2>2. /\ pc' = [pc EXCEPT ![i] = p]
        /\ UNCHANGED <<boot, named, toc, n, mem, store, event>>
    BY <1>3 DEF Look, Goto
  <2> HIDE DEF p
  <2>3. p \in {"rmr", "boot_cpuN", "bl31"} => \E l \in Loc : mem[l] = "wait64"
    BY <1>2, <2>1
  <2>4. QED  BY <1>1, <2>1, <2>2, <2>3, OtherGoesOn
<1>4. CASE WaitForEvent(i)
  <2>1. event' \in [Core -> BOOLEAN] /\ "look" \in OtherPlace
    BY <1>1, <1>4 DEF WaitForEvent, OtherPlace
  <2>2. QED  BY <1>4, <2>1, OtherGoesOn DEF WaitForEvent, Goto
<1>5. CASE Switch(i)
  <2>1. "boot_cpuN" \in OtherPlace
    BY DEF OtherPlace
  <2>2. QED  BY <1>1, <1>5, <2>1, OtherGoesOn DEF Switch, Goto
<1>6. CASE BootCpuN(i)
  <2>1. "bl31" \in OtherPlace
    BY DEF OtherPlace
  <2>2. QED  BY <1>1, <1>6, <2>1, OtherGoesOn DEF BootCpuN, Goto
<1>7. QED  BY <1>3, <1>4, <1>5, <1>6 DEF OtherCore

(* A write arrives.  A location of Once keeps its value when it has it, and a
   value on its way is then there or still on its way. *)
LEMMA DrainIInv == IInv /\ Drain => IInv'
<1> SUFFICES ASSUME IInv, Drain PROVE IInv'
  OBVIOUS
<1> DEFINE l0 == store[1][1]
           v0 == store[1][2]
<1>1. /\ store \in Seq(OnceWrite) /\ store # <<>> /\ mem \in [Loc -> Value]
      /\ store' = Tail(store) /\ mem' = [mem EXCEPT ![l0] = v0]
      /\ UNCHANGED <<boot, named, toc, n, pc, event>>
  BY DEF IInv, TypeOK, StoreInv, Drain
<1>2. /\ Len(store) \in Nat /\ 1 \in 1..Len(store)
      /\ store' \in Seq(OnceWrite) /\ Len(store') = Len(store) - 1
      /\ \A k \in 1..Len(store') : store'[k] = store[k + 1] /\ k + 1 \in 1..Len(store)
  <2>1. Len(store) \in Nat \ {0}
    BY <1>1, EmptySeq
  <2>2. /\ store' \in Seq(OnceWrite) /\ Len(store') = Len(store) - 1
        /\ \A k \in 1..Len(store') : store'[k] = store[k + 1]
    BY <1>1, HeadTailProperties
  <2>3. QED  BY <2>1, <2>2
<1>3. /\ l0 \in Loc /\ v0 \in Value
      /\ l0 \in Once => v0 = Final(l0)
  <2>1. store[1] \in OnceWrite
    BY <1>1, <1>2, ElementOfSeq
  <2>2. QED  BY <2>1 DEF OnceWrite
<1> HIDE DEF l0, v0
<1>4. \A l \in Loc : mem'[l] = IF l = l0 THEN v0 ELSE mem[l]
  BY <1>1
<1>5. \A l \in Once : mem[l] = Final(l) => mem'[l] = Final(l)
  BY <1>3, <1>4, LocFacts
<1>6. \A l \in Once : WillBe(l) => mem'[l] = Final(l) \/ l \in Locs(store')
  <2> SUFFICES ASSUME NEW l \in Once, l \in Locs(store), l # l0
               PROVE  l \in Locs(store')
    BY <1>3, <1>4, <1>5, LocFacts DEF WillBe
  <2>1. PICK k \in 1..Len(store) : l = store[k][1]
    BY DEF Locs
  <2>2. k # 1
    BY <2>1 DEF l0
  <2>3. k - 1 \in 1..Len(store') /\ store'[k - 1] = store[k]
    <3>1. k - 1 \in 1..Len(store') /\ (k - 1) + 1 = k
      BY <1>2, <2>2
    <3>2. store'[k - 1] = store[(k - 1) + 1]
      BY <1>2, <3>1
    <3>3. QED  BY <3>1, <3>2
  <2>4. QED  BY <2>1, <2>3 DEF Locs
<1>7. TypeOK'
  <2>1. store' \in Seq(Loc \X Value)
    <3>1. OnceWrite \subseteq Loc \X Value
      BY DEF OnceWrite
    <3>2. QED  BY <1>2, <3>1, SeqMonotonic
  <2>2. mem' \in [Loc -> Value]
    BY <1>1, <1>3
  <2>3. QED  BY <1>1, <2>1, <2>2 DEF IInv, TypeOK
<1>8. StoreInv'
  <2>1. pc[0] # "a64"
    BY <1>1 DEF IInv, StoreInv
  <2>2. QED  BY <1>1, <1>2, <2>1 DEF StoreInv
<1>9. At("xboot") \in Once /\ Final(At("xboot")) = "set" /\ At("xboot") \in Loc
  BY LocFacts DEF At, Region
<1>10. WrittenInv'
  <2> DEFINE Later(l) == mem'[l] = Final(l) \/ l \in Locs(store')
  <2>1. \A l : WillBe(l)' <=> Later(l)
    BY DEF WillBe, Locs
  <2>2. Images \subseteq Once /\ Prepared \subseteq Once
    BY PreparedOnce DEF IInv
  <2>3. \A l \in Once : WillBe(l) => Later(l)
    BY <1>6
  <2> HIDE DEF Later
  <2>4. Images' = Images /\ Prepared' = Prepared
    BY <1>1 DEF Images, Prepared, Found
  <2>5. n <= Len(toc) /\ n \in Nat /\ Len(toc) \in Nat
    BY LenProperties DEF IInv, TypeOK, WrittenInv
  <2>6. pc[0] = "tfa" => \A k \in 1..n : toc[k] \in Wanted => WillBe(At(toc[k]))'
    <3>1. ASSUME NEW k \in 1..n, toc[k] \in Wanted, pc[0] = "tfa"
          PROVE  Later(At(toc[k]))
      <4>1. At(toc[k]) \in Once
        BY <3>1, LocFacts DEF At, Wanted, Region
      <4>2. WillBe(At(toc[k]))
        BY <3>1 DEF IInv, WrittenInv
      <4>3. QED  BY <2>3, <4>1, <4>2
    <3>2. \A k \in 1..n : WillBe(At(toc[k]))' <=> Later(At(toc[k]))
      BY <1>1 DEF WillBe, Locs, At, Later
    <3>3. QED  BY <3>1, <3>2
  <2>7. pc[0] = "a32" => \A l \in Images : WillBe(l)'
    BY <2>1, <2>2, <2>3 DEF IInv, WrittenInv
  <2>8. pc[0] \in Core0Late => \A l \in Prepared : WillBe(l)'
    BY <2>1, <2>2, <2>3 DEF IInv, WrittenInv
  <2>9. pc[0] \in Core0Aarch64 => \A l \in Prepared : mem'[l] = Final(l)
    BY <1>5, <2>2 DEF IInv, WrittenInv
  <2>10. pc[0] \in Core0Woken => WillBe(At("xboot"))'
    <3>1. pc[0] \in Core0Woken => Later(At("xboot"))
      BY <1>9, <2>3 DEF IInv, WrittenInv
    <3>2. WillBe(At("xboot"))' <=> Later(At("xboot"))
      BY DEF WillBe, Locs, At, Later
    <3>3. QED  BY <3>1, <3>2
  <2>11. mem[At("xboot")] = "set" => mem'[At("xboot")] = "set"
    BY <1>5, <1>9
  <2>12. boot = "warm" => mem'[At("bl31")] = "set" /\ mem'[At("optee")] = "set"
    <3>1. \A r \in {"bl31", "optee"} : At(r) \in Once /\ Final(At(r)) = "set"
      BY LocFacts DEF At, Region
    <3>2. QED  BY <1>5, <3>1 DEF IInv, WrittenInv
  <2>13. \A r : At(r)' = At(r)
    BY DEF At
  <2>14. QED  BY <1>1, <2>4, <2>6, <2>7, <2>8, <2>9, <2>10, <2>11, <2>12, <2>13
              DEF IInv, WrittenInv, At
<1>11. WakeInv'
  <2>1. \A k \in 1..Len(store') : store'[k] = store[k + 1] /\ k + 1 \in 1..Len(store)
    BY <1>2
  <2>2. mem[At("xboot")] = "set" => mem'[At("xboot")] = "set"
    BY <1>5, <1>9
  <2>3. v0 = "wait64" => mem[At("xboot")] = "set"
    <3>1. ~ \E j \in 1..1 - 1 : store[j][1] = At("xboot")
      OBVIOUS
    <3>2. QED  BY <1>2, <3>1 DEF IInv, WakeInv, v0
  <2>4. ASSUME pc[0] \notin Core0Woken
        PROVE  store' \in Seq(QuietWrite) /\ \A l \in Loc : mem'[l] # "wait64"
    <3>1. store \in Seq(QuietWrite)
      BY <2>4 DEF IInv, WakeInv
    <3>2. store' \in Seq(QuietWrite)
      BY <1>1, <3>1, HeadTailProperties
    <3>3. store[1] \in QuietWrite
      BY <1>2, <3>1, ElementOfSeq
    <3>4. v0 # "wait64"
      BY <3>3 DEF QuietWrite, v0
    <3>5. QED  BY <1>4, <2>4, <3>2, <3>4 DEF IInv, WakeInv
  <2>5. (\E l \in Loc : mem'[l] = "wait64") => mem'[At("xboot")] = "set"
    BY <1>4, <2>2, <2>3 DEF IInv, WakeInv
  <2>6. ASSUME NEW k \in 1..Len(store'), store'[k][2] = "wait64", mem'[At("xboot")] # "set"
        PROVE  \E j \in 1..k - 1 : store'[j][1] = At("xboot")
    <3>1. store[k + 1][2] = "wait64" /\ k + 1 \in 1..Len(store)
      BY <2>1, <2>6
    <3>2. PICK j \in 1..(k + 1) - 1 : store[j][1] = At("xboot")
      BY <2>2, <2>6, <3>1 DEF IInv, WakeInv
    <3>3. j # 1
      BY <1>3, <1>4, <1>9, <2>6, <3>2 DEF l0
    <3>4. j - 1 \in 1..k - 1 /\ j - 1 \in 1..Len(store') /\ (j - 1) + 1 = j
      BY <1>2, <3>2, <3>3
    <3>5. store'[j - 1] = store[(j - 1) + 1]
      BY <2>1, <3>4
    <3>6. QED  BY <3>2, <3>4, <3>5
  <2>7. \A i \in Other : pc'[i] \in {"rmr", "boot_cpuN", "bl31"} =>
           pc'[0] \in Core0Woken /\ mem'[At("xboot")] = "set"
    BY <1>1, <2>2 DEF IInv, WakeInv
  <2>8. At("xboot")' = At("xboot")
    BY DEF At
  <2>9. QED  BY <1>1, <2>4, <2>5, <2>6, <2>7, <2>8 DEF WakeInv
<1>12. QED  BY <1>7, <1>8, <1>10, <1>11 DEF IInv

LEMMA CoreZeroIInv == IInv /\ Core0 => IInv'
<1> SUFFICES ASSUME IInv, Core0 PROVE IInv'
  OBVIOUS
<1>1. CASE SendEvent
  <2>1. pc[0] \in Core0Woken \ {"dsb64"} /\ event' \in [Core -> BOOLEAN]
    BY <1>1 DEF SendEvent, Core0Woken
  <2>2. QED  BY <1>1, <2>1, CoreZeroGoesOn DEF SendEvent, Goto
<1>2. CASE BootCpuN(0)
  <2>1. pc[0] \in Core0Woken \ {"dsb64"} /\ event' \in [Core -> BOOLEAN]
    BY <1>2 DEF BootCpuN, Core0Woken, IInv, TypeOK
  <2>2. QED  BY <1>2, <2>1, CoreZeroGoesOn DEF BootCpuN, Goto
<1>3. QED  BY <1>1, <1>2, LoadEntryIInv, AllLoadedIInv, BadTocIInv, GoA32ToA64IInv,
              RestoreIInv, SwitchToA64IInv, StartA64IInv, WaitForWritesIInv DEF Core0

LEMMA StutterIInv == IInv /\ UNCHANGED vars => IInv'
<1> SUFFICES ASSUME IInv, UNCHANGED vars PROVE IInv'
  OBVIOUS
<1>1. UNCHANGED <<boot, named, toc, n, pc, mem, store, event>>
  BY DEF vars
<1>2. TypeOK' /\ StoreInv' /\ WakeInv'
  BY <1>1 DEF IInv, TypeOK, StoreInv, WakeInv, At
<1>3. Images' = Images /\ Prepared' = Prepared
  BY <1>1 DEF Images, Prepared, Found
<1>4. WrittenInv'
  BY <1>1, <1>3 DEF IInv, WrittenInv, WillBe, Locs, At
<1>5. QED  BY <1>2, <1>4 DEF IInv

(* The invariant holds for every table of contents, however late the writes
   of core 0 arrive (SwitchToA64 and WaitForWrites are the dsb). *)
THEOREM Invariance == Spec => []IInv
<1>1. IInv /\ [Next]_vars => IInv'
  BY CoreZeroIInv, QuitShellIInv, DrainIInv, OtherCoreIInv, StutterIInv DEF Next
<1>2. QED  BY InitIInv, <1>1, PTL DEF Spec

(* The variables have their types. *)
THEOREM TypeCorrect == Spec => []TypeOK
<1>1. IInv => TypeOK
  BY DEF IInv
<1>2. QED  BY Invariance, <1>1, PTL

(* No core leaves AArch32 before its reset vector, and a64up behind it, are in
   memory: go_a32_to_a64() and main of warmboot/xboot wait for their writes. *)
THEOREM VectorsAreInMemory == Spec => []VectorBeforeSwitch
<1>1. ASSUME IInv PROVE VectorBeforeSwitch
  <2>1. ASSUME NEW i \in Core, pc[i] \in {"a64", "dsb64", "sev", "rmr", "boot_cpuN", "bl31"}
        PROVE  mem[<<"vector", i>>] = "set" /\ mem[<<"a64up", 0>>] = "set"
    <3>1. pc[0] \in Core0Aarch64
      <4>1. CASE i = 0
        BY <2>1, <4>1, <1>1 DEF Core0Aarch64, Core0Late, IInv, TypeOK, Core0Place
      <4>2. CASE i # 0
        <5>1. i \in Other /\ pc[i] \in {"rmr", "boot_cpuN", "bl31"}
          BY <1>1, <2>1, <4>2 DEF Other, IInv, TypeOK, OtherPlace
        <5>2. QED  BY <1>1, <5>1 DEF IInv, WakeInv, Core0Woken, Core0Aarch64, Core0Late
      <4>3. QED  BY <4>1, <4>2
    <3>2. <<"vector", i>> \in Prepared /\ At("a64up") \in Prepared
      BY DEF Prepared
    <3>3. mem[<<"vector", i>>] = Final(<<"vector", i>>) /\ mem[At("a64up")] = Final(At("a64up"))
      BY <1>1, <3>1, <3>2 DEF IInv, WrittenInv
    <3>4. QED  BY <3>3 DEF Final, At
  <2>2. QED  BY <2>1 DEF VectorBeforeSwitch
<1>2. QED  BY Invariance, <1>1, PTL

(* The first core in BL31 finds the images of the fip, the protection of
   memory, the access rights and the address of u-boot, and no xBoot: the
   others are woken by core 0 after its second dsb, in the order of its writes. *)
THEOREM Bl31IsPrepared == Spec => []Bl31FindsAllInPlace
<1>1. ASSUME IInv, NEW i \in Core, pc[i] = "bl31"
      PROVE  /\ boot = "warm" \/ named =>
                    \A k \in DOMAIN toc : toc[k] \in Wanted => mem[<<toc[k], 0>>] = "set"
             /\ \A r \in {"modules", "tzc", "xboot"} : mem[<<r, 0>>] = "set"
             /\ boot = "cold" => mem[<<"word", ApWord>>] = "ap"
  <2>1. pc[0] \in Core0Aarch64 /\ mem[At("xboot")] = "set"
    <3>1. CASE i = 0
      BY <1>1, <3>1 DEF Core0Aarch64, Core0Late, Core0Woken, IInv, WrittenInv
    <3>2. CASE i # 0
      <4>1. i \in Other
        BY <3>2 DEF Other
      <4>2. QED  BY <1>1, <4>1 DEF IInv, WakeInv, Core0Woken, Core0Aarch64, Core0Late
    <3>3. QED  BY <3>1, <3>2
  <2>2. \A l \in Prepared : mem[l] = Final(l)
    BY <1>1, <2>1 DEF IInv, WrittenInv
  <2>3. ASSUME boot = "warm" \/ named, NEW k \in DOMAIN toc, toc[k] \in Wanted
        PROVE  mem[<<toc[k], 0>>] = "set"
    <3>1. k \in 1..Len(toc)
      BY <1>1, LenProperties DEF IInv, TypeOK
    <3>2. At(toc[k]) \in Prepared
      BY <2>3, <3>1 DEF Prepared, Images, Found
    <3>3. Final(At(toc[k])) = "set"
      BY <2>3 DEF Final, At, Wanted
    <3>4. QED  BY <2>2, <3>2, <3>3 DEF At
  <2>4. mem[<<"modules", 0>>] = "set" /\ mem[<<"tzc", 0>>] = "set"
    BY <2>2 DEF Prepared, Final, At
  <2>5. boot = "cold" => mem[<<"word", ApWord>>] = "ap"
    BY <2>2 DEF Prepared, Final, Ap
  <2>6. mem[<<"xboot", 0>>] = "set"
    BY <2>1 DEF At
  <2>7. QED  BY <2>3, <2>4, <2>5, <2>6
<1>2. IInv => Bl31FindsAllInPlace
  BY <1>1 DEF Bl31FindsAllInPlace
<1>3. QED  BY Invariance, <1>2, PTL
=============================================================================
