------------------------------ MODULE SmpBoot ------------------------------
(***************************************************************************)
(* The hand-off from xBoot, which runs on core 0 in AArch32, to BL31 on    *)
(* all cores in AArch64: boot_uboot() with load_tfa_optee() and            *)
(* go_a32_to_a64() after a cold start, main() of warmboot/xboot after a    *)
(* wake-up, then _start_a64, wake_cpuN() and boot_cpuN() of a64up.         *)
(*                                                                         *)
(* The other cores wait in the boot ROM, each for a word of its own in the *)
(* SRAM.  Writes of core 0 reach memory in order but later than they are   *)
(* executed: only a dsb waits for them.                                    *)
(***************************************************************************)
EXTENDS Integers, Sequences, FiniteSets

CONSTANTS MaxToc    \* most entries of the fip's table of contents

ASSUME SmpBootAssumption == MaxToc \in Nat

Core == 0..3            \* SMP_CORES
Other == Core \ {0}

(* The words of the SRAM from 0xfa23fbd8 on *)
Word == 0..8
ApWord == 7

(* CORE_CPU_START_POS: where a core waits in the ROM (mutant: a word higher) *)
WaitWord_high(i) == ApWord - i + 1
WaitWord(i) == ApWord - i

(* What is written on the way: code in DRAM and SRAM, the secure registers,
   the reset vectors of the cores, the words of the SRAM *)
Region == {"bl31", "optee", "modules", "tzc", "a64up", "xboot"}
Loc == (Region \X {0}) \union ({"vector"} \X Core) \union ({"word"} \X Word)
Value == {"old", "set", "ap", "wait64", "saved"}

VARIABLES boot,     \* "cold" or "warm"
          named,    \* the table of contents of the fip begins with its name
          toc,      \* the entries of the table
          n,        \* load_tfa_optee: entries looked at
          pc,       \* of each core
          mem,      \* value of each location
          store,    \* writes of core 0 on their way to memory
          event     \* event register of each core

vars == <<boot, named, toc, n, pc, mem, store, event>>

(* where core 0 is, and where the others are *)
Core0Place == {"tfa", "mon_shell", "a32", "restore", "dsb32", "a64", "dsb64",
               "sev", "boot_cpuN", "bl31"}
OtherPlace == {"look", "wfe", "rmr", "boot_cpuN", "bl31"}

TypeOK ==
    /\ boot \in {"cold", "warm"}
    /\ named \in BOOLEAN
    /\ toc \in Seq({"bl31", "optee", "other"}) /\ Len(toc) <= MaxToc
    /\ n \in 0..MaxToc
    /\ pc \in [Core -> Core0Place \union OtherPlace]
    /\ pc[0] \in Core0Place
    /\ \A i \in Other : pc[i] \in OtherPlace
    /\ mem \in [Loc -> Value]
    /\ store \in Seq(Loc \X Value)
    /\ event \in [Core -> BOOLEAN]

(* A cold start finds nothing in place, a wake-up finds BL31 and OP-TEE in the
   DRAM that kept its content. *)
Kept(r) == boot = "warm" /\ r \in {"bl31", "optee", "xboot"}

Init ==
    /\ boot \in {"cold", "warm"}
    /\ named \in BOOLEAN
    /\ toc \in UNION {[1..k -> {"bl31", "optee", "other"}] : k \in 0..MaxToc}
    /\ n = 0
    /\ pc = [i \in Core |-> IF i # 0 THEN "look"
                            ELSE IF boot = "cold" THEN "tfa" ELSE "restore"]
    /\ mem = [l \in Loc |-> IF Kept(l[1]) THEN "set" ELSE "old"]
    /\ store = <<>>
    /\ event = [i \in Core |-> FALSE]

Goto(i, p) == pc' = [pc EXCEPT ![i] = p]

Write(writes) == store' = store \o writes

Put(region) == <<<<region, 0>>, "set">>

(* A dsb is left when every write is in memory (mutant: at once). *)
Dsb_none == TRUE
Dsb == store = <<>>

-----------------------------------------------------------------------------
(* Core 0 in AArch32 *)

(* load_tfa_optee copies what it knows, up to the entry without a uuid.  For a
   table without the name it opens the register tool and returns -1, which
   boot_uboot does not look at. *)
Wanted == {"bl31", "optee"}

LoadEntry ==
    /\ pc[0] = "tfa" /\ named /\ n < Len(toc)
    /\ n' = n + 1
    /\ Write(IF toc[n'] \in Wanted THEN <<Put(toc[n'])>> ELSE <<>>)
    /\ UNCHANGED <<boot, named, toc, pc, mem, event>>

AllLoaded ==
    /\ pc[0] = "tfa" /\ named /\ n = Len(toc)
    /\ Goto(0, "a32")
    /\ UNCHANGED <<boot, named, toc, n, mem, store, event>>

BadToc ==
    /\ pc[0] = "tfa" /\ ~named
    /\ Goto(0, "mon_shell")
    /\ UNCHANGED <<boot, named, toc, n, mem, store, event>>

QuitShell ==
    /\ pc[0] = "mon_shell"
    /\ Goto(0, "a32")
    /\ UNCHANGED <<boot, named, toc, n, mem, store, event>>

SetVectors ==
    <<Put("a64up")>> \o [k \in 1..4 |-> <<<<"vector", k - 1>>, "set">>]

(* go_a32_to_a64 up to its DSB *)
GoA32ToA64 ==
    /\ pc[0] = "a32"
    /\ Write(<<Put("modules"), Put("tzc"), <<<<"word", ApWord>>, "ap">>>>
                \o SetVectors)
    /\ Goto(0, "dsb32")
    /\ UNCHANGED <<boot, named, toc, n, mem, event>>

(* warmboot/xboot: restore_save_data, and main up to its DSB *)
Restore ==
    /\ pc[0] = "restore"
    /\ Write(<<Put("modules")>>
                \o [k \in 1..6 |-> <<<<"word", k - 1>>, "saved">>]
                \o <<Put("tzc")>> \o SetVectors)
    /\ Goto(0, "dsb32")
    /\ UNCHANGED <<boot, named, toc, n, mem, event>>

(* DSB, the request for AArch64, wfi *)
SwitchToA64 ==
    /\ pc[0] = "dsb32" /\ Dsb
    /\ Goto(0, "a64")
    /\ UNCHANGED <<boot, named, toc, n, mem, store, event>>

-----------------------------------------------------------------------------
(* Core 0 in AArch64 *)

(* _start_a64 clears the buffer of xBoot after a cold start, and calls
   wake_cpuN, which writes to the other cores in their order. *)
StartA64 ==
    /\ pc[0] = "a64"
    /\ Write((IF boot = "cold" THEN <<Put("xboot")>> ELSE <<>>)
                \o [i \in Other |-> <<<<"word", WaitWord(i)>>, "wait64">>])
    /\ Goto(0, "dsb64")
    /\ UNCHANGED <<boot, named, toc, n, mem, event>>

WaitForWrites ==
    /\ pc[0] = "dsb64" /\ Dsb
    /\ Goto(0, "sev")
    /\ UNCHANGED <<boot, named, toc, n, mem, store, event>>

SendEvent ==
    /\ pc[0] = "sev"
    /\ event' = [i \in Core |-> TRUE]
    /\ Goto(0, "boot_cpuN")
    /\ UNCHANGED <<boot, named, toc, n, mem, store>>

(* boot_cpuN, on every core: DSB, and the jump to BL31_RUN_ADDR.  Only core 0
   has written anything. *)
BootCpuN(i) ==
    /\ pc[i] = "boot_cpuN"
    /\ i = 0 => store = <<>>
    /\ Goto(i, "bl31")
    /\ UNCHANGED <<boot, named, toc, n, mem, store, event>>

-----------------------------------------------------------------------------
(* The other cores in the ROM, and the memory system *)

(* The core looks at its word, and waits for an event unless it may go. *)
Look(i) ==
    /\ pc[i] = "look"
    /\ Goto(i, IF mem[<<"word", WaitWord(i)>>] = "wait64" THEN "rmr" ELSE "wfe")
    /\ UNCHANGED <<boot, named, toc, n, mem, store, event>>

WaitForEvent(i) ==
    /\ pc[i] = "wfe" /\ event[i]
    /\ event' = [event EXCEPT ![i] = FALSE]
    /\ Goto(i, "look")
    /\ UNCHANGED <<boot, named, toc, n, mem, store>>

(* It switches to AArch64 and starts at its reset vector: _start_a64 sends it
   to boot_cpuN. *)
Switch(i) ==
    /\ pc[i] = "rmr"
    /\ Goto(i, "boot_cpuN")
    /\ UNCHANGED <<boot, named, toc, n, mem, store, event>>

Drain ==
    /\ store # <<>>
    /\ mem' = [mem EXCEPT ![store[1][1]] = store[1][2]]
    /\ store' = Tail(store)
    /\ UNCHANGED <<boot, named, toc, n, pc, event>>

Core0 == LoadEntry \/ AllLoaded \/ BadToc \/ GoA32ToA64 \/ Restore
            \/ SwitchToA64 \/ StartA64 \/ WaitForWrites \/ SendEvent \/ BootCpuN(0)
OtherCore(i) == Look(i) \/ WaitForEvent(i) \/ Switch(i) \/ BootCpuN(i)

Next == Core0 \/ QuitShell \/ Drain \/ \E i \in Other : OtherCore(i)

(* Every core runs, and a write does not stay on its way for ever.  Nobody has
   to quit the register tool. *)
Spec == Init /\ [][Next]_vars /\ WF_vars(Core0) /\ WF_vars(Drain)
             /\ \A i \in Other : WF_vars(OtherCore(i))

-----------------------------------------------------------------------------
(* Properties *)

(* No core leaves AArch32 before its reset vector, and a64up behind it, are in
   memory: core 0 because of the DSB before the switch, the others because
   core 0 has switched before it wakes them. *)
VectorBeforeSwitch ==
    \A i \in Core :
        pc[i] \in {"a64", "dsb64", "sev", "rmr", "boot_cpuN", "bl31"} =>
           mem[<<"vector", i>>] = "set" /\ mem[<<"a64up", 0>>] = "set"

(* No core is in BL31 before all of this is in memory: the BL31 and OP-TEE of
   the fip, the protection of OP-TEE's memory, the modules' access rights and,
   after a cold start, zeroes where xBoot was, and the address of u-boot ("ap_addr
   will be used by BL31") in the word of core 0, which has outlived the waking of
   the other cores.  The one exception is a fip without the name: once the
   register tool is left, the cores go on to BL31 with nothing of it copied. *)
Bl31FindsAllInPlace ==
    (\E i \in Core : pc[i] = "bl31") =>
        /\ boot = "warm" \/ named =>
              \A k \in DOMAIN toc : toc[k] \in Wanted => mem[<<toc[k], 0>>] = "set"
        /\ \A r \in {"modules", "tzc", "xboot"} : mem[<<r, 0>>] = "set"
        /\ boot = "cold" => mem[<<"word", ApWord>>] = "ap"

(* Every core gets to BL31: none sleeps through the event that is meant for
   it because its word arrives later.  Only a cold start with a fip without the
   name may end otherwise, in the register tool that nobody leaves. *)
AllCoresReachBl31 ==
    \/ <>(\A i \in Core : pc[i] = "bl31")
    \/ boot = "cold" /\ ~named /\ <>[](pc[0] = "mon_shell")
=============================================================================
