------------------------------ MODULE ImageLoad ------------------------------
(***************************************************************************)
(* What a loader of xBoot promises, whatever boot device it reads: from a  *)
(* medium whose content it does not choose it either hands over one whole  *)
(* u-boot and one whole fip, or it refuses; and it refuses only for a      *)
(* reason: the device failed, or one of the two images is not intact at    *)
(* any of the places where it must be looked for.                          *)
(***************************************************************************)
EXTENDS Uhdr

CONSTANTS Place,        \* places of the boot device an image may start at
          UbootMax,     \* UBOOT_MAX_LEN
          FipMax        \* FIP_MAX_LEN

VARIABLES content,      \* what lies at each place; never changes
          mayUse,       \* the places u-boot and fip may be taken from
          mustTry,      \* those that must be tried before giving up
          faulted,      \* a device operation has failed
          phase,        \* "loading", "ready" or "refused"
          booted        \* the places the two images in memory came from

vars == <<content, mayUse, mustTry, faulted, phase, booted>>

Nothing == [uboot |-> {}, fip |-> {}]

Init ==
    /\ content \in [Place -> Image]
    /\ mayUse \in [uboot : SUBSET Place, fip : SUBSET Place]
    /\ mustTry.uboot \subseteq mayUse.uboot /\ mustTry.fip \subseteq mayUse.fip
    /\ faulted = FALSE
    /\ phase = "loading"
    /\ booted = Nothing

WholeUboots(places) == {p \in places : Whole(content[p], "uboot", UbootMax)}
WholeFips(places) == {p \in places : Whole(content[p], "fip", FipMax)}

(* a device operation fails; the loader may go on or give up *)
Fault ==
    /\ phase = "loading"
    /\ faulted' = TRUE
    /\ phase' \in {"loading", "refused"}
    /\ UNCHANGED <<content, mayUse, mustTry, booted>>

(* hand over: both images are whole and come from where the medium says they
   are, device failures on the way or not *)
HandOver ==
    /\ phase = "loading"
    /\ phase' = "ready"
    /\ \E u \in WholeUboots(mayUse.uboot), f \in WholeFips(mayUse.fip) :
          booted' = [uboot |-> {u}, fip |-> {f}]
    /\ UNCHANGED <<content, mayUse, mustTry, faulted>>

Refuse ==
    /\ phase = "loading"
    /\ \/ faulted
       \/ WholeUboots(mustTry.uboot) = {} \/ WholeFips(mustTry.fip) = {}
    /\ phase' = "refused"
    /\ UNCHANGED <<content, mayUse, mustTry, faulted, booted>>

Next == Fault \/ HandOver \/ Refuse

Spec == Init /\ [][Next]_vars
=============================================================================
