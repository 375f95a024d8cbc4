-------------------------------- MODULE Otp --------------------------------
(***************************************************************************)
(* The one-time programmable memory: the production bit read at the start, *)
(* the trim of the SD supplies (xboot.c:2106-2146), and the tool that lets *)
(* a host on the serial line read and burn fuses (otp/mon_rw_otp.c).       *)
(* A fuse stands for the bits of one OTP byte that xBoot looks at.         *)
(***************************************************************************)
EXTENDS Board

CONSTANT MaxPackages    \* bound on the packages of the host

Trims == 13..14         \* OTP bytes of the SDIO and SD supplies
Addr == {0} \union Trims
Ranges == {r \in SUBSET Trims : r # {}}

Connect == [cmd |-> "connect"]
Disconnect == [cmd |-> "disconnect"]
Bad == [cmd |-> "bad"]          \* a wrong checksum, bytes lost on the line
None == [cmd |-> "none"]
Read(r) == [cmd |-> "read", range |-> r]
Write(v) == [cmd |-> "write", data |-> v]
(* The range of a command need not fit its payload: past it the data of a write
   are what the buffer holds, here any data.  ReadOn and WriteOn have a range
   whose last byte is 0xFFFF, the end of a u16. *)
ReadOn == [cmd |-> "read_on"]
WriteOn == [cmd |-> "write_on"]
Packages == {ReadOn, WriteOn, Connect, Disconnect, Bad} \union {Read(r) : r \in Ranges}
            \union UNION {{Write(v) : v \in [r -> BOOLEAN]} : r \in Ranges}

VARIABLES fuse,     \* the memory
          mp_flag,  \* g_bootinfo.mp_flag
          ldo,      \* the supplies in resistor mode
          data,     \* check_ldo: the local that is not initialised
          pkg,      \* the package in `data' of receive_rw_package
          todo,     \* write_otp_data: the bytes still to be burnt
          rlt,      \* write_otp_data: no byte has failed
          reply,    \* the last package sent to the host
          packages

otp == <<fuse, mp_flag, ldo, data, pkg, todo, rlt, reply, packages>>

OtpInit ==
    /\ fuse \in [Addr -> BOOLEAN] /\ mp_flag = FALSE /\ ldo = {}
    /\ data \in BOOLEAN
    /\ pkg = None /\ todo = {} /\ rlt = TRUE /\ reply = "none" /\ packages = 0

(* otprx_read: the value of the fuse, or -1 after the time-out and the
   caller's variable stays as it is *)
otprx_read(addr, old, value) ==
    \/ value = fuse[addr] /\ Fine
    \/ value = old /\ Fault

ReadMpBit ==
    /\ pc = "xboot_main" /\ pc' = "init_hw"
    /\ \E v \in BOOLEAN : otprx_read(0, FALSE, v) /\ mp_flag' = v
    /\ UNCHANGED <<board, fuse, ldo, data, pkg, todo, rlt, reply, packages>>

(* write_package: production chips send nothing *)
Send(what) == reply' = IF mp_flag THEN reply ELSE what

MonRwOtp ==
    /\ pc = "init_done"
    /\ IF board.otp_hs THEN Send("connect") /\ pc' = "otp_handshake"
       ELSE UNCHANGED reply /\ pc' = "ldo_13"
    /\ Fine /\ UNCHANGED <<board, fuse, mp_flag, ldo, data, pkg, todo, rlt, packages>>

(* receive_package: the host sends while xBoot listens *)
Receive ==
    /\ pc \in {"otp_handshake", "otp_rw"} /\ pkg = None
    /\ packages < MaxPackages /\ packages' = packages + 1
    /\ pkg' \in Packages
    /\ Fine /\ UNCHANGED <<board, pc, fuse, mp_flag, ldo, data, todo, rlt, reply>>

(* after parser_package: the tool goes on only once it is connected *)
Parsed(connected) ==
    /\ pkg' = None
    /\ pc' = IF connected THEN "otp_rw" ELSE "ldo_13"

(* parser_package, except for the command that writes; a handshake ends
   with the first package, whatever it was *)
Parse ==
    /\ pc \in {"otp_handshake", "otp_rw"} /\ pkg.cmd \in {"connect", "disconnect", "bad", "read"}
    /\ CASE pkg.cmd = "connect"    -> IF pc = "otp_handshake" THEN Send("connected") ELSE UNCHANGED reply
         [] pkg.cmd = "disconnect" -> Send("bye")
         [] pkg.cmd = "read"       -> Send("data")
         [] OTHER                  -> UNCHANGED reply
    /\ Parsed(\/ pkg.cmd = "connect"
              \/ pc = "otp_rw" /\ pkg.cmd # "disconnect")
    /\ IF pkg.cmd = "read" THEN Fine \/ Fault ELSE Fine
    /\ UNCHANGED <<board, fuse, mp_flag, ldo, data, todo, rlt, packages>>

(* `address <= endbyte' holds for every u16 when endbyte is 0xFFFF: the loops
   begin at 0 again and never end, and the one that writes burns whatever lies
   in memory where its data would be. *)
StartEndless ==
    /\ pc \in {"otp_handshake", "otp_rw"} /\ pkg \in {ReadOn, WriteOn}
    /\ pc' = "otp_endless"
    /\ Fine /\ UNCHANGED <<board, fuse, mp_flag, ldo, data, pkg, todo, rlt, reply, packages>>

Endless ==
    /\ pc = "otp_endless"
    /\ IF pkg = WriteOn THEN \E a \in Addr : fuse' = [fuse EXCEPT ![a] = TRUE]
       ELSE UNCHANGED fuse
    /\ Fine /\ UNCHANGED <<board, pc, mp_flag, ldo, data, pkg, todo, rlt, reply, packages>>

StartWrite ==
    /\ pc \in {"otp_handshake", "otp_rw"} /\ pkg.cmd = "write"
    /\ pc' = IF pc = "otp_rw" THEN "otp_burn" ELSE "otp_burn_early"
    /\ todo' = DOMAIN pkg.data /\ rlt' = TRUE
    /\ Fine /\ UNCHANGED <<board, fuse, mp_flag, ldo, data, pkg, reply, packages>>

(* mutant: the result of the last byte counts *)
Result_last(ok) == ok
(* write_otp_data: one failed byte makes the result FALSE *)
Result(ok) == rlt /\ ok
(* otprx_write: a fuse is burnt for good; or the time is over *)
Burn ==
    /\ pc \in {"otp_burn", "otp_burn_early"} /\ todo # {}
    /\ LET a == CHOOSE x \in todo : \A y \in todo : x <= y IN
       /\ todo' = todo \ {a}
       /\ \/ Fine /\ rlt' = Result(TRUE) /\ fuse' = [fuse EXCEPT ![a] = @ \/ pkg.data[a]]
          \/ Fault /\ rlt' = Result(FALSE) /\ UNCHANGED fuse
    /\ UNCHANGED <<board, pc, mp_flag, ldo, data, pkg, reply, packages>>

Written ==
    /\ pc \in {"otp_burn", "otp_burn_early"} /\ todo = {}
    /\ IF rlt THEN Send("ok") ELSE Send("failed")
    /\ Parsed(pc = "otp_burn") /\ rlt' = TRUE
    /\ Fine /\ UNCHANGED <<board, fuse, mp_flag, ldo, data, todo, packages>>

(* 200 ms without a package end the handshake, and only that *)
HandshakeExpires ==
    /\ pc = "otp_handshake" /\ pkg = None /\ pc' = "ldo_13"
    /\ Fine /\ UNCHANGED <<board, otp>>

(* check_ldo: a read that fails leaves `data' as it was *)
CheckLdo(a) ==
    /\ \E v \in BOOLEAN :
          /\ otprx_read(a, data, v)
          /\ ldo' = IF v THEN ldo \union {a} ELSE ldo
          /\ data' = IF a = 14 THEN FALSE ELSE v
    /\ pc' = IF a = 14 THEN "boot_flow" ELSE "ldo_14"
    /\ UNCHANGED <<board, fuse, mp_flag, pkg, todo, rlt, reply, packages>>
CheckLdo13 == pc = "ldo_13" /\ CheckLdo(13)
CheckLdo14 == pc = "ldo_14" /\ CheckLdo(14)

OtpStep == \/ ReadMpBit \/ MonRwOtp \/ Parse \/ StartWrite \/ Burn \/ Written
           \/ StartEndless \/ Endless \/ HandshakeExpires \/ CheckLdo13 \/ CheckLdo14
OtpNext == OtpStep \/ Receive

(* The host is told that a write went well only when every bit it asked for
   is burnt, a byte that failed in the middle included
   (otp/mon_rw_otp.c:208-228). *)
AckMeansBurned ==
    pc \in {"otp_burn", "otp_burn_early"} /\ todo = {} /\ rlt =>
        \A a \in DOMAIN pkg.data : pkg.data[a] => fuse[a]
=============================================================================
