------------------------------- MODULE FatRead -------------------------------
(***************************************************************************)
(* How fat_read_file() and fat_read_fat_for_training_fw() find the bytes   *)
(* of a file on a volume (fat/fat_boot.c:28-317).  One action is one read  *)
(* of the device.  A byte is named by the sector it lies in, counted from  *)
(* the first data sector, and its place there.  All reads succeed here:    *)
(* FatBoot has those that fail, which fat_read_file does not notice.       *)
(***************************************************************************)
EXTENDS Integers, Sequences

CONSTANTS Requests,     \* [vol, op, offset, length] of the instance
          BytePerSect,  \* bytePerSect
          MaxTable      \* MAX_TRAINING_FW_LEN

END == 268435455        \* 0x0FFFFFFF
END32 == 268435448      \* 0x0FFFFFF8
END16 == 65525          \* 0xFFF5
TOP == 268431360        \* 0x0FFFF000
Volume32 == [fatType : {"FAT_32", "FAT_16"}, sectPerClus : {1, 2, 4, 8, 16, 32, 64, 128},
             chain : Seq(Nat), mark : Nat, sd : BOOLEAN]

ASSUME RequestAssumption ==
    /\ BytePerSect \in Nat \ {0} /\ MaxTable \in Nat \ {0}
    /\ \A r \in Requests :
          /\ r.vol \in Volume32 /\ Len(r.vol.chain) > 0
          /\ r.op \in {"none", "read", "train"} /\ r.offset \in Nat /\ r.length \in Nat
    /\ \E r \in Requests : r.op = "none"

(* A file has each of its clusters once, and none has a number that the program
   takes for the end of a file. *)
ASSUME ChainAssumption ==
    \A r \in Requests : LET chain == r.vol.chain IN
        /\ \A k, l \in DOMAIN chain : chain[k] = chain[l] => k = l
        /\ \A k \in DOMAIN chain :
              chain[k] \in 2..(IF r.vol.fatType = "FAT_32" THEN TOP ELSE END16) - 1

VARIABLES req,  \* the call, and the volume with the file's chain of clusters
          rd    \* the locals, and what has been stored

reader == <<req, rd>>

Spc == req.vol.sectPerClus
BytesPerClus == Spc * BytePerSect

NoCall == CHOOSE r \in Requests : r.op = "none"

Locals(r) ==
    [at |-> CASE r.op = "none" -> "idle" [] r.op = "read" -> "walk" [] OTHER -> "fill",
     cluster |-> Head(r.vol.chain), off |-> r.offset \div BytePerSect,
     size |-> r.length, dest |-> 0, i |-> 0, got |-> <<>>]
ReadInit == req \in Requests /\ rd = Locals(req)
NoRead == req = NoCall /\ rd = Locals(NoCall)

(* next_cluster: the entry of the last cluster is a mark, and there is
   anything where the program takes the mark for a cluster *)
NextOf(c) ==
    LET chain == req.vol.chain IN
    IF \E k \in DOMAIN chain : chain[k] = c
    THEN LET k == CHOOSE n \in DOMAIN chain : chain[n] = c IN
         {IF k = Len(chain) THEN req.vol.mark ELSE chain[k + 1]}
    ELSE {2, END}
AtEnd(c) == IF req.vol.fatType = "FAT_32" THEN c >= END32 ELSE c >= END16

SectorOf(c, off) == (c - 2) * Spc + off

(* n bytes of the sectors from s on, from place j of the first, are stored *)
Stored(s, j, n) ==
    [k \in 0..rd.dest + n - 1 |->
        IF k < rd.dest THEN rd.got[k]
        ELSE LET b == j + k - rd.dest IN <<s + b \div BytePerSect, b % BytePerSect>>]

(* mutant: the cluster does not end *)
OnCluster_never(off) == FALSE
OnCluster(off) == off % Spc = 0

(* where the function is when so much is left and it is at this offset *)
Part(off, size) == IF ~OnCluster(off) THEN "part"
                   ELSE IF size >= BytesPerClus THEN "whole" ELSE "rest"

(* go to the target cluster *)
Walk ==
    /\ rd.at = "walk"
    /\ IF req.length = 0 \/ (rd.off >= Spc /\ AtEnd(rd.cluster))
       THEN rd' = [rd EXCEPT !.at = "fail"]
       ELSE IF rd.off >= Spc
       THEN \E c \in NextOf(rd.cluster) : rd' = [rd EXCEPT !.cluster = c, !.off = @ - Spc]
       ELSE rd' = [rd EXCEPT !.at = IF req.offset % BytePerSect # 0 THEN "head"
                                    ELSE Part(rd.off, rd.size)]

(* the end of the first sector *)
HeadRead ==
    /\ rd.at = "head"
    /\ LET remain == req.offset % BytePerSect
           short == remain + req.length < BytePerSect
           n == IF short THEN req.length ELSE BytePerSect - remain
           size == IF short THEN 0 ELSE rd.size - n
           off == rd.off + 1
       IN \E c \in IF OnCluster(off) THEN NextOf(rd.cluster) ELSE {rd.cluster} :
             rd' = [rd EXCEPT !.got = Stored(SectorOf(rd.cluster, rd.off), remain, n),
                              !.dest = @ + BytePerSect - remain, !.size = size,
                              !.off = IF OnCluster(off) THEN 0 ELSE off, !.cluster = c,
                              !.at = IF size = 0 THEN "pass"
                                     ELSE Part(IF OnCluster(off) THEN 0 ELSE off, size)]

(* the sectors up to the next cluster *)
PartRead ==
    /\ rd.at = "part"
    /\ LET s == SectorOf(rd.cluster, rd.off) IN
       IF rd.size < BytePerSect
       THEN rd' = [rd EXCEPT !.got = Stored(s, 0, rd.size), !.at = "pass"]
       ELSE \E c \in IF OnCluster(rd.off + 1) THEN NextOf(rd.cluster) ELSE {rd.cluster} :
               rd' = [rd EXCEPT !.got = Stored(s, 0, BytePerSect), !.dest = @ + BytePerSect,
                                !.size = @ - BytePerSect, !.off = @ + 1, !.cluster = c,
                                !.at = Part(rd.off + 1, rd.size - BytePerSect)]

(* txfer_sects *)
Transfers == CASE Spc % 8 = 0 -> 8
               [] req.vol.sd /\ Spc % 8 # 0 /\ Spc % 2 = 0 -> 2
               [] OTHER -> 1

(* Whole clusters; behind the last one of the chain the clusters of the
   volume are taken one after the other. *)
WholeRead ==
    /\ rd.at = "whole"
    /\ LET n == Transfers * BytePerSect
           j == rd.i + Transfers
           left == rd.size - BytesPerClus
           got == Stored(SectorOf(rd.cluster, rd.i), 0, n)
       IN \/ /\ j < Spc
             /\ rd' = [rd EXCEPT !.got = got, !.dest = @ + n, !.i = j]
          \/ /\ j >= Spc /\ left = 0
             /\ rd' = [rd EXCEPT !.got = got, !.dest = @ + n, !.i = 0, !.size = 0, !.at = "pass"]
          \/ /\ j >= Spc /\ left # 0
             /\ \E c \in NextOf(rd.cluster) :
                   rd' = [rd EXCEPT !.got = got, !.dest = @ + n, !.i = 0, !.size = left,
                                    !.at = Part(0, left),
                                    !.cluster = IF left < BytesPerClus /\ c >= TOP
                                                THEN rd.cluster + 1 ELSE c]

(* the sectors of the last cluster; i counts `sector' up *)
RestRead ==
    /\ rd.at = "rest"
    /\ LET s == SectorOf(rd.cluster, rd.i) IN
       rd' = IF rd.size >= BytePerSect
             THEN [rd EXCEPT !.got = Stored(s, 0, BytePerSect), !.dest = @ + BytePerSect,
                             !.size = @ - BytePerSect, !.i = @ + 1]
             ELSE [rd EXCEPT !.got = Stored(s, 0, rd.size), !.at = "pass"]

Take(n) ==
    [k \in 0..rd.i + n - 1 - req.offset |->
        IF k < rd.i - req.offset THEN rd.got[k]
        ELSE SectorOf(rd.cluster, k + req.offset - rd.i)]

(* fat_read_fat_for_training_fw, one cluster: the sectors of the file from
   `start_lba' on are put into a table, until it is full *)
Fill ==
    /\ rd.at = "fill"
    /\ LET room == MaxTable + req.offset - rd.i
           n == IF room < Spc THEN room ELSE Spc
       IN IF n = room
          THEN rd' = [rd EXCEPT !.got = Take(n), !.i = @ + n, !.at = "trained"]
          ELSE \E c \in NextOf(rd.cluster) :
                  rd' = [rd EXCEPT !.got = Take(n), !.i = @ + n, !.cluster = c,
                                   !.at = IF c = END THEN "trained" ELSE "fill"]

(* an entry nothing was put into is 0 *)
lba2sec_for_training_fw(lba) ==
    LET max == IF rd.i >= req.offset + 1 THEN rd.i - req.offset - 1 ELSE 0
        slot == IF lba > max THEN max ELSE lba
    IN  IF slot \in DOMAIN rd.got THEN rd.got[slot] ELSE 0

Read == Walk \/ HeadRead \/ PartRead \/ WholeRead \/ RestRead \/ Fill
Return ==
    /\ rd.at \in {"pass", "fail", "trained"}
    /\ req' = NoCall /\ rd' = Locals(NoCall)
ReadNext == (Read /\ UNCHANGED req) \/ Return
ReadSpec == ReadInit /\ [][ReadNext]_reader

(***************************************************************************)
(* What a file is.                                                         *)
(***************************************************************************)
FileSects == Len(req.vol.chain) * Spc
FileSect(n) == SectorOf(req.vol.chain[n \div Spc + 1], n % Spc)
FileByte(k) == <<FileSect(k \div BytePerSect), k % BytePerSect>>

(* A read that passes has stored the bytes of the file at that offset, each
   at its place, and not one behind the length that was asked for, however
   the offset lies in its sector and cluster and however the file is
   scattered (fat_boot.c:73-251). *)
ReadsTheFile ==
    rd.at = "pass" =>
        /\ DOMAIN rd.got = 0..req.length - 1
        /\ \A k \in DOMAIN rd.got :
              req.offset + k < FileSects * BytePerSect => rd.got[k] = FileByte(req.offset + k)

(* The table for the training firmware leads to the sectors of the file, also
   where the chain ends in a mark that the loop does not know
   (fat_boot.c:261-317). *)
TableIsTheFile ==
    rd.at = "trained" =>
        \A lba \in 0..MaxTable - 1 :
            req.offset + lba < FileSects => lba2sec_for_training_fw(lba) = FileSect(req.offset + lba)

(* Where a file is scattered over the volume does not matter: both functions
   find all of it, in order (fat_boot.c:73-317). *)
FileIsFound == ReadsTheFile /\ TableIsTheFile
=============================================================================
