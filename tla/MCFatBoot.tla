----------------------------- MODULE MCFatBoot ------------------------------
(* FatBoot on small cards and disks: up to two clusters of two sectors with
   two entries each in the root directory; a sector is 4 units. *)
EXTENDS FatBoot, FatRead

MCBytePerSect == 2

Img(name, size, body) ==
    [magic |-> TRUE, hcrc |-> TRUE, body |-> body, name |-> name, size |-> size]

Isp(size) == [name |-> "ISPBOOOT", size |-> size]
Uboot == [name |-> "U-BOOT", size |-> 1]
Fip == [name |-> "FIP", size |-> 1]
Other == [name |-> "other", size |-> 1]

Sec(a, b) == <<a, b>>

(* ISPBOOOT.BIN is empty (0), small (1) or large (2) *)
Roots16(n) == {<<<<Sec(Uboot, Fip), Sec(Isp(n), Other)>>>>,
               <<<<Sec(Isp(n), Other), Sec(Other, Other)>>>>}
Roots32(n) == {<<<<Sec(Uboot, Other), Sec(Fip, Other)>>, <<Sec(Isp(n), Other)>>>>,
               <<<<Sec(Isp(n), Uboot), Sec(Other, Fip)>>>>,
               <<<<Sec(Other, Other)>>>>}

(* the last unit of the data is at the end of a sector, so that the signature
   has a sector of its own, or it is not; an image that is torn, too large or
   empty, or none at all *)
Imgs(name) == {Img(name, 7, TRUE), Img(name, 5, TRUE), Img(name, 5, FALSE),
               Img(name, 9, TRUE), Img(name, 0, TRUE), NotAnImage}

Content2(u, f, iu, fi) ==
    [s \in Spot |-> CASE s = "U-BOOT" -> u [] s = "FIP" -> f
                      [] s = "isp_uboot" -> iu [] s = "isp_fip" -> fi
                      [] OTHER -> NotAnImage]

DiskWith(mbr, fatType, root, table, img) ==
    [mbr |-> mbr, fatType |-> fatType, root |-> root, table |-> table, img |-> img]

U == Img("uboot", 7, TRUE)
F == Img("fip", 5, TRUE)
Good == Content2(U, F, U, F)

Volumes(n) == {<<"FAT_16", r>> : r \in Roots16(n)}
              \union {<<"FAT_32", r>> : r \in Roots32(n)}
              \union {<<"none", r>> : r \in Roots16(n)}
Disks(n, tables, imgs) ==
    {DiskWith(m, v[1], v[2], t, c) : m \in BOOLEAN, v \in Volumes(n),
                                     t \in tables, c \in imgs}

(* every directory with good images, every image with one directory *)
SdCards ==
    UNION {Disks(n, {"absent", "without fip", "with fip"}, {Good}) : n \in 0..2}
    \union {DiskWith(FALSE, "FAT_16", r, "with fip", Content2(u, f, u, f)) :
               r \in UNION {Roots16(n) : n \in 1..2},
               u \in Imgs("uboot"), f \in Imgs("fip")}
UsbDisks == UNION {{d \in Disks(n, {"without fip", "with fip"}, {Good}) : ~d.mbr} : n \in 0..2}
FewDisks == {d \in UsbDisks : d.table = "with fip" /\ d.root \in Roots16(0) \union Roots16(2)}

MCSetups ==
    {[type |-> "SDCARD_ISP", hub |-> FALSE, disks |-> <<d>>] : d \in SdCards}
    \union {[type |-> "USB_ISP", hub |-> h, disks |-> <<d>>] : h \in BOOLEAN, d \in UsbDisks}
    \union {[type |-> "USB_ISP", hub |-> TRUE, disks |-> <<d, e>>] : d \in FewDisks, e \in FewDisks}

(* Single reads: of one, two and three scattered clusters, from each offset,
   also a little behind the end of the file; and the training table. *)
Vols == {[fatType |-> t[1], mark |-> t[2], sectPerClus |-> n, chain |-> c, sd |-> b] :
            t \in {<<"FAT_32", END>>, <<"FAT_32", END32>>, <<"FAT_16", 65535>>},
            n \in {1, 2, 4}, c \in {<<3>>, <<5, 3>>, <<3, 6, 4>>}, b \in BOOLEAN}
Calls(op, v, offsets, lengths) ==
    {[vol |-> v, op |-> op, offset |-> o, length |-> l] : o \in offsets, l \in lengths}
Bytes(v) == Len(v.chain) * v.sectPerClus * MCBytePerSect
MCRequests ==
    UNION {{r \in Calls("read", v, 0..Bytes(v), 0..Bytes(v)) :
               r.offset + r.length <= Bytes(v) + MCBytePerSect} : v \in Vols}
    \union UNION {Calls("train", v, 0..Bytes(v) \div MCBytePerSect, {0}) : v \in Vols}
    \union Calls("none", CHOOSE v \in Vols : TRUE, {0}, {0})

(* A single read, on one setup, or do_fat_boot on each of them.  The read goes
   first, so that the end is the end of do_fat_boot. *)
OneSetup == CHOOSE s \in Setups : TRUE
MCInit == \/ NoRead /\ Init
          \/ setup = OneSetup /\ Init /\ ReadInit
MCNext == \/ rd.at # "idle" /\ ReadNext /\ UNCHANGED vars
          \/ rd.at = "idle" /\ Next /\ UNCHANGED reader
MCSpec == MCInit /\ [][MCNext]_<<vars, reader>> /\ WF_<<vars, reader>>(MCNext)
=============================================================================
