----------------------------- MODULE MCEmmcBoot -----------------------------
(* EmmcBoot on small disks: four partitions, each with one of a few kinds of
   content; a sector is 4 units, an image of size 2 fits into its first one. *)
EXTENDS EmmcBoot

CONSTANTS P0, P1, P2, P3, Boot0, Fip0, Alt0

MCLba == {P0, P1, P2, P3, Boot0, Fip0, Alt0}

Img(name, size, magic, hcrc, body) ==
    [magic |-> magic, hcrc |-> hcrc, body |-> body, name |-> name, size |-> size]

(* whole in one sector, whole in two, torn update, damaged header, no header,
   a header with a size that is too large, or zero, another image *)
UbootKinds == {Img("uboot", 2, TRUE, TRUE, TRUE), Img("uboot", 6, TRUE, TRUE, TRUE),
               Img("uboot", 6, TRUE, TRUE, FALSE), NotAnImage}
OtherKinds == {Img("uboot", 6, TRUE, FALSE, TRUE), Img("uboot", 7, TRUE, TRUE, TRUE),
               Img("uboot", 0, TRUE, TRUE, TRUE), Img("fip", 6, TRUE, TRUE, TRUE)}
FipKinds == {Img("fip", 3, TRUE, TRUE, TRUE), Img("fip", 7, TRUE, TRUE, TRUE),
             Img("fip", 3, TRUE, TRUE, FALSE)}

Part == [n \in Entry |-> CASE n = 0 -> P0 [] n = 1 -> P1 [] n = 2 -> P2 [] n = 3 -> P3]

MkDisk(gpt, c0, c1, c2, c3, f) ==
    [gpt |-> gpt, part |-> Part,
     img |-> [l \in MCLba |-> CASE l = P0 -> c0 [] l = P1 -> c1 [] l = P2 -> c2
                                [] l = P3 -> c3 [] l = Fip0 -> f
                                [] OTHER -> NotAnImage]]

Fip == Img("fip", 7, TRUE, TRUE, TRUE)

MCDisks ==
    {MkDisk(TRUE, c[1], c[2], c[3], c[4], Fip) : c \in [1..4 -> UbootKinds]}
    \union {MkDisk(g, c[1], c[2], c[3], c[3], Fip) :
        g \in BOOLEAN, c \in [1..3 -> UbootKinds \union OtherKinds]}
    \union {MkDisk(TRUE, c[1], c[2], c[3], c[3], f) :
        c \in [1..3 -> UbootKinds], f \in FipKinds}
=============================================================================
