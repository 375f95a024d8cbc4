----------------------------- MODULE MCNandBoot -----------------------------
(* NandBoot on chips of eight blocks of two pages.  A block holds four units,
   so an image of size 2 with its signature is one block, one of size 3 is one
   block with its signature in the next, and one of size 5 is two. *)
EXTENDS NandBoot

Img(nm, size, hcrc, body) ==
    [magic |-> TRUE, hcrc |-> hcrc, body |-> body, name |-> nm, size |-> size]

Uboots == {Img("uboot", 2, TRUE, TRUE), Img("uboot", 5, TRUE, TRUE),
           Img("uboot", 5, TRUE, FALSE), NotAnImage}
Others == {Img("uboot", 3, TRUE, TRUE), Img("uboot", 0, TRUE, FALSE),
           Img("uboot", 2, FALSE, TRUE), Img("fip", 2, TRUE, TRUE)}
Fip == Img("fip", 3, TRUE, TRUE)

(* u-boot candidates in blocks 0..3, fip candidates in 5 and 6 *)
MkChip(c, f, bad) ==
    [img |-> [b \in Blk |-> IF b < 4 THEN c[b + 1]
                            ELSE IF b \in {5, 6} THEN f[b - 4] ELSE NotAnImage],
     bad |-> bad]

(* a block behind the header of a whole image holds its data *)
Possible(c) ==
    \A b \in 1..3 : c[b].body /\ HdrSize + c[b].size > BlkUse => c[b + 1] = NotAnImage

Layouts(kinds) == {c \in [1..4 -> kinds] : Possible(c)}
Pages == 0..(LastBlk + 1) * PagesPerBlk - 1

MCChips ==
    {MkChip(c, <<Fip, NotAnImage>>, {}) : c \in Layouts(Uboots)}
    \union {MkChip(c, <<NotAnImage, Fip>>, {}) :
        c \in {l \in Layouts(Uboots \union Others) : l[4] \in {l[3], NotAnImage}}}
    \union {MkChip(<<a, NotAnImage, c, NotAnImage>>, <<Fip, NotAnImage>>, bad) :
        a, c \in Uboots, bad \in {{p} : p \in Pages} \union {{2, 3}}}
    \union {MkChip(<<a, NotAnImage, a, NotAnImage>>, f, {}) :
        a \in Uboots, f \in {<<NotAnImage, NotAnImage>>,
                             <<Img("fip", 3, TRUE, FALSE), Fip>>}}
=============================================================================
