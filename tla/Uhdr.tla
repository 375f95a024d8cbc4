-------------------------------- MODULE Uhdr --------------------------------
(***************************************************************************)
(* The U-Boot style image header that every loader of xBoot checks         *)
(* (include/image.h, lib/image.c).                                         *)
(*                                                                         *)
(* Sizes are counted in units of 64 bytes, the size of the header, so that *)
(* the arithmetic of the loaders on headers, sectors and signatures is     *)
(* kept while the instances stay small.                                    *)
(*                                                                         *)
(* An image is what lies at one place of a boot device.  A checksum is a   *)
(* Boolean: hcrc says that the header's own sum matches, body that the     *)
(* `size' units behind the header sum up to ih_dcrc.                       *)
(***************************************************************************)
EXTENDS Integers

ImageName == {"uboot", "fip", "other"}

Image == [magic : BOOLEAN, hcrc : BOOLEAN, body : BOOLEAN,
          name : ImageName, size : Nat]

(* sizeof(struct image_header): the unit *)
HdrSize == 1

(* bytes that are not an image: ih_magic differs from IH_MAGIC *)
NotAnImage == [magic |-> FALSE, hcrc |-> FALSE, body |-> FALSE,
               name |-> "other", size |-> 0]

image_check_magic(im) == im.magic

image_check_hcrc(im) == im.hcrc

(* mutant: the data sum is not looked at *)
image_check_dcrc_skipped(im, upto) == TRUE

(* The sum runs over the `size' units behind the header in memory.  It
   matches when the image on the device is uncorrupted and memory holds that
   many units of it (upto counts them from the start of the header). *)
image_check_dcrc(im, upto) == im.body /\ upto >= HdrSize + im.size

(* the three tests that a loader makes on a header it has read *)
HeaderOk(im, name) ==
    /\ image_check_magic(im)
    /\ im.name = name
    /\ image_check_hcrc(im)

(* an image a loader with this size limit has every reason to accept *)
Whole(im, name, limit) ==
    /\ HeaderOk(im, name)
    /\ im.size > 0
    /\ HdrSize + im.size < limit
    /\ im.body
=============================================================================
