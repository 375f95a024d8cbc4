---------------------------- MODULE MCXbootMain ----------------------------
(* xboot_main() on boards that differ in one thing each. *)
EXTENDS XbootMain

Plain == [mode |-> "SPI_NOR_BOOT", int_boot |-> TRUE, pin_x |-> 2, regulator |-> "none",
          stampA30 |-> FALSE, otp_hs |-> FALSE, secure |-> FALSE, encryption |-> FALSE,
          cpio |-> "off"]

(* every boot mode; each regulator, the tool and the link on one board *)
MCBoards ==
    {[Plain EXCEPT !.mode = m, !.pin_x = x, !.secure = (m = "EMMC_BOOT"), !.encryption = (x = 1)] :
        m \in Mode \ {"SPI_NOR_BOOT"}, x \in 1..2}
    \union {Plain, [Plain EXCEPT !.mode = "PARA_NAND_BOOT", !.int_boot = FALSE]}
    \union {[Plain EXCEPT !.secure = TRUE, !.encryption = TRUE]}
    \union {[Plain EXCEPT !.mode = "EMMC_BOOT", !.regulator = r, !.stampA30 = (r = "RT5759")] :
            r \in {"RT5759", "STI8070X"}}
    \union {[Plain EXCEPT !.mode = "EMMC_BOOT", !.otp_hs = TRUE]}
    \union {[Plain EXCEPT !.mode = "UART_ISP", !.cpio = c] : c \in {"master", "slave"}}
    \union {[Plain EXCEPT !.mode = "EMMC_BOOT", !.cpio = c] : c \in {"master", "slave"}}

Img(n, s) == [magic |-> TRUE, hcrc |-> TRUE, body |-> TRUE, name |-> n, size |-> s]
(* whole, torn, with a damaged header, empty, or no image at all *)
MCNorImages ==
    {NotAnImage, Img("fip", 3), [Img("fip", 2) EXCEPT !.hcrc = FALSE], Img("uboot", 2),
     Img("uboot", 0), [Img("uboot", 3) EXCEPT !.body = FALSE]}

(* What a board never looks at has one value only. *)
MCInit ==
    /\ Init
    /\ (board.regulator = "none" => chip.kind = "absent" /\ ~stuck /\ power.iso = {})
    /\ (~board.otp_hs => fuse = [a \in Addr |-> a = 13] /\ ~data)

MCSpec == MCInit /\ [][Next]_all /\ Fairness
=============================================================================
