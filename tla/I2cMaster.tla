----------------------------- MODULE I2cMaster -----------------------------
(***************************************************************************)
(* The polled I2C driver (i2c/sp_i2c.c), the controller it polls and the   *)
(* voltage regulator on the bus.  Transfers of xBoot are of one or two     *)
(* bytes and fit the FIFO, so it is filled in one go.                      *)
(***************************************************************************)
EXTENDS Board

CONSTANT PollLimit      \* the limits of all polling loops

Byte == 0..255
READ == -1              \* I2C_READ_TX_DATA in the FIFO

ASSUME I2cAssumption == PollLimit \in Nat \ {0}

VARIABLES chip,     \* the regulator: which one, its registers and its pointer
          stuck,    \* the bus is held and nothing moves
          bus,      \* the controller: FIFOs, activity, TX_ABRT
          xfer      \* i2c_mas_ctlr and the locals of the driver

i2c == <<chip, stuck, bus, xfer>>

Chips == {"RT5759", "STI8070X", "other", "absent"}
Regs(kind) == CASE kind = "RT5759"   -> [r \in {0, 2} |-> IF r = 0 THEN 130 ELSE 0]
                [] kind = "STI8070X" -> [r \in {0, 3, 4} |-> CASE r = 0 -> 0 [] r = 3 -> 136 [] r = 4 -> 1]
                [] OTHER             -> [r \in {0, 3, 4} |-> CASE r = 0 -> 0 [] r = 3 -> 136 [] r = 4 -> 2]
Register(r) == IF r \in DOMAIN chip.regs THEN chip.regs[r] ELSE 255

Quiet == [on |-> FALSE, active |-> FALSE, first |-> TRUE, abort |-> FALSE,
          tx |-> <<>>, shift |-> <<>>, rx |-> <<>>]
NoXfer == [reads |-> 0, ReadTxlen |-> 0, got |-> <<>>, wait |-> 0, then |-> "none"]

I2cInit ==
    /\ \E k \in Chips : chip = [kind |-> k, regs |-> Regs(k), pointer |-> 0]
    /\ stuck \in BOOLEAN
    /\ bus = Quiet /\ xfer = NoXfer

(***************************************************************************)
(* The controller and the chip.                                            *)
(***************************************************************************)
Begin ==
    /\ bus.on /\ ~stuck /\ ~bus.active /\ bus.tx # <<>>
    /\ bus' = [bus EXCEPT !.active = TRUE]
    /\ Fine /\ UNCHANGED <<chip, stuck, xfer, pc>>

(* An entry of the FIFO goes into the shift register. *)
Shift ==
    /\ bus.active /\ ~stuck /\ bus.shift = <<>> /\ bus.tx # <<>>
    /\ bus' = [bus EXCEPT !.shift = <<Head(bus.tx)>>, !.tx = Tail(@)]
    /\ Fine /\ UNCHANGED <<chip, stuck, xfer, pc>>

(* It is acknowledged: the first byte written sets the chip's pointer, the
   next ones go to its registers; a byte read comes from there. *)
MoveByte ==
    /\ bus.active /\ ~stuck /\ bus.shift # <<>> /\ chip.kind # "absent"
    /\ LET b == Head(bus.shift) IN
       /\ bus' = [bus EXCEPT !.shift = <<>>, !.first = FALSE,
                             !.rx = IF b = READ THEN Append(@, Register(chip.pointer)) ELSE @]
       /\ chip' = IF b = READ THEN chip
                  ELSE IF bus.first THEN [chip EXCEPT !.pointer = b]
                  ELSE IF chip.pointer \in DOMAIN chip.regs
                       THEN [chip EXCEPT !.regs[chip.pointer] = b] ELSE chip
    /\ Fine /\ UNCHANGED <<stuck, xfer, pc>>

Nack ==
    /\ bus.active /\ ~stuck /\ bus.shift # <<>>
    /\ IF chip.kind = "absent" THEN Fine ELSE Fault
    /\ bus' = [bus EXCEPT !.tx = <<>>, !.shift = <<>>, !.abort = TRUE]
    /\ UNCHANGED <<chip, stuck, xfer, pc>>

Stop ==
    /\ bus.active /\ ~stuck /\ bus.tx = <<>> /\ bus.shift = <<>>
    /\ bus' = [bus EXCEPT !.active = FALSE]
    /\ Fine /\ UNCHANGED <<chip, stuck, xfer, pc>>

(* The chip holds the bus. *)
Hang == /\ bus.active /\ ~stuck /\ stuck' = TRUE
        /\ Fault /\ UNCHANGED <<chip, bus, xfer, pc>>

Moves == Begin \/ Shift \/ MoveByte \/ Stop \/ (chip.kind = "absent" /\ Nack)
Controller == Begin \/ Shift \/ MoveByte \/ Nack \/ Stop \/ Hang

(***************************************************************************)
(* The driver.                                                             *)
(***************************************************************************)
(* sp_i2c_en: the controller is reset *)
sp_i2c_en == bus' = Quiet

(* up to the first loop: everything is in the FIFO *)
Transfer(bytes, reads, then) ==
    /\ bus' = [Quiet EXCEPT !.on = TRUE, !.tx = bytes \o [i \in 1..reads |-> READ]]
    /\ xfer' = [reads |-> reads, ReadTxlen |-> reads, got |-> <<>>, wait |-> 0, then |-> then]
    /\ pc' = "i2c_fill"
sp_i2c_write(bytes, then) == Transfer(bytes, 0, then)
sp_i2c_read(n, then) == Transfer(<<>>, n, then)
sp_i2c_restart_one(reg, n, then) == Transfer(<<reg>>, n, then)

(* the end of all three functions: the controller is switched off *)
Done(action) ==
    /\ bus' = Quiet
    /\ pc' = IF action = 1 THEN xfer.then ELSE "i2c_error"
    /\ xfer' = [xfer EXCEPT !.wait = 0]

Poll(limit) == xfer.wait < limit /\ xfer' = [xfer EXCEPT !.wait = @ + 1]

(* one byte is taken out of the receive FIFO, if there is one *)
Popped == IF bus.rx = <<>> THEN xfer
          ELSE [xfer EXCEPT !.got = Append(@, Head(bus.rx)), !.ReadTxlen = @ - 1, !.wait = 0]
Rest == IF bus.rx = <<>> THEN <<>> ELSE Tail(bus.rx)

(* the wait for the activity, one received byte, then the first look at
   the interrupts *)
WaitActive ==
    /\ pc = "i2c_fill"
    /\ \/ ~bus.active /\ Poll(PollLimit) /\ UNCHANGED <<bus, pc>>
       \/ /\ bus.active \/ xfer.wait = PollLimit
          /\ IF bus.abort THEN Done(0)
             ELSE LET x == IF xfer.reads > 0 THEN Popped ELSE xfer IN
                  /\ xfer' = [x EXCEPT !.wait = 0]
                  /\ bus' = IF xfer.reads > 0 THEN [bus EXCEPT !.rx = Rest] ELSE bus
                  /\ pc' = IF xfer.reads > 0 THEN "i2c_drain" ELSE "i2c_write"
    /\ Fine /\ UNCHANGED <<chip, stuck>>

(* sp_i2c_write, second loop: the activity is looked at before TX_ABRT *)
WriteEnds ==
    /\ pc = "i2c_write"
    /\ IF ~bus.active THEN Done(1)
       ELSE IF bus.abort THEN Done(0)
       ELSE \/ Poll(PollLimit) /\ UNCHANGED <<bus, pc>>
            \/ xfer.wait = PollLimit /\ Done(0)
    /\ Fine /\ UNCHANGED <<chip, stuck>>

(* the reads, second loop: TX_ABRT, the limit, and then the empty FIFO *)
DrainEnds ==
    /\ pc = "i2c_drain"
    /\ IF bus.abort \/ xfer.wait = PollLimit THEN Done(0)
       ELSE IF bus.tx = <<>> THEN /\ pc' = "i2c_collect" /\ xfer' = [xfer EXCEPT !.wait = 0]
                                  /\ UNCHANGED bus
       ELSE Poll(PollLimit) /\ UNCHANGED <<bus, pc>>
    /\ Fine /\ UNCHANGED <<chip, stuck>>

(* mutant: the wait for the bytes has no limit *)
Collected_never == xfer.ReadTxlen = 0
(* the reads, third loop: it ends with the last byte or after a number of
   polls, and that end is not told from the other *)
Collected == xfer.ReadTxlen = 0 \/ xfer.wait = PollLimit + 1
Collect ==
    /\ pc = "i2c_collect"
    /\ IF Collected THEN Done(1)
       ELSE IF bus.abort THEN Done(0)
       ELSE IF bus.rx # <<>> THEN xfer' = Popped /\ bus' = [bus EXCEPT !.rx = Rest] /\ UNCHANGED pc
       ELSE Poll(PollLimit + 1) /\ UNCHANGED <<bus, pc>>
    /\ Fine /\ UNCHANGED <<chip, stuck>>

Driver == WaitActive \/ WriteEnds \/ DrainEnds \/ Collect
=============================================================================
