------------------------------- MODULE TdQueue -------------------------------
(***************************************************************************)
(* What a ring of TRBs is for: the driver hands over the requests of one   *)
(* transfer (or one command) at a time, all of them at once, and the       *)
(* controller executes each of them exactly once and in order.             *)
(***************************************************************************)
EXTENDS Naturals, Sequences

CONSTANT MaxTd      \* how many requests a transfer may have

VARIABLES todo,     \* what the controller has to execute: each request is
                    \* known by how many are left with it
          busy      \* the driver waits for the transfer to complete

vars == <<todo, busy>>

Init == todo = <<>> /\ busy = FALSE

Submit ==
    /\ ~busy
    /\ \E n \in 1..MaxTd : todo' = [k \in 1..n |-> n + 1 - k]
    /\ busy' = TRUE

Execute ==
    /\ todo # <<>>
    /\ todo' = Tail(todo)
    /\ UNCHANGED busy

Complete ==
    /\ busy /\ todo = <<>>
    /\ busy' = FALSE
    /\ UNCHANGED todo

Next == Submit \/ Execute \/ Complete

Spec == Init /\ [][Next]_vars /\ WF_vars(Execute) /\ WF_vars(Complete)
=============================================================================
