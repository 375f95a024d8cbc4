------------------------------- MODULE MCUsb -------------------------------
(* What may be plugged in: at the root, and at the hub if there is one. *)
EXTENDS Usb
MCRoots == {[root |-> <<"disk">>, hub |-> <<>>],
            [root |-> <<"broken", "other">>, hub |-> <<>>],
            [root |-> <<"other", "empty">>, hub |-> <<>>],
            [root |-> <<"empty", "hub">>, hub |-> <<"empty", "empty">>],
            [root |-> <<"hub">>, hub |-> <<"empty", "empty">>],
            [root |-> <<"hub">>, hub |-> <<"broken", "disk", "other">>],
            [root |-> <<"hub">>, hub |-> <<"disk", "disk">>]}
=============================================================================
