------------------------------ MODULE MCMailbox ------------------------------
(* Instances of Mailbox for TLC. *)
EXTENDS Mailbox

LastTwo == {MaxFrames - 1, MaxFrames}
NoFrames == {}
=============================================================================
