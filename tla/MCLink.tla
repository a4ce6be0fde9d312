-------------------------------- MODULE MCLink --------------------------------
(* Instances of Link for TLC. *)
EXTENDS Link
=============================================================================
