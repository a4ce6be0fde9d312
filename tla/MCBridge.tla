------------------------------- MODULE MCBridge -------------------------------
(* Two controllers' images and a GDB load of up to three pages through the two-chunk ring of the *)
(* 32 KiB parts; builds of five units, two to a chunk and three to a sector.                     *)
EXTENDS Bridge, TLC

MCSize == ("a" :> 3) @@ ("b" :> 2) @@ ("bad" :> 1)
MCBuildLen == ("v1" :> 4) @@ ("v2" :> 5)

\* What is asked for in a behaviour: three flashes and a reset of the bridge; a flash and a GDB
\* client; a GDB client and a reset; a flash and two controls of the board, or one of a GDB client;
\* two updates.  The flash job and the update share nothing but the reset.
MCBudgets ==
  {[begins |-> 3, updates |-> 0, controls |-> 0, gdb |-> FALSE, resets |-> 1],
   [begins |-> 1, updates |-> 0, controls |-> 0, gdb |-> TRUE, resets |-> 0],
   [begins |-> 0, updates |-> 0, controls |-> 0, gdb |-> TRUE, resets |-> 1],
   [begins |-> 2, updates |-> 0, controls |-> 2, gdb |-> FALSE, resets |-> 0],
   [begins |-> 0, updates |-> 0, controls |-> 1, gdb |-> TRUE, resets |-> 0],
   [begins |-> 0, updates |-> 2, controls |-> 0, gdb |-> FALSE, resets |-> 2]}
===============================================================================
