------------------------------ MODULE KVStore ------------------------------
(***************************************************************************)
(* What the flash store promises its callers: a map from keys to values    *)
(* in which one write at a time takes effect completely or not at all.     *)
(* A write answered "ok" has taken effect.  A write cut short by a power   *)
(* loss, or answered with an error, has either taken effect or not, and    *)
(* nothing decides that later.  Nothing but the write in flight ever       *)
(* changes the map: not a compaction, not a mount, not a power loss.       *)
(*                                                                         *)
(* This is the README's "the newest record for a key wins, and a torn      *)
(* write loses only the record being written" as a state machine.          *)
(***************************************************************************)
CONSTANTS Key, Value,
  Tomb,     \* what a key with no record, or with an erased one, reads
  NoCall

VARIABLES
  kv,       \* what every key reads, now and after any number of reboots
  call,     \* the write in flight, or NoCall
  answer    \* the last answer: "none" before one, "ok" or "error"

vars == <<kv, call, answer>>

Init ==
  /\ kv = [k \in Key |-> Tomb]
  /\ call = NoCall
  /\ answer = "none"

Begin(k, v) ==
  /\ call = NoCall
  /\ call' = [key |-> k, val |-> v]
  /\ answer' = "none"
  /\ UNCHANGED kv

\* What the map becomes when the write in flight takes effect.
Applied == [kv EXCEPT ![call.key] = call.val]

Succeed ==
  /\ call # NoCall
  /\ kv' = Applied
  /\ call' = NoCall
  /\ answer' = "ok"

\* An error answer, or a power loss, which gives no answer at all.
CutShort ==
  /\ call # NoCall
  /\ \/ kv' = kv
     \/ kv' = Applied
  /\ call' = NoCall
  /\ answer' \in {"none", "error"}

\* Compaction, mount, a refused or empty request, a power loss between writes.
Housekeeping ==
  /\ call = NoCall
  /\ answer' \in {"none", "ok", "error"}
  /\ UNCHANGED <<kv, call>>

Next ==
  \/ \E k \in Key, v \in Value \cup {Tomb} : Begin(k, v)
  \/ Succeed
  \/ CutShort
  \/ Housekeeping

Spec == Init /\ [][Next]_vars
=============================================================================
