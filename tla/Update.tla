------------------------------- MODULE Update -------------------------------
(***************************************************************************)
(* The bridge's own update (bridge/core/src/update.rs) over the two app    *)
(* slots and the boot selection of bridge/src/platform.rs: chunks in order *)
(* into the slot not running, a sector erased ahead in a quiet pass or     *)
(* when it is written, the hashes, the activation, and the bootloader's    *)
(* rollback at a reset, as the repository's own platform model has it.     *)
(*                                                                         *)
(* A unit of data is a run of bytes.  A hash of bytes is the bytes.  The   *)
(* sector buffer is the tail of what arrived since the last write.         *)
(***************************************************************************)
EXTENDS Integers, Sequences

CONSTANTS
  Builds,        \* the bridge images there are
  BuildLen,      \* their units
  Factory,       \* the one in slot 0 at first
  Chunk, Sector, \* units of a chunk and of a sector; a chunk may span two sectors
  SlotLen,       \* units of a slot
  MaxUpFaults    \* bound: erases that fail and cells that do not take

ASSUME SectorAssumption == Sector \in Nat \ {0} /\ Chunk \in 1 .. Sector
ASSUME SlotAssumption == SlotLen \in Nat \ {0} /\ SlotLen % Sector = 0
ASSUME BuildAssumption == BuildLen \in [Builds -> 1 .. SlotLen] /\ Factory \in Builds

VARIABLES
  slot,      \* the slots' content, per unit
  selected,  \* the slot otadata selects, and its state
  booted,    \* the slot running
  up,        \* the update in progress
  reboot,    \* an update is in the next boot's slot: the firmware resets
  upFaults

updateVars == <<slot, selected, booted, up, reboot, upFaults>>

Unwritten == <<"blank", 0>>
Garbled == <<"torn", 0>>
NoUpdate == [len |-> 0, sha |-> <<>>, version |-> FALSE, got |-> <<>>, written |-> 0,
             erased |-> 0, activated |-> FALSE]

BuildImage(u) == [k \in 1 .. BuildLen[u] |-> <<u, k - 1>>]
Contiguous == Len(up.got)
Target == 1 - booted
Lowest(a, b) == IF a < b THEN a ELSE b

\* The slot starts with these units.
Reads(s, image) == \A k \in 1 .. Len(image) : slot[s][k - 1] = image[k]
Whole(s) == \E u \in Builds : Reads(s, BuildImage(u))

UpdateInit ==
  /\ slot = [s \in {0, 1} |->
               [k \in 0 .. SlotLen - 1 |->
                  IF s = 0 /\ k < BuildLen[Factory] THEN <<Factory, k>> ELSE Garbled]]
  /\ selected = [slot |-> 0, state |-> "valid"]
  /\ booted = 0
  /\ up = NoUpdate
  /\ reboot = FALSE
  /\ upFaults = 0

UpdateBeginKeepsErased(u, version) ==
  /\ up' = [NoUpdate EXCEPT !.len = BuildLen[u], !.sha = BuildImage(u), !.version = version,
                            !.erased = up.erased]
  /\ UNCHANGED <<slot, selected, booted, reboot, upFaults>>

\* UPDATE_BEGIN, announcing the version the image carries or another.
UpdateBegin(u, version) ==
  /\ up' = [NoUpdate EXCEPT !.len = BuildLen[u], !.sha = BuildImage(u), !.version = version]
  /\ UNCHANGED <<slot, selected, booted, reboot, upFaults>>

\* The units [from, to) of a slot erased, or written from the bytes that arrived; NOR flash takes
\* data only where it is erased.
Erased(s, from, to) == [s EXCEPT ![Target] =
  [k \in 0 .. SlotLen - 1 |-> IF k \in from .. to - 1 THEN Unwritten ELSE @[k]]]
Written(s, got, from, to, bad) == [s EXCEPT ![Target] =
  [k \in 0 .. SlotLen - 1 |->
     IF k \notin from .. to - 1 THEN @[k]
     ELSE IF @[k] = Unwritten /\ k \notin bad THEN got[k + 1] ELSE Garbled]]

\* take: where the writes end once n units are in, and where the slot is erased to for them.
WritesTo(n) == IF n = up.len THEN n ELSE (n \div Sector) * Sector
ErasesTo(n) ==
  LET need == ((WritesTo(n) + Sector - 1) \div Sector) * Sector
  IN IF need > up.erased THEN need ELSE up.erased

\* The chunk at this offset, of these bytes, is not the next one, or not of a size for its place.
Offered(off, data) ==
  off % Chunk = 0 /\ off < up.len /\ Len(data) = Lowest(Chunk, up.len - off)

\* Every byte is written: the hash of what arrived, the version, the hash of the slot read back.
Accepted(got, slots) ==
  /\ got = up.sha
  /\ up.version
  /\ \A k \in 1 .. Len(up.sha) : slots[Target][k - 1] = up.sha[k]

\* A chunk that is taken.  A cell that does not take its data is found by the read-back.
UpdateChunk(off, data) ==
  /\ up.len > 0 /\ ~ up.activated
  /\ Offered(off, data) /\ off = Contiguous
  /\ LET got == up.got \o data
         n == Len(got)
         erased == Erased(slot, up.erased, ErasesTo(n))
     IN \E bad \in {{}} \cup {{k} : k \in up.written .. WritesTo(n) - 1} :
          LET now == Written(erased, got, up.written, WritesTo(n), bad)
          IN /\ bad # {} => upFaults < MaxUpFaults
             /\ upFaults' = IF bad = {} THEN upFaults ELSE upFaults + 1
             /\ slot' = now
             /\ IF n < up.len
                THEN /\ up' = [up EXCEPT !.got = got, !.written = WritesTo(n), !.erased = ErasesTo(n)]
                     /\ UNCHANGED <<selected, reboot>>
                ELSE IF Accepted(got, now)
                     THEN /\ up' = [up EXCEPT !.got = got, !.written = n, !.erased = ErasesTo(n),
                                              !.activated = TRUE]
                          /\ selected' = [slot |-> Target, state |-> "new"]
                          /\ reboot' = TRUE
                     ELSE up' = [up EXCEPT !.len = 0, !.got = got] /\ UNCHANGED <<selected, reboot>>
  /\ UNCHANGED booted

\* An erase that a write needs and that fails ends the update.
UpdateChunkFails(off, data) ==
  /\ up.len > 0 /\ ~ up.activated
  /\ Offered(off, data) /\ off = Contiguous
  /\ ErasesTo(Contiguous + Len(data)) > up.erased
  /\ upFaults < MaxUpFaults /\ upFaults' = upFaults + 1
  /\ up' = [up EXCEPT !.len = 0]
  /\ UNCHANGED <<slot, selected, booted, reboot>>

\* The activation is two writes of otadata, the slot and its state; one of them fails.
ActivationFails(off, data) ==
  /\ up.len > 0 /\ ~ up.activated
  /\ Offered(off, data) /\ off = Contiguous /\ off + Len(data) = up.len
  /\ upFaults < MaxUpFaults /\ upFaults' = upFaults + 1
  /\ LET got == up.got \o data
     IN /\ slot' = Written(Erased(slot, up.erased, ErasesTo(up.len)), got, up.written, up.len, {})
        /\ Accepted(got, slot')
        /\ up' = [up EXCEPT !.len = 0, !.got = got]
  /\ selected' \in {selected, [slot |-> Target, state |-> "undefined"]}
  /\ UNCHANGED <<booted, reboot>>

\* A pass that took no controller packet erases the next sector, at most one past the sector being
\* filled and none past the image.
EraseAhead ==
  /\ up.len > 0 /\ Contiguous # up.len
  /\ up.erased < Lowest((Contiguous \div Sector) * Sector + 2 * Sector, up.len)
  /\ slot' = Erased(slot, up.erased, up.erased + Sector)
  /\ up' = [up EXCEPT !.erased = @ + Sector]
  /\ UNCHANGED <<selected, booted, reboot, upFaults>>

UpdateConfirm ==
  /\ selected = [slot |-> booted, state |-> "pending"]
  /\ selected' = [selected EXCEPT !.state = "valid"]
  /\ UNCHANGED <<slot, booted, up, reboot, upFaults>>

\* A reset, through the bootloader with rollback: a selection still pending is aborted.
Rollback ==
  /\ selected' = [selected EXCEPT !.state =
                    CASE @ = "new" -> "pending" [] @ = "pending" -> "aborted" [] OTHER -> @]
  /\ booted' = IF selected'.state = "aborted" THEN 1 - selected.slot ELSE selected.slot
  /\ up' = NoUpdate /\ reboot' = FALSE
  /\ UNCHANGED <<slot, upFaults>>
===============================================================================
