------------------------------- MODULE Store -------------------------------
(***************************************************************************)
(* The log-structured configuration store of shared/store: two flash       *)
(* pages, an append-only log of records in the active one, compaction into *)
(* the spare one, and the mount that recovers from a power loss at any     *)
(* flash operation.                                                        *)
(*                                                                         *)
(* A page is its 6-byte header (magic, then seq), the chain of records     *)
(* whose header CRC holds, and what follows the chain: erased flash, or a  *)
(* torn record header.  A record is committed once its val_crc has landed. *)
(* Offsets are in units of Size, counted from PAGE_HEADER_LEN.  The cell   *)
(* contents, the CRC arithmetic and the 32-byte copy chunks are abstracted *)
(* to whether a program landed whole, in part, or not at all.              *)
(***************************************************************************)
EXTENDS Naturals, Sequences

CONSTANTS
  Key,
  Value,
  Tomb,      \* ERASED_TAG: a record that un-stores its key
  NoCall,
  Size,      \* record_size of a value's record, and of the tombstone's
  PageCap,   \* a page's data area
  SeqHalf,   \* half the sequence-number space: 0x8000 in the code
  Faults     \* the flash operations that may fail with the power on

ASSUME ValueAssumption ==
  /\ Tomb \notin Value
  /\ Size \in [Value \cup {Tomb} -> Nat \ {0}]
  /\ PageCap \in Nat \ {0}
  /\ NoCall \notin [key : Key, val : Value \cup {Tomb}]

\* The wrapping comparison needs the two steps compaction can take, +1 and
\* +2 over SEQ_UNCOMMITTED, to stay in the low half of the range.
ASSUME SeqAssumption == SeqHalf \in Nat /\ SeqHalf >= 3

\* "program": any program reports an error; "late": a compaction's header
\* program reports one although it landed; "spare", "discard", "free": the
\* three erases of a compaction, at its steps (0), (3) and (4), report one.
ASSUME FaultAssumption ==
  Faults \subseteq {"program", "late", "spare", "discard", "free"}

VARIABLES
  page,      \* the flash: the two sides of the region
  pc,        \* where the one thread that owns the store stands
  active,    \* Store::active_page_off, as a side
  frontier,  \* Store::frontier
  seq,       \* Store::seq
  call,      \* the append in progress
  cursor,    \* the compaction's place in the old log
  mounting,  \* the compaction was started by the mount
  reply      \* the last call's Result

vars == <<page, pc, active, frontier, seq, call, cursor, mounting, reply>>
ram  == <<active, frontier, seq>>

Side == {0, 1}
SeqMod == 2 * SeqHalf
SeqUncommitted == SeqMod - 1

Record == [key : Key, val : Value \cup {Tomb}, off : Nat, ok : BOOLEAN]
Page ==
  [hdr : {"blank", "torn", "ok"}, seq : 0 .. SeqMod - 1,
         log : Seq(Record), tail : {"clean", "torn"}]

Erased == [hdr |-> "blank", seq |-> 0, log |-> <<>>, tail |-> "clean"]

----------------------------------------------------------------------------
(* Reading the flash. *)

\* The end of the chain scan_frontier walks.
End(log) == IF log = <<>> THEN 0
            ELSE log[Len(log)].off + Size[log[Len(log)].val]

Committed(log, k) == {i \in 1 .. Len(log) : log[i].key = k /\ log[i].ok}

\* find_latest: newest wins; a tombstone reads like no record at all.
Find(log, k) ==
  IF Committed(log, k) = {} THEN Tomb
  ELSE LET last == CHOOSE i \in Committed(log, k) :
                     \A j \in Committed(log, k) : j <= i
       IN log[last].val

\* Wrapping u16 arithmetic over the reduced range.
WrapSub(a, b) == IF a >= b THEN a - b ELSE (a + SeqMod) - b
WrapInc(a) == IF a + 1 = SeqMod THEN 0 ELSE a + 1

Side1IsNewerByMagnitude(seq0, seq1) == seq1 >= seq0   \* mutant
Side1IsNewer(seq0, seq1) == WrapSub(seq1, seq0) < SeqHalf

NextSeq(s) ==
  IF WrapInc(s) = SeqUncommitted THEN WrapInc(SeqUncommitted) ELSE WrapInc(s)

\* read_page_header is Some: the whole magic, and a seq other than erased.
Valid(pg, s) == pg[s].hdr = "ok"

\* The side a mount takes; side 0 of a virgin region.
Newest(pg) ==
  IF Valid(pg, 1) /\ (Valid(pg, 0) => Side1IsNewer(pg[0].seq, pg[1].seq))
  THEN 1 ELSE 0

\* What every key would read after a reboot now.
Recovered(pg) == [k \in Key |-> Find(pg[Newest(pg)].log, k)]

Spare == 1 - active

\* append's space check: the record ends inside the page.
Fits(at, v) == at + Size[v] <= PageCap

\* Nothing has been programmed at or past the append point.
ErasedAt(p, off) == p.tail = "clean" /\ End(p.log) <= off

----------------------------------------------------------------------------
(* Outcomes of the flash operations. *)

PowerOff ==
  /\ pc' = "off"
  /\ active' = 0 /\ frontier' = 0 /\ seq' = 0 /\ cursor' = 0
  /\ call' = NoCall /\ mounting' = FALSE /\ reply' = "none"

Return(r) ==
  /\ pc' = "idle"
  /\ reply' = r
  /\ call' = NoCall /\ mounting' = FALSE /\ cursor' = 0

\* An error return.  Out of a mount it is the firmware's unwrap: the board
\* halts until it is reset.
Fail(r) ==
  IF mounting THEN PowerOff
  ELSE Return(r) /\ UNCHANGED ram

\* An operation on side s cut short: it left one of `outcomes`, and either
\* the power went or the flash controller reported an error.
CutShort(s, outcomes, fault, err) ==
  /\ \E p \in outcomes : page' = [page EXCEPT ![s] = p]
  /\ \/ PowerOff
     \/ fault \in Faults /\ Fail(err)

\* An erase cut short: nothing done, records gone under a standing header,
\* the header gone over standing records, or all of it done.
EraseTorn(p) ==
  {p, [p EXCEPT !.log = <<>>, !.tail = "torn"], [p EXCEPT !.hdr = "torn"], Erased}

\* A page-header program cut short: nothing, part of it, or all of it.
HeaderTorn(p, n) ==
  {p, [p EXCEPT !.hdr = "torn"], [p EXCEPT !.hdr = "ok", !.seq = n]}

----------------------------------------------------------------------------
(* Mount. *)

Init ==
  /\ page = [s \in Side |-> Erased]
  /\ pc = "off"
  /\ active = 0 /\ frontier = 0 /\ seq = 0 /\ cursor = 0
  /\ call = NoCall
  /\ mounting = FALSE
  /\ reply = "none"

MountVirgin ==
  /\ pc = "off"
  /\ ~ Valid(page, Newest(page))
  /\ pc' = "idle"
  /\ UNCHANGED <<page, ram, call, cursor, mounting, reply>>

MountClean ==
  LET s == Newest(page) IN
  /\ pc = "off"
  /\ Valid(page, s) /\ page[s].tail = "clean"
  /\ pc' = "idle"
  /\ active' = s /\ frontier' = End(page[s].log) /\ seq' = page[s].seq
  /\ UNCHANGED <<page, call, cursor, mounting, reply>>

\* Mutant: the torn header taken for the end of a clean log.
MountTornAsClean ==
  LET s == Newest(page) IN
  /\ pc = "off"
  /\ Valid(page, s) /\ page[s].tail = "torn"
  /\ pc' = "idle"
  /\ active' = s /\ frontier' = End(page[s].log) /\ seq' = page[s].seq
  /\ UNCHANGED <<page, call, cursor, mounting, reply>>

\* A torn record header: recover by compacting, before anything is served.
MountTorn ==
  LET s == Newest(page) IN
  /\ pc = "off"
  /\ Valid(page, s) /\ page[s].tail = "torn"
  /\ pc' = "spare"
  /\ mounting' = TRUE
  /\ active' = s /\ frontier' = 0 /\ seq' = page[s].seq
  /\ UNCHANGED <<page, call, cursor, reply>>

----------------------------------------------------------------------------
(* append *)

StartAppend(k, v) ==
  IF ~ Fits(0, v)
  THEN Return("too_large") /\ UNCHANGED <<page, ram>>
  ELSE /\ pc' = "append"
       /\ call' = [key |-> k, val |-> v]
       /\ reply' = "none"
       /\ UNCHANGED <<page, ram, cursor, mounting>>

SetValue(k, v) == pc = "idle" /\ StartAppend(k, v)

\* Un-storing a key that reads its default already writes nothing.
EraseValue(k) ==
  /\ pc = "idle"
  /\ IF Find(page[active].log, k) = Tomb
     THEN Return("ok") /\ UNCHANGED <<page, ram>>
     ELSE StartAppend(k, Tomb)

\* The lazy page header of a virgin region.  Flash is write-once: the
\* program is refused if any of it had landed before.
FormatPage ==
  /\ pc = "append"
  /\ ~ Valid(page, active)
  /\ \/ /\ page[active].hdr = "torn"
        /\ Return("flash") /\ UNCHANGED <<page, ram>>
     \/ /\ page[active].hdr = "blank"
        /\ page' = [page EXCEPT ![active].hdr = "ok", ![active].seq = seq]
        /\ UNCHANGED <<pc, ram, call, cursor, mounting, reply>>
     \/ /\ page[active].hdr = "blank"
        /\ CutShort(active, HeaderTorn(page[active], seq), "program", "flash")

CheckSpace ==
  /\ pc = "append"
  /\ Valid(page, active)
  /\ IF Fits(frontier, call.val)
     THEN pc' = "record" /\ UNCHANGED <<page, ram, call, cursor, mounting, reply>>
     ELSE Return("full") /\ UNCHANGED <<page, ram>>

\* The active page once the header of the record being appended has landed.
WithHeader ==
  [page[active] EXCEPT !.log =
     Append(@, [key |-> call.key, val |-> call.val, off |-> frontier, ok |-> FALSE])]

\* (1) of append: the 8-byte record header.
ProgramHeader ==
  /\ pc = "record"
  /\ \/ /\ ~ ErasedAt(page[active], frontier)
        /\ Return("flash") /\ UNCHANGED <<page, ram>>
     \/ /\ ErasedAt(page[active], frontier)
        /\ page' = [page EXCEPT ![active] = WithHeader]
        /\ pc' = "payload"
        /\ UNCHANGED <<ram, call, cursor, mounting, reply>>
     \/ /\ ErasedAt(page[active], frontier)
        /\ CutShort(active,
             {page[active], [page[active] EXCEPT !.tail = "torn"], WithHeader},
             "program", "flash")

\* The active page once val_crc has landed.
WithCommit ==
  [page[active] EXCEPT !.log[Len(page[active].log)].ok = TRUE]

\* (2) and (3) of append: the value, then the val_crc that commits it.
ProgramPayload ==
  /\ pc = "payload"
  /\ \/ /\ page' = [page EXCEPT ![active] = WithCommit]
        /\ Return("ok")
        /\ frontier' = frontier + Size[call.val]
        /\ UNCHANGED <<active, seq>>
     \/ CutShort(active, {page[active], WithCommit}, "program", "flash")

----------------------------------------------------------------------------
(* compact *)

Compact ==
  /\ pc = "idle"
  /\ pc' = "spare"
  /\ reply' = "none"
  /\ UNCHANGED <<page, ram, call, cursor, mounting>>

\* (0): the spare page must read erased.
EraseSpare ==
  /\ pc = "spare"
  /\ \/ /\ page' = [page EXCEPT ![Spare] = Erased]
        /\ pc' = "copy"
        /\ cursor' = 1
        /\ UNCHANGED <<ram, call, mounting, reply>>
     \/ /\ page[Spare] # Erased
        /\ CutShort(Spare, EraseTorn(page[Spare]), "spare", "flash")

\* Mutants: a torn record supersedes a committed one; tombstones are copied.
SurvivesUnlessRepeated(log, i) ==
  /\ log[i].ok
  /\ log[i].val # Tomb
  /\ ~ \E j \in i + 1 .. Len(log) : log[j].key = log[i].key
SurvivesTombstones(log, i) ==
  /\ log[i].ok
  /\ ~ \E j \in i + 1 .. Len(log) : log[j].key = log[i].key /\ log[j].ok

\* Worth copying: committed, not superseded, not a tombstone.
Survives(log, i) ==
  /\ log[i].ok
  /\ log[i].val # Tomb
  /\ ~ \E j \in i + 1 .. Len(log) : log[j].key = log[i].key /\ log[j].ok

Copied(i) ==
  [page[Spare] EXCEPT !.log =
     Append(@, [page[active].log[i] EXCEPT !.off = End(page[Spare].log)])]

\* (1b): one record of the old log per step.
CopyRecord ==
  /\ pc = "copy"
  /\ cursor <= Len(page[active].log)
  /\ \/ /\ ~ Survives(page[active].log, cursor)
        /\ cursor' = cursor + 1
        /\ UNCHANGED <<page, pc, ram, call, mounting, reply>>
     \/ /\ Survives(page[active].log, cursor)
        /\ page' = [page EXCEPT ![Spare] = Copied(cursor)]
        /\ cursor' = cursor + 1
        /\ UNCHANGED <<pc, ram, call, mounting, reply>>
     \/ /\ Survives(page[active].log, cursor)
        /\ CutShort(Spare,
             {page[Spare], [page[Spare] EXCEPT !.tail = "torn"], Copied(cursor)},
             "program", "flash")

\* (2) and the check of (3): the header last, magic then seq, read back.
\* An error from either program counts as not committed whatever landed.
Seal ==
  /\ pc = "copy"
  /\ cursor > Len(page[active].log)
  /\ \/ /\ page' = [page EXCEPT ![Spare].hdr = "ok", ![Spare].seq = NextSeq(seq)]
        /\ pc' = "free"
        /\ UNCHANGED <<ram, call, cursor, mounting, reply>>
     \/ \E p \in HeaderTorn(page[Spare], NextSeq(seq)) :
        /\ page' = [page EXCEPT ![Spare] = p]
        /\ \/ PowerOff
           \/ /\ (IF p.hdr = "ok" THEN "late" ELSE "program") \in Faults
              /\ pc' = "discard"
              /\ UNCHANGED <<ram, call, cursor, mounting, reply>>

\* (3): the commit did not take; best effort, the erase's result is dropped.
Discard ==
  /\ pc = "discard"
  /\ \/ /\ page' = [page EXCEPT ![Spare] = Erased]
        /\ Fail("commit_failed")
     \/ CutShort(Spare, EraseTorn(page[Spare]), "discard", "commit_failed")

\* (4): the new page is committed; erase the old one, then switch to the new.
FreeOld ==
  /\ pc = "free"
  /\ \/ /\ page' = [page EXCEPT ![active] = Erased]
        /\ active' = Spare
        /\ frontier' = End(page[Spare].log)
        /\ seq' = page[Spare].seq
        /\ Return("ok")
     \/ CutShort(active, EraseTorn(page[active]), "free", "flash")

----------------------------------------------------------------------------
PowerLoss ==
  /\ pc # "off"
  /\ PowerOff
  /\ UNCHANGED page

Call ==
  \/ \E k \in Key : (\E v \in Value : SetValue(k, v)) \/ EraseValue(k)
  \/ Compact

AppendStep == FormatPage \/ CheckSpace \/ ProgramHeader \/ ProgramPayload
CompactStep == EraseSpare \/ CopyRecord \/ Seal \/ Discard \/ FreeOld
MountStep == MountVirgin \/ MountClean \/ MountTorn

Next == MountStep \/ Call \/ AppendStep \/ CompactStep \/ PowerLoss

Spec == Init /\ [][Next]_vars

----------------------------------------------------------------------------
TypeOK ==
  /\ page \in [Side -> Page]
  /\ pc \in {"off", "idle", "append", "record", "payload",
             "spare", "copy", "discard", "free"}
  /\ active \in Side
  /\ frontier \in Nat
  /\ seq \in 0 .. SeqMod - 1
  /\ call \in [key : Key, val : Value \cup {Tomb}] \cup {NoCall}
  /\ cursor \in Nat
  /\ mounting \in BOOLEAN
  /\ reply \in {"none", "ok", "too_large", "full", "flash", "commit_failed"}

----------------------------------------------------------------------------
(* Correctness. *)

Answer == IF reply \in {"none", "ok"} THEN reply ELSE "error"

KV == INSTANCE KVStore WITH kv <- Recovered(page), answer <- Answer

\* The store implements the key-value map: whatever a power loss, a refused
\* program or a compaction does, every key reads either its last
\* acknowledged value or the one being written, and never goes back.
Atomic == KV!Spec

\* A running board and its next boot agree: what the mounted handle reads
\* from its active page is what a mount would read if the power went now
\* (Store::find_latest against Store::mount).
NoSplitBrain ==
  pc # "off" => \A k \in Key : Find(page[active].log, k) = Recovered(page)[k]

\* The append point of side s is programmable.
Appendable(pg, s, at) == pg[s].hdr # "torn" /\ ErasedAt(pg[s], at)

\* A mount that found a formatted page, and a compaction that answered ok,
\* hand over a page the next append can be programmed into, whatever was torn
\* before (mount's auto-compaction, compact's step (4)).
RecoveredIsWritable ==
  [][ /\ pc \in {"off", "free"} /\ pc' = "idle" /\ reply' \in {"none", "ok"}
      /\ Valid(page', active')
      => Appendable(page', active', frontier') ]_vars

----------------------------------------------------------------------------
(***************************************************************************)
(* The inductive invariant behind NoSplitBrain and Atomic, for a store     *)
(* whose step (4) erase and whose header programs tell the truth, that is  *)
(* with neither "free" nor "late" in Faults.                               *)
(***************************************************************************)

\* Among the committed records of a key there is a last one for Find to take.
HasLatest(log) ==
  \A k \in Key : Committed(log, k) # {} =>
    \E i \in Committed(log, k) : \A j \in Committed(log, k) : j <= i

GoodPage == {p \in Page : p.seq # SeqUncommitted /\ HasLatest(p.log)}

Appending == pc \in {"append", "record", "payload"}
Compacting == pc \in {"spare", "copy", "discard", "free"}

\* Type correctness on its own needs to know when there is a call to serve,
\* and that the copy walks from the first record.
Busy ==
  /\ Appending <=> call # NoCall
  /\ mounting => Compacting
  /\ pc = "copy" => cursor >= 1

TypeInv == TypeOK /\ Busy

\* What each step of a call may rely on.
Progress ==
  /\ Busy
  /\ pc = "off" => active = 0
  /\ pc = "payload" =>
       LET log == page[active].log IN
       /\ log # <<>>
       /\ log[Len(log)].key = call.key /\ log[Len(log)].val = call.val
       /\ ~ log[Len(log)].ok
  /\ pc = "discard" => ~ Valid(page, Spare)

\* The page the handle uses is the one a mount would take, until a compaction
\* has sealed its successor.
ActiveIsNewest ==
  pc \notin {"off", "free"} =>
    /\ Newest(page) = active
    /\ Valid(page, active) => seq = page[active].seq

\* `new` holds the survivors among the first c - 1 records of `old`.
Walked(old, c, k) == {i \in 1 .. c - 1 : old[i].key = k /\ Survives(old, i)}
Holds(old, new, c) ==
  \A k \in Key :
    /\ \A i \in Walked(old, c, k) : Find(new, k) = old[i].val
    /\ Walked(old, c, k) = {} => Find(new, k) = Tomb

\* The spare page holds the survivors among the records already walked.
CopyMatches ==
  pc = "copy" =>
    /\ page[Spare].hdr = "blank"
    /\ cursor \in 1 .. Len(page[active].log) + 1
    /\ Holds(page[active].log, page[Spare].log, cursor)

\* A sealed successor reads the same as the page it replaces.
SealMatches ==
  pc = "free" =>
    /\ Valid(page, Spare) /\ Newest(page) = Spare
    /\ \A k \in Key : Find(page[Spare].log, k) = Find(page[active].log, k)

IInv ==
  /\ TypeOK
  /\ page \in [Side -> GoodPage]
  /\ seq # SeqUncommitted
  /\ Progress
  /\ ActiveIsNewest
  /\ CopyMatches
  /\ SealMatches
=============================================================================
