---------------------------- MODULE StoreProofs ----------------------------
(***************************************************************************)
(* Theorems about Store, for every set of keys and values, every page size *)
(* and every sequence-number width.                                        *)
(***************************************************************************)
EXTENDS Store, SequenceTheorems, TLAPS

USE DEF Side

----------------------------------------------------------------------------
(* Arithmetic of the sequence numbers. *)

LEMMA SeqModFacts ==
  /\ SeqMod \in Nat /\ SeqMod >= 6
  /\ SeqUncommitted \in 0 .. SeqMod - 1
BY SeqAssumption DEF SeqMod, SeqUncommitted

\* A compaction's sequence number is in range and is not the erased reading.
LEMMA NextSeqType ==
  ASSUME NEW s \in 0 .. SeqMod - 1
  PROVE  NextSeq(s) \in 0 .. SeqMod - 1 /\ NextSeq(s) # SeqUncommitted
BY SeqAssumption DEF NextSeq, WrapInc, SeqMod, SeqUncommitted

\* The page a compaction seals is the newer of the two, on either side and
\* across the wrap.
LEMMA NextSeqIsNewer ==
  ASSUME NEW s \in 0 .. SeqMod - 1, s # SeqUncommitted
  PROVE  /\ Side1IsNewer(s, NextSeq(s))
         /\ ~ Side1IsNewer(NextSeq(s), s)
BY SeqAssumption DEF Side1IsNewer, WrapSub, NextSeq, WrapInc, SeqMod, SeqUncommitted

----------------------------------------------------------------------------
(* Type correctness. *)

LEMMA EndType ==
  ASSUME NEW log \in Seq(Record)
  PROVE  End(log) \in Nat
<1>1. CASE log = <<>>
  BY <1>1 DEF End
<1>2. CASE log # <<>>
  <2>1. log[Len(log)] \in Record
    BY <1>2
  <2>2. Size[log[Len(log)].val] \in Nat
    BY <2>1, ValueAssumption DEF Record
  <2> QED
    BY <1>2, <2>1, <2>2 DEF End, Record
<1> QED
  BY <1>1, <1>2

LEMMA ErasedType == Erased \in Page
BY SeqModFacts DEF Erased, Page

LEMMA EraseTornType ==
  ASSUME NEW p \in Page
  PROVE  EraseTorn(p) \subseteq Page
<1>1. [p EXCEPT !.log = <<>>, !.tail = "torn"] \in Page
  BY EmptySeq DEF Page
<1>2. [p EXCEPT !.hdr = "torn"] \in Page
  BY DEF Page
<1> QED
  BY <1>1, <1>2, ErasedType DEF EraseTorn

LEMMA HeaderTornType ==
  ASSUME NEW p \in Page, NEW n \in 0 .. SeqMod - 1
  PROVE  HeaderTorn(p, n) \subseteq Page
BY DEF HeaderTorn, Page

LEMMA WithHeaderType ==
  ASSUME TypeOK, call # NoCall
  PROVE  WithHeader \in Page
<1>1. page[active] \in Page
  BY DEF TypeOK
<1> DEFINE rec == [key |-> call.key, val |-> call.val, off |-> frontier, ok |-> FALSE]
<1>2. rec \in Record
  BY DEF TypeOK, Record
<1>3. WithHeader = [page[active] EXCEPT !.log = Append(@, rec)]
  BY DEF WithHeader
<1> HIDE DEF rec
<1>4. Append(page[active].log, rec) \in Seq(Record)
  BY <1>1, <1>2 DEF Page
<1> QED
  BY <1>1, <1>3, <1>4 DEF Page

\* Marking the last record of a log committed leaves a log, of the same length.
LEMMA CommitLastType ==
  ASSUME NEW log \in Seq(Record)
  PROVE  LET n == Len(log)
             new == [log EXCEPT ![n] = [log[n] EXCEPT !.ok = TRUE]]
         IN  new \in Seq(Record) /\ Len(new) = n
<1> DEFINE n == Len(log)
           new == [log EXCEPT ![n] = [log[n] EXCEPT !.ok = TRUE]]
<1>1. CASE n = 0
  <2>1. DOMAIN new = DOMAIN log /\ DOMAIN log = {}
    BY <1>1, LenProperties
  <2>2. new = log
    BY <2>1
  <2> QED
    BY <2>2
<1>2. CASE n # 0
  <2>1. n \in 1 .. Len(log)
    BY <1>2, LenProperties
  <2>2. log[n] \in Record
    BY <2>1, ElementOfSeq
  <2>3. [log[n] EXCEPT !.ok = TRUE] \in Record
    BY <2>2 DEF Record
  <2> QED
    BY <2>1, <2>3, ExceptSeq
<1> QED
  BY <1>1, <1>2

LEMMA WithCommitType ==
  ASSUME TypeOK
  PROVE  WithCommit \in Page
<1> DEFINE log == page[active].log
           n == Len(log)
<1>1. page[active] \in Page /\ log \in Seq(Record) /\ n \in Nat
  BY DEF TypeOK, Page
<1>2. WithCommit = [page[active] EXCEPT !.log = [log EXCEPT ![n] = [log[n] EXCEPT !.ok = TRUE]]]
  BY <1>1 DEF WithCommit, Page
<1>3. [log EXCEPT ![n] = [log[n] EXCEPT !.ok = TRUE]] \in Seq(Record)
  BY <1>1, CommitLastType
<1> QED
  BY <1>1, <1>2, <1>3 DEF Page

LEMMA SpareType ==
  ASSUME TypeOK
  PROVE  Spare \in Side /\ Spare # active
BY DEF TypeOK, Spare

LEMMA CopiedType ==
  ASSUME TypeOK, NEW i \in 1 .. Len(page[active].log)
  PROVE  Copied(i) \in Page
<1>1. page[active] \in Page /\ page[Spare] \in Page
  BY SpareType DEF TypeOK
<1>2. page[active].log \in Seq(Record) /\ page[Spare].log \in Seq(Record)
  BY <1>1 DEF Page
<1>3. page[active].log[i] \in Record
  BY <1>2
<1>4. [page[active].log[i] EXCEPT !.off = End(page[Spare].log)] \in Record
  BY <1>2, <1>3, EndType DEF Record
<1>5. Append(page[Spare].log, [page[active].log[i] EXCEPT !.off = End(page[Spare].log)])
        \in Seq(Record)
  BY <1>2, <1>4, AppendProperties
<1> QED
  BY <1>1, <1>5 DEF Copied, Page

LEMMA PowerOffType ==
  ASSUME PowerOff, page' \in [Side -> Page]
  PROVE  TypeInv'
<1>1. 0 \in 0 .. SeqMod - 1 /\ FALSE \in BOOLEAN /\ 0 \in Nat
  BY SeqModFacts
<1>2. TypeOK'
  BY <1>1 DEF PowerOff, TypeOK
<1>3. Busy'
  BY DEF PowerOff, Busy, Appending
<1> QED
  BY <1>2, <1>3 DEF TypeInv

LEMMA ReturnType ==
  ASSUME TypeInv, NEW r \in {"ok", "too_large", "full", "flash", "commit_failed"},
         Return(r), page' \in [Side -> Page],
         active' \in Side, frontier' \in Nat, seq' \in 0 .. SeqMod - 1
  PROVE  TypeInv'
<1>1. TypeOK'
  BY DEF Return, TypeInv, TypeOK
<1>2. Busy'
  BY DEF Return, Busy, Appending
<1> QED
  BY <1>1, <1>2 DEF TypeInv

LEMMA CutShortType ==
  ASSUME TypeInv, NEW s \in Side, NEW outcomes \in SUBSET Page, NEW fault,
         NEW err \in {"flash", "commit_failed"}, CutShort(s, outcomes, fault, err)
  PROVE  TypeInv'
<1>1. page' \in [Side -> Page]
  BY DEF CutShort, TypeInv, TypeOK
<1>2. CASE PowerOff
  BY <1>1, <1>2, PowerOffType
<1>3. CASE Fail(err)
  <2>1. CASE mounting
    BY <1>1, <1>3, <2>1, PowerOffType DEF Fail
  <2>2. CASE ~ mounting
    <3>1. Return(err) /\ UNCHANGED ram
      BY <1>3, <2>2 DEF Fail
    <3> QED
      BY <1>1, <3>1, ReturnType DEF ram, TypeInv, TypeOK
  <2> QED
    BY <2>1, <2>2
<1> QED
  BY <1>2, <1>3 DEF CutShort

LEMMA StartAppendType ==
  ASSUME TypeInv, pc = "idle", NEW k \in Key, NEW v \in Value \cup {Tomb}, StartAppend(k, v)
  PROVE  TypeInv'
<1>1. CASE Return("too_large") /\ UNCHANGED <<page, ram>>
  BY <1>1, ReturnType DEF TypeInv, TypeOK, ram
<1>2. CASE /\ pc' = "append" /\ call' = [key |-> k, val |-> v] /\ reply' = "none"
           /\ UNCHANGED <<page, ram, cursor, mounting>>
  <2>1. call' \in [key : Key, val : Value \cup {Tomb}] /\ call' # NoCall
    BY <1>2, ValueAssumption
  <2>2. ~ mounting
    BY DEF TypeInv, Busy, Compacting
  <2> QED
    BY <1>2, <2>1, <2>2 DEF TypeInv, TypeOK, Busy, Appending, Compacting, ram
<1> QED
  BY <1>1, <1>2 DEF StartAppend

LEMMA MountType ==
  ASSUME TypeInv, MountStep
  PROVE  TypeInv'
<1>1. Newest(page) \in Side
  BY DEF Newest
<1>2. page[Newest(page)] \in Page
  BY <1>1 DEF TypeInv, TypeOK
<1>3. End(page[Newest(page)].log) \in Nat /\ page[Newest(page)].seq \in 0 .. SeqMod - 1
  BY <1>2, EndType DEF Page
<1>4. pc = "off" /\ ~ mounting /\ call = NoCall
  BY DEF MountStep, MountVirgin, MountClean, MountTorn, TypeInv, Busy, Appending, Compacting
<1>5. CASE MountVirgin
  BY <1>4, <1>5 DEF MountVirgin, TypeInv, TypeOK, Busy, Appending, Compacting, ram
<1>6. CASE MountClean
  BY <1>1, <1>3, <1>4, <1>6 DEF MountClean, TypeInv, TypeOK, Busy, Appending, Compacting
<1>7. CASE MountTorn
  <2>1. /\ pc' = "spare" /\ mounting' = TRUE
        /\ active' = Newest(page) /\ frontier' = 0 /\ seq' = page[Newest(page)].seq
        /\ UNCHANGED <<page, call, cursor, reply>>
    BY <1>7 DEF MountTorn
  <2>2. TypeOK'
    BY <1>1, <1>3, <2>1 DEF TypeInv, TypeOK
  <2>3. Busy'
    BY <1>4, <2>1 DEF Busy, Appending, Compacting
  <2> QED
    BY <2>2, <2>3 DEF TypeInv
<1> QED
  BY <1>5, <1>6, <1>7 DEF MountStep

LEMMA CallType ==
  ASSUME TypeInv, Call
  PROVE  TypeInv'
<1>1. ASSUME NEW k \in Key, NEW v \in Value, SetValue(k, v) PROVE TypeInv'
  BY <1>1, StartAppendType DEF SetValue
<1>2. ASSUME NEW k \in Key, EraseValue(k) PROVE TypeInv'
  <2>1. CASE StartAppend(k, Tomb)
    BY <1>2, <2>1, StartAppendType DEF EraseValue
  <2>2. CASE Return("ok") /\ UNCHANGED <<page, ram>>
    BY <2>2, ReturnType DEF TypeInv, TypeOK, ram
  <2> QED
    BY <1>2, <2>1, <2>2 DEF EraseValue
<1>3. CASE Compact
  BY <1>3 DEF Compact, TypeInv, TypeOK, Busy, Appending, Compacting, ram
<1> QED
  BY <1>1, <1>2, <1>3 DEF Call

LEMMA AppendType ==
  ASSUME TypeInv, AppendStep
  PROVE  TypeInv'
<1> USE DEF ram
<1>1. active \in Side /\ page[active] \in Page /\ page[active].log \in Seq(Record)
  BY DEF TypeInv, TypeOK, Page
<1>2. call # NoCall /\ ~ mounting
  BY DEF AppendStep, FormatPage, CheckSpace, ProgramHeader, ProgramPayload, TypeInv, Busy,
         Appending, Compacting
<1>3. CASE FormatPage
  <2>1. CASE Return("flash") /\ UNCHANGED <<page, ram>>
    BY <2>1, ReturnType DEF TypeInv, TypeOK
  <2>2. CASE /\ page' = [page EXCEPT ![active].hdr = "ok", ![active].seq = seq]
             /\ UNCHANGED <<pc, ram, call, cursor, mounting, reply>>
    <3>1. page' = [page EXCEPT ![active] = [page[active] EXCEPT !.hdr = "ok", !.seq = seq]]
      BY <1>1, <2>2 DEF TypeInv, TypeOK
    <3>2. [page[active] EXCEPT !.hdr = "ok", !.seq = seq] \in Page
      BY <1>1 DEF Page, TypeInv, TypeOK
    <3> QED
      BY <1>1, <2>2, <3>1, <3>2 DEF TypeInv, TypeOK, Busy, Appending, Compacting
  <2>3. CASE CutShort(active, HeaderTorn(page[active], seq), "program", "flash")
    <3>1. HeaderTorn(page[active], seq) \in SUBSET Page
      BY <1>1, HeaderTornType DEF TypeInv, TypeOK
    <3> QED
      BY <1>1, <2>3, <3>1, CutShortType
  <2> QED
    BY <1>3, <2>1, <2>2, <2>3 DEF FormatPage
<1>4. CASE CheckSpace
  <2>1. CASE Return("full") /\ UNCHANGED <<page, ram>>
    BY <2>1, ReturnType DEF TypeInv, TypeOK
  <2>2. CASE pc' = "record" /\ UNCHANGED <<page, ram, call, cursor, mounting, reply>>
    BY <1>2, <2>2 DEF TypeInv, TypeOK, Busy, Appending, Compacting
  <2> QED
    BY <1>4, <2>1, <2>2 DEF CheckSpace
<1>5. CASE ProgramHeader
  <2>1. WithHeader \in Page
    BY <1>2, WithHeaderType DEF TypeInv
  <2>2. CASE Return("flash") /\ UNCHANGED <<page, ram>>
    BY <2>2, ReturnType DEF TypeInv, TypeOK
  <2>3. CASE /\ page' = [page EXCEPT ![active] = WithHeader] /\ pc' = "payload"
             /\ UNCHANGED <<ram, call, cursor, mounting, reply>>
    BY <1>1, <1>2, <2>1, <2>3 DEF TypeInv, TypeOK, Busy, Appending, Compacting
  <2>4. CASE CutShort(active,
               {page[active], [page[active] EXCEPT !.tail = "torn"], WithHeader},
               "program", "flash")
    <3>1. [page[active] EXCEPT !.tail = "torn"] \in Page
      BY <1>1 DEF Page
    <3>2. {page[active], [page[active] EXCEPT !.tail = "torn"], WithHeader} \in SUBSET Page
      BY <1>1, <2>1, <3>1
    <3> QED
      BY <1>1, <2>4, <3>2, CutShortType
  <2> QED
    BY <1>5, <2>2, <2>3, <2>4 DEF ProgramHeader
<1>6. CASE ProgramPayload
  <2>1. WithCommit \in Page
    BY WithCommitType DEF TypeInv
  <2>2. CASE /\ page' = [page EXCEPT ![active] = WithCommit] /\ Return("ok")
             /\ frontier' = frontier + Size[call.val] /\ UNCHANGED <<active, seq>>
    <3>1. Size[call.val] \in Nat
      BY <1>2, ValueAssumption DEF TypeInv, TypeOK
    <3>2. frontier' \in Nat
      BY <2>2, <3>1 DEF TypeInv, TypeOK
    <3>3. page' \in [Side -> Page]
      BY <1>1, <2>1, <2>2 DEF TypeInv, TypeOK
    <3> QED
      BY <2>2, <3>2, <3>3, ReturnType DEF TypeInv, TypeOK
  <2>3. CASE CutShort(active, {page[active], WithCommit}, "program", "flash")
    BY <1>1, <2>1, <2>3, CutShortType
  <2> QED
    BY <1>6, <2>2, <2>3 DEF ProgramPayload
<1> QED
  BY <1>3, <1>4, <1>5, <1>6 DEF AppendStep

LEMMA CompactType ==
  ASSUME TypeInv, CompactStep
  PROVE  TypeInv'
<1> USE DEF ram
<1>1. active \in Side /\ Spare \in Side /\ page[active] \in Page /\ page[Spare] \in Page
  BY SpareType DEF TypeInv, TypeOK
<1>2. page[active].log \in Seq(Record) /\ page[Spare].log \in Seq(Record)
  BY <1>1 DEF Page
<1>3. ~ Appending /\ call = NoCall
  BY DEF CompactStep, EraseSpare, CopyRecord, Seal, Discard, FreeOld, TypeInv, Busy, Appending
<1>4. CASE EraseSpare
  <2>1. CASE /\ page' = [page EXCEPT ![Spare] = Erased] /\ pc' = "copy" /\ cursor' = 1
             /\ UNCHANGED <<ram, call, mounting, reply>>
    <3>1. TypeOK'
      BY <1>1, <2>1, ErasedType DEF TypeInv, TypeOK
    <3>2. Busy'
      BY <1>3, <2>1 DEF Busy, Appending, Compacting
    <3> QED
      BY <3>1, <3>2 DEF TypeInv
  <2>2. CASE CutShort(Spare, EraseTorn(page[Spare]), "spare", "flash")
    <3>1. EraseTorn(page[Spare]) \in SUBSET Page
      BY <1>1, EraseTornType
    <3> QED
      BY <1>1, <2>2, <3>1, CutShortType
  <2> QED
    BY <1>4, <2>1, <2>2 DEF EraseSpare
<1>5. CASE CopyRecord
  <2>1. cursor \in 1 .. Len(page[active].log)
    BY <1>2, <1>5 DEF CopyRecord, TypeInv, TypeOK, Busy
  <2>2. Copied(cursor) \in Page
    BY <2>1, CopiedType DEF TypeInv
  <2>3. CASE cursor' = cursor + 1 /\ UNCHANGED <<page, pc, ram, call, mounting, reply>>
    BY <1>3, <1>5, <2>1, <2>3 DEF CopyRecord, TypeInv, TypeOK, Busy, Appending, Compacting
  <2>4. CASE /\ page' = [page EXCEPT ![Spare] = Copied(cursor)] /\ cursor' = cursor + 1
             /\ UNCHANGED <<pc, ram, call, mounting, reply>>
    <3>1. page' \in [Side -> Page]
      BY <1>1, <2>2, <2>4 DEF TypeInv, TypeOK
    <3> QED
      BY <1>3, <1>5, <2>1, <2>4, <3>1 DEF CopyRecord, TypeInv, TypeOK, Busy, Appending, Compacting
  <2>5. CASE CutShort(Spare,
               {page[Spare], [page[Spare] EXCEPT !.tail = "torn"], Copied(cursor)},
               "program", "flash")
    <3>1. [page[Spare] EXCEPT !.tail = "torn"] \in Page
      BY <1>1 DEF Page
    <3>2. {page[Spare], [page[Spare] EXCEPT !.tail = "torn"], Copied(cursor)} \in SUBSET Page
      BY <1>1, <2>2, <3>1
    <3> QED
      BY <1>1, <2>5, <3>2, CutShortType
  <2> QED
    BY <1>5, <2>3, <2>4, <2>5 DEF CopyRecord
<1>6. CASE Seal
  <2>1. NextSeq(seq) \in 0 .. SeqMod - 1
    BY NextSeqType DEF TypeInv, TypeOK
  <2>2. CASE /\ page' = [page EXCEPT ![Spare].hdr = "ok", ![Spare].seq = NextSeq(seq)]
             /\ pc' = "free" /\ UNCHANGED <<ram, call, cursor, mounting, reply>>
    <3>1. page' = [page EXCEPT ![Spare] = [page[Spare] EXCEPT !.hdr = "ok", !.seq = NextSeq(seq)]]
      BY <1>1, <2>2 DEF TypeInv, TypeOK
    <3>2. [page[Spare] EXCEPT !.hdr = "ok", !.seq = NextSeq(seq)] \in Page
      BY <1>1, <2>1 DEF Page
    <3>3. page' \in [Side -> Page]
      BY <1>1, <3>1, <3>2 DEF TypeInv, TypeOK
    <3> QED
      BY <1>3, <2>2, <3>3 DEF TypeInv, TypeOK, Busy, Appending, Compacting
  <2>3. ASSUME NEW p \in HeaderTorn(page[Spare], NextSeq(seq)),
               page' = [page EXCEPT ![Spare] = p],
               \/ PowerOff
               \/ pc' = "discard" /\ UNCHANGED <<ram, call, cursor, mounting, reply>>
        PROVE  TypeInv'
    <3>1. page' \in [Side -> Page]
      BY <1>1, <2>1, <2>3, HeaderTornType DEF TypeInv, TypeOK
    <3>2. CASE PowerOff
      BY <3>1, <3>2, PowerOffType
    <3>3. CASE pc' = "discard" /\ UNCHANGED <<ram, call, cursor, mounting, reply>>
      BY <1>3, <3>1, <3>3 DEF TypeInv, TypeOK, Busy, Appending, Compacting
    <3> QED
      BY <2>3, <3>2, <3>3
  <2> QED
    BY <1>6, <2>2, <2>3 DEF Seal
<1>7. CASE Discard
  <2>1. CASE page' = [page EXCEPT ![Spare] = Erased] /\ Fail("commit_failed")
    <3>1. page' \in [Side -> Page]
      BY <1>1, <2>1, ErasedType DEF TypeInv, TypeOK
    <3>2. CASE mounting
      BY <2>1, <3>1, <3>2, PowerOffType DEF Fail
    <3>3. CASE ~ mounting
      BY <2>1, <3>1, <3>3, ReturnType DEF Fail, TypeInv, TypeOK
    <3> QED
      BY <3>2, <3>3
  <2>2. CASE CutShort(Spare, EraseTorn(page[Spare]), "discard", "commit_failed")
    <3>1. EraseTorn(page[Spare]) \in SUBSET Page
      BY <1>1, EraseTornType
    <3> QED
      BY <1>1, <2>2, <3>1, CutShortType
  <2> QED
    BY <1>7, <2>1, <2>2 DEF Discard
<1>8. CASE FreeOld
  <2>1. CASE /\ page' = [page EXCEPT ![active] = Erased]
             /\ active' = Spare /\ frontier' = End(page[Spare].log) /\ seq' = page[Spare].seq
             /\ Return("ok")
    <3>1. page' \in [Side -> Page]
      BY <1>1, <2>1, ErasedType DEF TypeInv, TypeOK
    <3>2. active' \in Side /\ frontier' \in Nat /\ seq' \in 0 .. SeqMod - 1
      BY <1>1, <1>2, <2>1, EndType DEF Page
    <3> QED
      BY <2>1, <3>1, <3>2, ReturnType
  <2>2. CASE CutShort(active, EraseTorn(page[active]), "free", "flash")
    <3>1. EraseTorn(page[active]) \in SUBSET Page
      BY <1>1, EraseTornType
    <3> QED
      BY <1>1, <2>2, <3>1, CutShortType
  <2> QED
    BY <1>8, <2>1, <2>2 DEF FreeOld
<1> QED
  BY <1>4, <1>5, <1>6, <1>7, <1>8 DEF CompactStep

LEMMA InitTypeInv == Init => TypeInv
<1> SUFFICES ASSUME Init PROVE TypeInv
  OBVIOUS
<1>1. page \in [Side -> Page]
  BY ErasedType DEF Init
<1>2. 0 \in 0 .. SeqMod - 1 /\ FALSE \in BOOLEAN
  BY SeqModFacts
<1>3. TypeOK
  BY <1>1, <1>2 DEF Init, TypeOK
<1>4. Busy
  BY DEF Init, Busy, Appending
<1> QED
  BY <1>3, <1>4 DEF TypeInv

LEMMA NextTypeInv == TypeInv /\ [Next]_vars => TypeInv'
<1> SUFFICES ASSUME TypeInv, [Next]_vars PROVE TypeInv'
  OBVIOUS
<1>1. CASE UNCHANGED vars
  BY <1>1 DEF vars, TypeInv, TypeOK, Busy, Appending, Compacting
<1>2. CASE PowerLoss
  BY <1>2, PowerOffType DEF PowerLoss, TypeInv, TypeOK
<1> QED
  BY <1>1, <1>2, MountType, CallType, AppendType, CompactType DEF Next

\* The variables keep their types: in particular the page sequence number
\* stays inside its width across every wrap, and no copy or commit reaches
\* outside the log it works on (Store's u16 seq, compact's src walk).
THEOREM TypeCorrect == Spec => []TypeOK
<1>1. TypeInv => TypeOK
  BY DEF TypeInv
<1> QED
  BY <1>1, InitTypeInv, NextTypeInv, PTL DEF Spec

----------------------------------------------------------------------------
(* What a mount and a compaction hand over. *)

\* No torn header follows the records of the page being filled: step (0) erased it.
SpareClean == pc \in {"copy", "free"} => page[Spare].tail = "clean"

\* The handle of a board that is off is the zeroed one its next mount starts from.
HandleZero == pc = "off" => active = 0

WritableInv == TypeInv /\ SpareClean /\ HandleZero

LEMMA HandleZeroKept ==
  ASSUME HandleZero, [Next]_vars
  PROVE  HandleZero'
<1>1. CASE pc' = pc /\ active' = active
  BY <1>1 DEF HandleZero
<1>2. CASE pc' # "off" \/ PowerOff
  BY <1>2 DEF HandleZero, PowerOff
<1> QED
  BY <1>1, <1>2 DEF Next, vars, MountStep, MountVirgin, MountClean, MountTorn, Call, SetValue, EraseValue,
     StartAppend, Compact, AppendStep, FormatPage, CheckSpace, ProgramHeader, ProgramPayload, CompactStep,
     EraseSpare, CopyRecord, Seal, Discard, FreeOld, CutShort, Fail, Return, PowerLoss, ram

LEMMA SpareCleanKept ==
  ASSUME WritableInv, [Next]_vars, TypeInv'
  PROVE  SpareClean'
<1>1. /\ active \in Side /\ Spare \in Side /\ page \in [Side -> Page]
  BY SpareType DEF WritableInv, TypeInv, TypeOK
<1>2. CASE UNCHANGED vars
  BY <1>2 DEF vars, WritableInv, SpareClean, Spare
<1>3. CASE MountStep \/ Call \/ AppendStep \/ PowerLoss \/ Discard \/ FreeOld
  <2>1. pc' \notin {"copy", "free"}
    BY <1>3 DEF MountStep, MountVirgin, MountClean, MountTorn, Call, SetValue, EraseValue,
       StartAppend, Compact, AppendStep, FormatPage, CheckSpace, ProgramHeader, ProgramPayload,
       PowerLoss, PowerOff, Discard, FreeOld, CutShort, Fail, Return
  <2> QED
    BY <2>1 DEF SpareClean
<1>4. CASE EraseSpare
  <2>1. CASE pc' = "copy" /\ UNCHANGED ram /\ page' = [page EXCEPT ![Spare] = Erased]
    BY <1>1, <2>1 DEF ram, Spare, SpareClean, Erased
  <2>2. CASE pc' \notin {"copy", "free"}
    BY <2>2 DEF SpareClean
  <2> QED
    BY <1>4, <2>1, <2>2 DEF EraseSpare, CutShort, PowerOff, Fail, Return
<1>5. CASE CopyRecord
  <2>1. CASE UNCHANGED <<pc, ram>> /\ (page' = page \/ page' = [page EXCEPT ![Spare] = Copied(cursor)])
    <3>1. Copied(cursor).tail = page[Spare].tail
      BY <1>1 DEF Copied, Page
    <3> QED
      BY <1>1, <2>1, <3>1 DEF ram, Spare, WritableInv, SpareClean
  <2>2. CASE pc' \notin {"copy", "free"}
    BY <2>2 DEF SpareClean
  <2> QED
    BY <1>5, <2>1, <2>2 DEF CopyRecord, CutShort, PowerOff, Fail, Return
<1>6. CASE Seal
  <2>1. CASE /\ pc = "copy" /\ UNCHANGED ram
             /\ page' = [page EXCEPT ![Spare].hdr = "ok", ![Spare].seq = NextSeq(seq)]
    <3>1. page'[Spare].tail = page[Spare].tail
      BY <1>1, <2>1 DEF Page
    <3> QED
      BY <1>1, <2>1, <3>1 DEF ram, Spare, WritableInv, SpareClean
  <2>2. CASE pc' \notin {"copy", "free"}
    BY <2>2 DEF SpareClean
  <2> QED
    BY <1>6, <2>1, <2>2 DEF Seal, PowerOff
<1> QED
  BY <1>2, <1>3, <1>4, <1>5, <1>6 DEF Next, CompactStep

\* A page handed over by a mount or by a compaction that answered ok takes the
\* next append, whatever was torn before and whichever operations fail (mount's
\* auto-compaction, compact's step (4)).
THEOREM RecoveredIsWritableHolds == Spec => RecoveredIsWritable
<1>1. Init => WritableInv
  BY InitTypeInv DEF Init, WritableInv, SpareClean, HandleZero
<1>2. WritableInv /\ [Next]_vars => WritableInv'
  BY NextTypeInv, SpareCleanKept, HandleZeroKept DEF WritableInv
<1>3. WritableInv /\ [Next]_vars =>
        [ /\ pc \in {"off", "free"} /\ pc' = "idle" /\ reply' \in {"none", "ok"}
          /\ Valid(page', active')
          => Appendable(page', active', frontier') ]_vars
  <2> SUFFICES ASSUME WritableInv, Next,
                      pc \in {"off", "free"}, pc' = "idle", reply' \in {"none", "ok"},
                      Valid(page', active')
               PROVE  Appendable(page', active', frontier')
    OBVIOUS
  <2>1. /\ active \in Side /\ Spare \in Side /\ Spare # active /\ page \in [Side -> Page]
    BY SpareType DEF WritableInv, TypeInv, TypeOK, Spare
  <2>2. CASE MountStep
    <3>1. CASE MountVirgin
      BY <3>1 DEF MountVirgin, Newest, Valid, ram, WritableInv, HandleZero
    <3>2. CASE MountClean
      <4>1. /\ page' = page /\ active' = Newest(page) /\ active' \in Side
            /\ frontier' = End(page[active'].log) /\ page[active'].tail = "clean"
        BY <3>2 DEF MountClean, Newest
      <4>2. End(page[active'].log) \in Nat
        BY <2>1, <4>1, EndType DEF Page
      <4> QED
        BY <4>1, <4>2 DEF Appendable, ErasedAt, Valid
    <3> QED
      BY <2>2, <3>1, <3>2 DEF MountStep, MountTorn
  <2>3. CASE FreeOld
    <3>1. /\ page' = [page EXCEPT ![active] = Erased] /\ active' = Spare
          /\ frontier' = End(page[Spare].log) /\ pc = "free"
      BY <2>3 DEF FreeOld, CutShort, PowerOff, Fail, Return
    <3>2. page'[active'] = page[Spare] /\ page[Spare].tail = "clean"
      BY <2>1, <3>1 DEF WritableInv, SpareClean
    <3>3. End(page[Spare].log) \in Nat
      BY <2>1, EndType DEF Page
    <3> QED
      BY <3>1, <3>2, <3>3 DEF Appendable, ErasedAt, Valid
  <2> QED
    BY <2>2, <2>3 DEF Next, Call, SetValue, EraseValue, Compact, AppendStep, FormatPage, CheckSpace,
       ProgramHeader, ProgramPayload, CompactStep, EraseSpare, CopyRecord, Seal, Discard, PowerLoss, PowerOff
<1> QED
  BY <1>1, <1>2, <1>3, PTL DEF Spec, RecoveredIsWritable

----------------------------------------------------------------------------
(* Atomicity: a store whose flash tells the truth about its header         *)
(* programs and its step (4) erase implements the abstract map.            *)

(* Reading a log. *)

LEMMA EmptyLog ==
  /\ HasLatest(<<>>)
  /\ \A k \in Key : Find(<<>>, k) = Tomb
<1>1. \A k \in Key : Committed(<<>>, k) = {}
  BY EmptySeq DEF Committed
<1> QED
  BY <1>1 DEF HasLatest, Find

\* The index Find reads, when there is one.
LEMMA FindLatest ==
  ASSUME NEW log, HasLatest(log), NEW k \in Key, Committed(log, k) # {}
  PROVE  \E i \in Committed(log, k) :
           /\ \A j \in Committed(log, k) : j <= i
           /\ Find(log, k) = log[i].val
BY DEF HasLatest, Find

\* An index no committed record of the key follows is the one Find reads.
LEMMA FindIs ==
  ASSUME NEW log, NEW k \in Key, NEW i \in Committed(log, k),
         \A j \in Committed(log, k) : j <= i
  PROVE  Find(log, k) = log[i].val
<1> DEFINE last == CHOOSE x \in Committed(log, k) : \A j \in Committed(log, k) : j <= x
<1>1. last \in Committed(log, k) /\ \A j \in Committed(log, k) : j <= last
  OBVIOUS
<1>2. last = i
  BY <1>1 DEF Committed
<1> QED
  BY <1>2 DEF Find

LEMMA FindAppend ==
  ASSUME NEW log \in Seq(Record), HasLatest(log), NEW r \in Record
  PROVE  /\ HasLatest(Append(log, r))
         /\ \A k \in Key : Find(Append(log, r), k) =
              IF r.ok /\ r.key = k THEN r.val ELSE Find(log, k)
<1> DEFINE new == Append(log, r)
           n == Len(log)
<1>1. /\ n \in Nat /\ Len(new) = n + 1 /\ new[n + 1] = r
      /\ \A i \in 1 .. n : new[i] = log[i]
  BY AppendProperties, LenProperties
<1> HIDE DEF new
<1>2. SUFFICES ASSUME NEW k \in Key
               PROVE  /\ Committed(new, k) # {} =>
                           \E i \in Committed(new, k) : \A j \in Committed(new, k) : j <= i
                      /\ Find(new, k) = IF r.ok /\ r.key = k THEN r.val ELSE Find(log, k)
  BY DEF HasLatest, new
<1>3. CASE r.ok /\ r.key = k
  <2>1. n + 1 \in Committed(new, k) /\ \A j \in Committed(new, k) : j <= n + 1
    BY <1>1, <1>3 DEF Committed
  <2> QED
    BY <1>3, <1>1, <2>1, FindIs
<1>4. CASE ~ (r.ok /\ r.key = k)
  <2>1. Committed(new, k) = Committed(log, k)
    BY <1>1, <1>4 DEF Committed
  <2>2. CASE Committed(log, k) = {}
    BY <1>4, <2>1, <2>2 DEF Find
  <2>3. CASE Committed(log, k) # {}
    <3>1. PICK i \in Committed(log, k) :
            (\A j \in Committed(log, k) : j <= i) /\ Find(log, k) = log[i].val
      BY <2>3, FindLatest
    <3>2. i \in 1 .. n /\ new[i] = log[i]
      BY <1>1 DEF Committed
    <3>3. Find(new, k) = new[i].val
      BY <2>1, <3>1, FindIs
    <3> QED
      BY <1>4, <2>1, <3>1, <3>2, <3>3
  <2> QED
    BY <2>2, <2>3
<1> QED
  BY <1>3, <1>4

\* The val_crc landing makes the last record the one its key reads.
LEMMA FindCommit ==
  ASSUME NEW log \in Seq(Record), HasLatest(log), log # <<>>, ~ log[Len(log)].ok
  PROVE  LET n == Len(log)
             new == [log EXCEPT ![n] = [log[n] EXCEPT !.ok = TRUE]]
         IN  /\ HasLatest(new)
             /\ \A k \in Key : Find(new, k) =
                  IF log[n].key = k THEN log[n].val ELSE Find(log, k)
<1> DEFINE n == Len(log)
           new == [log EXCEPT ![n] = [log[n] EXCEPT !.ok = TRUE]]
<1>1. n \in Nat /\ n # 0 /\ DOMAIN log = 1 .. n /\ Len(new) = n
  BY CommitLastType, LenProperties, EmptySeq
<1>2. log[n] \in Record
  BY <1>1, ElementOfSeq
<1>3. new[n].ok /\ new[n].key = log[n].key /\ new[n].val = log[n].val
  BY <1>1, <1>2 DEF Record
<1>4. \A i \in 1 .. n : i # n => new[i] = log[i]
  BY <1>1
<1>5. ~ log[n].ok
  OBVIOUS
<1> HIDE DEF new, n
<1>6. SUFFICES ASSUME NEW k \in Key
               PROVE  /\ Committed(new, k) # {} =>
                           \E i \in Committed(new, k) : \A j \in Committed(new, k) : j <= i
                      /\ Find(new, k) = IF log[n].key = k THEN log[n].val ELSE Find(log, k)
  BY DEF HasLatest, new, n
<1>7. CASE log[n].key = k
  <2>1. n \in Committed(new, k) /\ \A j \in Committed(new, k) : j <= n
    BY <1>1, <1>3, <1>7 DEF Committed
  <2> QED
    BY <1>3, <1>7, <2>1, FindIs
<1>8. CASE log[n].key # k
  <2>1. Committed(new, k) = Committed(log, k)
    BY <1>1, <1>3, <1>4, <1>5, <1>8 DEF Committed, n
  <2>2. CASE Committed(log, k) = {}
    BY <1>8, <2>1, <2>2 DEF Find
  <2>3. CASE Committed(log, k) # {}
    <3>1. PICK i \in Committed(log, k) :
            (\A j \in Committed(log, k) : j <= i) /\ Find(log, k) = log[i].val
      BY <2>3, FindLatest
    <3>2. new[i] = log[i]
      BY <1>4, <1>8 DEF Committed, n
    <3>3. Find(new, k) = new[i].val
      BY <2>1, <3>1, FindIs
    <3> QED
      BY <1>8, <2>1, <3>1, <3>2, <3>3
  <2> QED
    BY <2>2, <2>3
<1> QED
  BY <1>7, <1>8

----------------------------------------------------------------------------
(* The copy. *)

LEMMA HoldsNothing ==
  ASSUME NEW old
  PROVE  Holds(old, <<>>, 1)
<1>1. \A k \in Key : Walked(old, 1, k) = {}
  BY DEF Walked
<1> QED
  BY <1>1, EmptyLog DEF Holds

LEMMA WalkedNext ==
  ASSUME NEW old, NEW c \in Nat, c >= 1, NEW k
  PROVE  Walked(old, c + 1, k) =
           IF old[c].key = k /\ Survives(old, c) THEN Walked(old, c, k) \cup {c}
                                                 ELSE Walked(old, c, k)
<1>1. \A i : i \in 1 .. (c + 1) - 1 <=> i \in 1 .. c - 1 \/ i = c
  OBVIOUS
<1>2. ~ (c \in 1 .. c - 1)
  OBVIOUS
<1>3. Walked(old, c + 1, k) = {i \in (1 .. c - 1) \cup {c} : old[i].key = k /\ Survives(old, i)}
  BY <1>1 DEF Walked
<1> QED
  BY <1>2, <1>3 DEF Walked

LEMMA HoldsSkipped ==
  ASSUME NEW old, NEW new, NEW c \in Nat, c >= 1, ~ Survives(old, c), Holds(old, new, c)
  PROVE  Holds(old, new, c + 1)
<1>1. \A k \in Key : Walked(old, c + 1, k) = Walked(old, c, k)
  BY WalkedNext
<1> QED
  BY <1>1 DEF Holds

LEMMA HoldsCopied ==
  ASSUME NEW old \in Seq(Record), NEW new \in Seq(Record), HasLatest(new),
         NEW c \in 1 .. Len(old), Survives(old, c), Holds(old, new, c),
         NEW r \in Record, r.key = old[c].key, r.val = old[c].val, r.ok
  PROVE  Holds(old, Append(new, r), c + 1)
<1> DEFINE now == Append(new, r)
<1>1. \A k \in Key : Find(now, k) = IF old[c].key = k THEN old[c].val ELSE Find(new, k)
  BY FindAppend
<1> HIDE DEF now
<1>2. SUFFICES ASSUME NEW k \in Key
               PROVE  /\ \A i \in Walked(old, c + 1, k) : Find(now, k) = old[i].val
                      /\ Walked(old, c + 1, k) = {} => Find(now, k) = Tomb
  BY DEF Holds, now
<1>3. CASE old[c].key = k
  <2>1. c \in Walked(old, c + 1, k)
    BY <1>3 DEF Walked
  <2>2. ASSUME NEW i \in Walked(old, c + 1, k) PROVE i = c
    <3>1. i \in 1 .. c /\ old[i].key = k /\ Survives(old, i)
      BY DEF Walked
    <3>2. ~ (c \in i + 1 .. Len(old))
      BY <1>3, <3>1 DEF Survives
    <3> QED
      BY <3>1, <3>2, LenProperties
  <2> QED
    BY <1>1, <1>3, <2>1, <2>2
<1>4. CASE old[c].key # k
  <2>1. Walked(old, c + 1, k) = Walked(old, c, k)
    BY <1>4 DEF Walked
  <2> QED
    BY <1>1, <1>4, <2>1 DEF Holds
<1> QED
  BY <1>3, <1>4

\* A finished copy reads like the log it copied.
LEMMA HoldsAll ==
  ASSUME NEW old \in Seq(Record), HasLatest(old), NEW new, Holds(old, new, Len(old) + 1)
  PROVE  \A k \in Key : Find(new, k) = Find(old, k)
<1> TAKE k \in Key
<1> DEFINE W == Walked(old, Len(old) + 1, k)
<1>1. W = {i \in 1 .. Len(old) : old[i].key = k /\ Survives(old, i)}
  BY LenProperties DEF Walked
<1>2. /\ \A i \in W : Find(new, k) = old[i].val
      /\ W = {} => Find(new, k) = Tomb
  BY DEF Holds
<1> HIDE DEF W
<1>3. CASE Committed(old, k) = {}
  <2>1. W = {}
    BY <1>1, <1>3 DEF Committed, Survives
  <2> QED
    BY <1>2, <1>3, <2>1 DEF Find
<1>4. CASE Committed(old, k) # {}
  <2>1. PICK i \in Committed(old, k) :
          (\A j \in Committed(old, k) : j <= i) /\ Find(old, k) = old[i].val
    BY <1>4, FindLatest
  <2>2. i \in 1 .. Len(old) /\ old[i].key = k /\ old[i].ok
    BY DEF Committed
  <2>3. \A j \in i + 1 .. Len(old) : ~ (old[j].key = k /\ old[j].ok)
    BY <2>1, <2>2, LenProperties DEF Committed
  <2>4. CASE old[i].val # Tomb
    <3>1. i \in W
      BY <1>1, <2>2, <2>3, <2>4 DEF Survives
    <3> QED
      BY <1>2, <2>1, <3>1
  <2>5. CASE old[i].val = Tomb
    <3>1. SUFFICES ASSUME NEW j \in W PROVE FALSE
      BY <1>2, <2>1, <2>5
    <3>2. j \in 1 .. Len(old) /\ old[j].key = k /\ Survives(old, j)
      BY <1>1
    <3>3. j \in Committed(old, k) /\ old[j].val # Tomb
      BY <3>2 DEF Committed, Survives
    <3>4. j <= i /\ j # i
      BY <2>1, <2>5, <3>3
    <3>5. i \in j + 1 .. Len(old)
      BY <2>2, <3>2, <3>4, LenProperties
    <3> QED
      BY <2>2, <3>2, <3>5 DEF Survives
  <2> QED
    BY <2>4, <2>5
<1> QED
  BY <1>3, <1>4

----------------------------------------------------------------------------
(* Which page a mount takes. *)

\* It is still s when s keeps its header and the other side gains none.
LEMMA NewestKept ==
  ASSUME NEW pg, NEW now, NEW s \in Side, Newest(pg) = s,
         now[s].hdr = pg[s].hdr, now[s].seq = pg[s].seq,
         Valid(now, 1 - s) => Valid(pg, 1 - s) /\ now[1 - s].seq = pg[1 - s].seq
  PROVE  Newest(now) = s
<1>1. CASE s = 0
  <2>1. Valid(now, 0) <=> Valid(pg, 0)
    BY <1>1 DEF Valid
  <2>2. ~ (Valid(pg, 1) /\ (Valid(pg, 0) => Side1IsNewer(pg[0].seq, pg[1].seq)))
    BY <1>1 DEF Newest
  <2>3. 1 - s = 1
    BY <1>1
  <2>4. ~ (Valid(now, 1) /\ (Valid(now, 0) => Side1IsNewer(now[0].seq, now[1].seq)))
    BY <1>1, <2>1, <2>2, <2>3
  <2> QED
    BY <1>1, <2>4 DEF Newest
<1>2. CASE s = 1
  <2>1. Valid(now, 1) <=> Valid(pg, 1)
    BY <1>2 DEF Valid
  <2>2. Valid(pg, 1) /\ (Valid(pg, 0) => Side1IsNewer(pg[0].seq, pg[1].seq))
    BY <1>2 DEF Newest
  <2>3. 1 - s = 0
    BY <1>2
  <2>4. Valid(now, 1) /\ (Valid(now, 0) => Side1IsNewer(now[0].seq, now[1].seq))
    BY <1>2, <2>1, <2>2, <2>3
  <2> QED
    BY <1>2, <2>4 DEF Newest
<1> QED
  BY <1>1, <1>2

\* It becomes the other one when that is sealed with the next number.
LEMMA NewestSealed ==
  ASSUME NEW pg, NEW now, NEW s \in Side, NEW n \in 0 .. SeqMod - 1, n # SeqUncommitted,
         Newest(pg) = s, Valid(pg, s) => pg[s].seq = n,
         now[s] = pg[s], Valid(now, 1 - s), now[1 - s].seq = NextSeq(n)
  PROVE  Newest(now) = 1 - s
<1>1. Side1IsNewer(n, NextSeq(n)) /\ ~ Side1IsNewer(NextSeq(n), n)
  BY NextSeqIsNewer
<1>2. CASE s = 0
  <2>1. Valid(now, 1) /\ now[1].seq = NextSeq(n)
    BY <1>2
  <2>2. Valid(now, 0) => now[0].seq = n
    BY <1>2 DEF Valid
  <2> QED
    BY <1>1, <1>2, <2>1, <2>2 DEF Newest
<1>3. CASE s = 1
  <2>1. Valid(now, 0) /\ now[0].seq = NextSeq(n)
    BY <1>3
  <2>2. Valid(pg, 1)
    BY <1>3 DEF Newest
  <2>3. now[1].seq = n
    BY <1>3, <2>2
  <2> QED
    BY <1>1, <1>3, <2>1, <2>3 DEF Newest
<1> QED
  BY <1>2, <1>3

LEMMA SameReading ==
  ASSUME NEW pg, NEW now,
         \A k \in Key : Find(now[Newest(now)].log, k) = Find(pg[Newest(pg)].log, k)
  PROVE  Recovered(now) = Recovered(pg)
BY DEF Recovered

----------------------------------------------------------------------------
(* What a flash operation leaves is a page the store can read. *)

LEMMA GoodErased == Erased \in GoodPage
<1>1. Erased.seq # SeqUncommitted
  BY SeqAssumption DEF Erased, SeqUncommitted, SeqMod
<1>2. HasLatest(Erased.log)
  BY EmptyLog DEF Erased
<1> QED
  BY <1>1, <1>2, ErasedType DEF GoodPage

LEMMA GoodIsPage == GoodPage \subseteq Page
BY DEF GoodPage

LEMMA GoodPages ==
  ASSUME NEW pg \in [Side -> GoodPage]
  PROVE  pg \in [Side -> Page]
BY GoodIsPage

LEMMA GoodEraseTorn ==
  ASSUME NEW p \in GoodPage
  PROVE  EraseTorn(p) \subseteq GoodPage
<1>1. p \in Page /\ p.seq # SeqUncommitted /\ HasLatest(p.log)
  BY DEF GoodPage
<1>2. EraseTorn(p) \subseteq Page
  BY <1>1, EraseTornType
<1>3. [p EXCEPT !.log = <<>>, !.tail = "torn"] \in GoodPage
  <2>1. [p EXCEPT !.log = <<>>, !.tail = "torn"].log = <<>>
    BY <1>1 DEF Page
  <2>2. [p EXCEPT !.log = <<>>, !.tail = "torn"].seq = p.seq
    BY <1>1 DEF Page
  <2> QED
    BY <1>1, <1>2, <2>1, <2>2, EmptyLog DEF GoodPage, EraseTorn
<1>4. [p EXCEPT !.hdr = "torn"] \in GoodPage
  <2>1. [p EXCEPT !.hdr = "torn"].log = p.log /\ [p EXCEPT !.hdr = "torn"].seq = p.seq
    BY <1>1 DEF Page
  <2> QED
    BY <1>1, <1>2, <2>1 DEF GoodPage, EraseTorn
<1> QED
  BY <1>3, <1>4, GoodErased DEF EraseTorn

LEMMA GoodHeaderTorn ==
  ASSUME NEW p \in GoodPage, NEW n \in 0 .. SeqMod - 1, n # SeqUncommitted
  PROVE  HeaderTorn(p, n) \subseteq GoodPage
<1>1. p \in Page /\ p.seq # SeqUncommitted /\ HasLatest(p.log)
  BY DEF GoodPage
<1>2. HeaderTorn(p, n) \subseteq Page
  BY <1>1, HeaderTornType
<1>3. ASSUME NEW q \in HeaderTorn(p, n) PROVE q.log = p.log /\ q.seq \in {p.seq, n}
  BY <1>1 DEF HeaderTorn, Page
<1> QED
  BY <1>1, <1>2, <1>3 DEF GoodPage

LEMMA GoodTail ==
  ASSUME NEW p \in GoodPage
  PROVE  [p EXCEPT !.tail = "torn"] \in GoodPage
BY DEF GoodPage, Page

LEMMA GoodLog ==
  ASSUME NEW p \in GoodPage, NEW log \in Seq(Record), HasLatest(log)
  PROVE  [p EXCEPT !.log = log] \in GoodPage
<1>1. p \in Page /\ p.seq # SeqUncommitted
  BY DEF GoodPage
<1>2. [p EXCEPT !.log = log] \in Page
  BY <1>1 DEF Page
<1>3. [p EXCEPT !.log = log].log = log /\ [p EXCEPT !.log = log].seq = p.seq
  BY <1>1 DEF Page
<1> QED
  BY <1>1, <1>2, <1>3 DEF GoodPage

----------------------------------------------------------------------------
(* How a step ends a call, and what the abstract map sees of it. *)

MapStep == [KV!Next]_(KV!vars)

LEMMA IInvFacts ==
  ASSUME IInv
  PROVE  /\ TypeInv
         /\ active \in Side /\ Spare \in Side /\ Spare # active /\ Spare = 1 - active
         /\ page[active] \in GoodPage /\ page[Spare] \in GoodPage
         /\ page[active].log \in Seq(Record) /\ HasLatest(page[active].log)
         /\ page[Spare].log \in Seq(Record) /\ HasLatest(page[Spare].log)
<1>1. TypeInv
  BY DEF IInv, Progress, TypeInv
<1>2. active \in Side /\ Spare \in Side /\ Spare # active /\ Spare = 1 - active
  BY <1>1, SpareType DEF TypeInv, TypeOK, Spare
<1>3. page[active] \in GoodPage /\ page[Spare] \in GoodPage
  BY <1>2 DEF IInv
<1> QED
  BY <1>1, <1>2, <1>3 DEF GoodPage, Page

LEMMA PowerOffInv ==
  ASSUME PowerOff, page' \in [Side -> GoodPage]
  PROVE  IInv'
<1>1. TypeInv'
  BY PowerOffType, GoodPages
<1>2. 0 # SeqUncommitted
  BY SeqAssumption DEF SeqUncommitted, SeqMod
<1>3. pc' = "off" /\ active' = 0 /\ seq' = 0
  BY DEF PowerOff
<1>4. Progress'
  BY <1>1, <1>3 DEF Progress, TypeInv
<1>5. ActiveIsNewest' /\ CopyMatches' /\ SealMatches'
  BY <1>3 DEF ActiveIsNewest, CopyMatches, SealMatches
<1> QED
  BY <1>1, <1>2, <1>3, <1>4, <1>5 DEF IInv, TypeInv

LEMMA ReturnInv ==
  ASSUME IInv, NEW r \in {"ok", "too_large", "full", "flash", "commit_failed"},
         Return(r), page' \in [Side -> GoodPage], active' \in Side, frontier' \in Nat,
         seq' \in 0 .. SeqMod - 1, seq' # SeqUncommitted,
         Newest(page') = active', Valid(page', active') => seq' = page'[active'].seq
  PROVE  IInv'
<1>1. TypeInv'
  BY IInvFacts, ReturnType, GoodPages
<1>2. pc' = "idle"
  BY DEF Return
<1>3. Progress'
  BY <1>1, <1>2 DEF Progress, TypeInv
<1>4. CopyMatches' /\ SealMatches'
  BY <1>2 DEF CopyMatches, SealMatches
<1>5. ActiveIsNewest'
  BY DEF ActiveIsNewest, Valid, Newest
<1> QED
  BY <1>1, <1>3, <1>4, <1>5 DEF IInv, TypeInv

\* A step that neither begins nor ends a call and leaves every reading alone.
LEMMA QuietStep ==
  ASSUME Recovered(page') = Recovered(page), UNCHANGED <<call, reply>>
  PROVE  MapStep
<1>1. UNCHANGED KV!vars
  BY DEF KV!vars, Answer, Recovered
<1> QED
  BY <1>1 DEF MapStep

LEMMA HousekeepingStep ==
  ASSUME IInv, Recovered(page') = Recovered(page), call = NoCall, call' = NoCall
  PROVE  MapStep
<1>1. Answer' \in {"none", "ok", "error"}
  BY DEF Answer
<1>2. KV!Housekeeping
  BY <1>1 DEF KV!Housekeeping, Recovered
<1> QED
  BY <1>2 DEF MapStep, KV!Next

\* A call that an error or a power loss ends: its write took effect, or not.
LEMMA AbandonStep ==
  ASSUME IInv, call # NoCall, call' = NoCall, reply' \notin {"ok"},
         \/ Recovered(page') = Recovered(page)
         \/ Recovered(page') = [Recovered(page) EXCEPT ![call.key] = call.val]
  PROVE  MapStep
<1>1. Answer' \in {"none", "error"}
  BY DEF Answer
<1>2. KV!CutShort
  BY <1>1 DEF KV!CutShort, KV!Applied, Recovered
<1> QED
  BY <1>2 DEF MapStep, KV!Next

\* The page a handle may go back to serving from.
Serving(pg) == Newest(pg) = active /\ (Valid(pg, active) => seq = pg[active].seq)

\* An operation that failed, or that the power loss ended.
LEMMA ExitStep ==
  ASSUME IInv, page' \in [Side -> GoodPage], NEW err \in {"flash", "commit_failed"},
         PowerOff \/ (Fail(err) /\ Serving(page')),
         \/ Recovered(page') = Recovered(page)
         \/ /\ call # NoCall
            /\ Recovered(page') = [Recovered(page) EXCEPT ![call.key] = call.val]
  PROVE  IInv' /\ MapStep
<1>1. CASE PowerOff
  <2>1. IInv'
    BY <1>1, PowerOffInv
  <2>2. call' = NoCall /\ reply' = "none"
    BY <1>1 DEF PowerOff
  <2> QED
    BY <2>1, <2>2, HousekeepingStep, AbandonStep
<1>2. CASE ~ mounting /\ Return(err) /\ UNCHANGED ram /\ Serving(page')
  <2>1. active' = active /\ frontier' = frontier /\ seq' = seq
    BY <1>2 DEF ram
  <2>2. active' \in Side /\ frontier' \in Nat /\ seq' \in 0 .. SeqMod - 1 /\ seq' # SeqUncommitted
    BY <2>1 DEF IInv, TypeOK
  <2>3. Newest(page') = active' /\ (Valid(page', active') => seq' = page'[active'].seq)
    BY <1>2, <2>1 DEF Serving
  <2>4. IInv'
    BY <1>2, <2>2, <2>3, ReturnInv
  <2>5. call' = NoCall /\ reply' = err
    BY <1>2 DEF Return
  <2> QED
    BY <2>4, <2>5, HousekeepingStep, AbandonStep
<1> QED
  BY <1>1, <1>2 DEF Fail

LEMMA CutShortStep ==
  ASSUME IInv, NEW s \in Side, NEW outcomes \in SUBSET GoodPage, NEW fault,
         NEW err \in {"flash", "commit_failed"}, CutShort(s, outcomes, fault, err),
         fault \in Faults => \A p \in outcomes : Serving([page EXCEPT ![s] = p]),
         \A p \in outcomes :
            \/ Recovered([page EXCEPT ![s] = p]) = Recovered(page)
            \/ /\ call # NoCall
               /\ Recovered([page EXCEPT ![s] = p]) = [Recovered(page) EXCEPT ![call.key] = call.val]
  PROVE  IInv' /\ MapStep
<1>1. PICK p \in outcomes : page' = [page EXCEPT ![s] = p]
  BY DEF CutShort
<1>2. page' \in [Side -> GoodPage]
  BY <1>1 DEF IInv
<1>3. PowerOff \/ (Fail(err) /\ Serving(page'))
  BY <1>1 DEF CutShort
<1> QED
  BY <1>1, <1>2, <1>3, ExitStep

\* Marks on the active page that leave its header alone leave it the newest;
\* so does anything done to the spare that gives it no valid header.
LEMMA ServingKept ==
  ASSUME IInv, pc \notin {"off", "free"}, NEW p,
         p.hdr = page[active].hdr, p.seq = page[active].seq
  PROVE  Serving([page EXCEPT ![active] = p])
<1> DEFINE now == [page EXCEPT ![active] = p]
<1>1. Newest(page) = active /\ (Valid(page, active) => seq = page[active].seq)
  BY DEF IInv, ActiveIsNewest
<1>2. active \in Side /\ Spare = 1 - active /\ Spare \in Side /\ Spare # active
  BY IInvFacts
<1>3. now[active] = p /\ now[1 - active] = page[1 - active]
  BY <1>2 DEF IInv
<1> HIDE DEF now
<1>4. Valid(now, 1 - active) => Valid(page, 1 - active) /\ now[1 - active].seq = page[1 - active].seq
  BY <1>3 DEF Valid
<1>5. now[active].hdr = page[active].hdr /\ now[active].seq = page[active].seq
  BY <1>3
<1>6. Newest(now) = active
  BY <1>1, <1>2, <1>4, <1>5, NewestKept
<1>7. Serving(now)
  BY <1>1, <1>5, <1>6 DEF Serving, Valid
<1> QED
  BY <1>7 DEF now

LEMMA SpareIgnored ==
  ASSUME IInv, pc \notin {"off", "free"}, NEW p,
         p.hdr = "ok" => page[Spare].hdr = "ok" /\ p.seq = page[Spare].seq
  PROVE  /\ Serving([page EXCEPT ![Spare] = p])
         /\ Recovered([page EXCEPT ![Spare] = p]) = Recovered(page)
<1> DEFINE now == [page EXCEPT ![Spare] = p]
<1>1. Newest(page) = active /\ (Valid(page, active) => seq = page[active].seq)
  BY DEF IInv, ActiveIsNewest
<1>2. active \in Side /\ Spare = 1 - active /\ Spare \in Side /\ Spare # active
  BY IInvFacts
<1>3. now[active] = page[active] /\ now[1 - active] = p
  BY <1>2 DEF IInv
<1> HIDE DEF now
<1>4. Valid(now, 1 - active) => Valid(page, 1 - active) /\ now[1 - active].seq = page[1 - active].seq
  BY <1>2, <1>3 DEF Valid
<1>5. Newest(now) = active
  BY <1>1, <1>2, <1>3, <1>4, NewestKept
<1>6. Serving(now)
  BY <1>1, <1>3, <1>5 DEF Serving, Valid
<1>7. Recovered(now) = Recovered(page)
  BY <1>1, <1>3, <1>5, SameReading
<1> QED
  BY <1>6, <1>7 DEF now

----------------------------------------------------------------------------
(* One lemma per action. *)

LEMMA MountKeeps ==
  ASSUME IInv, MountStep
  PROVE  IInv' /\ MapStep
<1>1. UNCHANGED <<page, call, reply>> /\ pc = "off"
  BY DEF MountStep, MountVirgin, MountClean, MountTorn
<1>2. MapStep
  BY <1>1, QuietStep
<1>3. TypeInv' /\ page' \in [Side -> GoodPage]
  BY <1>1, IInvFacts, MountType DEF IInv
<1>4. Newest(page) \in Side
  BY DEF Newest
<1>5. pc' \in {"idle", "spare"}
  BY DEF MountStep, MountVirgin, MountClean, MountTorn
<1>6. Progress' /\ CopyMatches' /\ SealMatches'
  BY <1>3, <1>5 DEF Progress, TypeInv, CopyMatches, SealMatches
<1>7. seq' # SeqUncommitted /\ Newest(page) = active'
      /\ (Valid(page, active') => seq' = page[active'].seq)
  <2>1. CASE MountVirgin
    <3>1. active' = active /\ seq' = seq /\ active = 0
      BY <1>1, <2>1 DEF MountVirgin, ram, IInv, Progress
    <3>2. Newest(page) = 0 /\ ~ Valid(page, 0)
      BY <2>1 DEF MountVirgin, Newest
    <3> QED
      BY <3>1, <3>2 DEF IInv
  <2>2. CASE MountClean \/ MountTorn
    <3>1. active' = Newest(page) /\ seq' = page[Newest(page)].seq
      BY <2>2 DEF MountClean, MountTorn
    <3>2. page[Newest(page)] \in GoodPage
      BY <1>4 DEF IInv
    <3> QED
      BY <3>1, <3>2 DEF GoodPage
  <2> QED
    BY <2>1, <2>2 DEF MountStep
<1>8. ActiveIsNewest'
  BY <1>1, <1>7 DEF ActiveIsNewest, Valid, Newest
<1> QED
  BY <1>2, <1>3, <1>6, <1>7, <1>8 DEF IInv, TypeInv

\* Steps that move only the program counter and the call.
LEMMA StandsStill ==
  ASSUME IInv, TypeInv', UNCHANGED <<page, active, seq>>, pc \notin {"off", "free"},
         pc' \in {"idle", "append", "record", "spare"}
  PROVE  IInv'
<1>1. Progress' /\ CopyMatches' /\ SealMatches'
  BY DEF Progress, TypeInv, CopyMatches, SealMatches
<1>2. ActiveIsNewest'
  BY DEF IInv, ActiveIsNewest, Valid, Newest
<1> QED
  BY <1>1, <1>2 DEF IInv, TypeInv

LEMMA StartAppendKeeps ==
  ASSUME IInv, pc = "idle", TypeInv', NEW k \in Key, NEW v \in Value \cup {Tomb},
         StartAppend(k, v)
  PROVE  IInv' /\ MapStep
<1>1. UNCHANGED <<page, active, seq>> /\ pc' \in {"idle", "append"}
  BY DEF StartAppend, Return, ram
<1>2. call = NoCall
  BY DEF IInv, Progress, Busy, Appending
<1>3. IInv'
  BY <1>1, StandsStill
<1>4. CASE Return("too_large")
  BY <1>1, <1>2, <1>3, <1>4, HousekeepingStep DEF Return
<1>5. CASE call' = [key |-> k, val |-> v] /\ reply' = "none"
  <2>1. KV!Begin(k, v)
    BY <1>1, <1>2, <1>5 DEF KV!Begin, Answer, Recovered
  <2> QED
    BY <1>3, <2>1 DEF MapStep, KV!Next
<1> QED
  BY <1>3, <1>4, <1>5 DEF StartAppend

LEMMA CallKeeps ==
  ASSUME IInv, Call
  PROVE  IInv' /\ MapStep
<1>1. TypeInv'
  BY IInvFacts, CallType
<1>2. pc = "idle" /\ call = NoCall
  BY DEF Call, SetValue, EraseValue, Compact, IInv, Progress, Busy, Appending
<1>3. ASSUME NEW k \in Key, NEW v \in Value, SetValue(k, v) PROVE IInv' /\ MapStep
  BY <1>1, <1>3, StartAppendKeeps DEF SetValue
<1>4. ASSUME NEW k \in Key, EraseValue(k) PROVE IInv' /\ MapStep
  <2>1. CASE StartAppend(k, Tomb)
    BY <1>1, <1>2, <2>1, StartAppendKeeps
  <2>2. CASE Return("ok") /\ UNCHANGED <<page, ram>>
    <3>1. UNCHANGED <<page, active, seq>> /\ pc' = "idle" /\ call' = NoCall
      BY <2>2 DEF Return, ram
    <3> QED
      BY <1>1, <1>2, <3>1, StandsStill, HousekeepingStep
  <2> QED
    BY <1>4, <2>1, <2>2 DEF EraseValue
<1>5. CASE Compact
  <2>1. UNCHANGED <<page, active, seq, call>> /\ pc' = "spare"
    BY <1>5 DEF Compact, ram
  <2> QED
    BY <1>1, <1>2, <2>1, StandsStill, HousekeepingStep
<1> QED
  BY <1>3, <1>4, <1>5 DEF Call

LEMMA FormatPageKeeps ==
  ASSUME IInv, FormatPage
  PROVE  IInv' /\ MapStep
<1>1. TypeInv'
  BY IInvFacts, AppendType DEF AppendStep
<1>2. pc = "append" /\ ~ Valid(page, active) /\ call # NoCall /\ ~ mounting
  BY DEF FormatPage, IInv, Progress, Busy, Appending, Compacting
<1>3. active = 0 /\ ~ Valid(page, 1)
  BY <1>2 DEF IInv, ActiveIsNewest, Newest
<1>4. ASSUME NEW p \in HeaderTorn(page[active], seq)
      PROVE  LET now == [page EXCEPT ![active] = p] IN
             Newest(now) = active /\ Serving(now) /\ Recovered(now) = Recovered(page)
  <2> DEFINE now == [page EXCEPT ![active] = p]
  <2>1. page[active] \in Page /\ active \in Side
    BY IInvFacts, GoodIsPage
  <2>2. p.log = page[active].log
    BY <2>1 DEF HeaderTorn, Page
  <2>3. now[0] = p /\ now[1] = page[1] /\ p.log = page[0].log
    BY <1>3, <2>2 DEF IInv
  <2> HIDE DEF now
  <2>4. Newest(now) = active
    BY <1>3, <2>3 DEF Newest, Valid
  <2>5. p.hdr = "ok" => p.seq = seq
    BY <1>2, <2>1 DEF HeaderTorn, Valid, Page
  <2>6. Serving(now)
    BY <1>3, <2>3, <2>4, <2>5 DEF Serving, Valid
  <2>7. Recovered(now) = Recovered(page)
    BY <1>2, <1>3, <2>3, <2>4, SameReading DEF IInv, ActiveIsNewest
  <2> QED
    BY <2>4, <2>6, <2>7 DEF now
<1>5. CASE Return("flash") /\ UNCHANGED <<page, ram>>
  <2>1. UNCHANGED <<page, active, seq>> /\ pc' = "idle" /\ call' = NoCall /\ reply' = "flash"
    BY <1>5 DEF Return, ram
  <2>2. IInv'
    BY <1>1, <1>2, <2>1, StandsStill
  <2> QED
    BY <1>2, <2>1, <2>2, AbandonStep
<1>6. CASE /\ page' = [page EXCEPT ![active].hdr = "ok", ![active].seq = seq]
           /\ UNCHANGED <<pc, ram, call, cursor, mounting, reply>>
  <2> DEFINE p == [page[active] EXCEPT !.hdr = "ok", !.seq = seq]
  <2>1. page' = [page EXCEPT ![active] = p] /\ p \in HeaderTorn(page[active], seq)
    BY <1>6, IInvFacts DEF IInv, HeaderTorn
  <2>2. Serving(page') /\ Recovered(page') = Recovered(page)
    BY <1>4, <2>1
  <2>3. page' \in [Side -> GoodPage]
    <3>1. p \in GoodPage
      BY <2>1, IInvFacts, GoodHeaderTorn DEF IInv, TypeOK
    <3> QED
      BY <2>1, <3>1 DEF IInv
  <2>4. ActiveIsNewest' /\ Progress' /\ CopyMatches' /\ SealMatches'
    BY <1>1, <1>2, <1>6, <2>2
       DEF ActiveIsNewest, Serving, Valid, Newest, Progress, TypeInv, CopyMatches, SealMatches, ram
  <2>5. IInv'
    BY <1>1, <1>6, <2>3, <2>4 DEF IInv, TypeInv, ram
  <2> QED
    BY <1>6, <2>2, <2>5, QuietStep
<1>7. CASE CutShort(active, HeaderTorn(page[active], seq), "program", "flash")
  <2>1. HeaderTorn(page[active], seq) \in SUBSET GoodPage
    BY IInvFacts, GoodHeaderTorn DEF IInv, TypeOK
  <2> QED
    BY <1>4, <1>7, <2>1, IInvFacts, CutShortStep
<1> QED
  BY <1>5, <1>6, <1>7 DEF FormatPage

LEMMA CheckSpaceKeeps ==
  ASSUME IInv, CheckSpace
  PROVE  IInv' /\ MapStep
<1>1. TypeInv'
  BY IInvFacts, AppendType DEF AppendStep
<1>2. pc = "append" /\ call # NoCall /\ UNCHANGED <<page, active, seq>> /\ pc' \in {"record", "idle"}
  BY DEF CheckSpace, Return, ram, IInv, Progress, Busy, Appending
<1>3. IInv'
  BY <1>1, <1>2, StandsStill
<1>4. MapStep
  BY <1>2, QuietStep, AbandonStep DEF CheckSpace, Return
<1> QED
  BY <1>3, <1>4

\* The page and the reading once a record header has landed, or a commit.
LEMMA HeaderLanded ==
  ASSUME IInv, call # NoCall
  PROVE  /\ WithHeader \in GoodPage
         /\ WithHeader.hdr = page[active].hdr /\ WithHeader.seq = page[active].seq
         /\ \A k \in Key : Find(WithHeader.log, k) = Find(page[active].log, k)
         /\ LET log == WithHeader.log IN
            /\ log # <<>>
            /\ log[Len(log)].key = call.key /\ log[Len(log)].val = call.val
            /\ ~ log[Len(log)].ok
<1> DEFINE r == [key |-> call.key, val |-> call.val, off |-> frontier, ok |-> FALSE]
           old == page[active].log
<1>1. page[active] \in GoodPage /\ old \in Seq(Record) /\ HasLatest(old)
  BY IInvFacts
<1>2. r \in Record
  BY DEF IInv, TypeOK, Record
<1>3. WithHeader = [page[active] EXCEPT !.log = Append(old, r)]
  BY <1>1, GoodIsPage DEF WithHeader, Page
<1>r. r.key = call.key /\ r.val = call.val /\ r.ok = FALSE
  OBVIOUS
<1> HIDE DEF r
<1>4. Append(old, r) \in Seq(Record) /\ HasLatest(Append(old, r))
      /\ \A k \in Key : Find(Append(old, r), k) = Find(old, k)
  <2>1. Append(old, r) \in Seq(Record)
    BY <1>1, <1>2, AppendProperties
  <2>2. HasLatest(Append(old, r)) /\ \A k \in Key : Find(Append(old, r), k) = Find(old, k)
    BY <1>1, <1>2, <1>r, FindAppend
  <2> QED
    BY <2>1, <2>2
<1>5. WithHeader \in GoodPage
  BY <1>1, <1>3, <1>4, GoodLog
<1>6. WithHeader.log = Append(old, r)
      /\ WithHeader.hdr = page[active].hdr /\ WithHeader.seq = page[active].seq
  BY <1>1, <1>3, GoodIsPage DEF Page
<1>7. Append(old, r) # <<>> /\ Append(old, r)[Len(Append(old, r))] = r
  BY <1>1, <1>2, AppendProperties, LenProperties
<1> QED
  BY <1>r, <1>4, <1>5, <1>6, <1>7

LEMMA CommitLanded ==
  ASSUME IInv, pc = "payload"
  PROVE  /\ WithCommit \in GoodPage
         /\ WithCommit.hdr = page[active].hdr /\ WithCommit.seq = page[active].seq
         /\ \A k \in Key : Find(WithCommit.log, k) =
              IF call.key = k THEN call.val ELSE Find(page[active].log, k)
<1> DEFINE old == page[active].log
           n == Len(old)
           new == [old EXCEPT ![n] = [old[n] EXCEPT !.ok = TRUE]]
<1>1. page[active] \in GoodPage /\ old \in Seq(Record) /\ HasLatest(old)
  BY IInvFacts
<1>2. old # <<>> /\ old[n].key = call.key /\ old[n].val = call.val /\ ~ old[n].ok
  BY DEF IInv, Progress
<1>3. WithCommit = [page[active] EXCEPT !.log = new]
  BY <1>1, GoodIsPage DEF WithCommit, Page
<1>4. new \in Seq(Record)
  BY <1>1, CommitLastType
<1>5. HasLatest(new)
      /\ \A k \in Key : Find(new, k) = IF call.key = k THEN call.val ELSE Find(old, k)
  BY <1>1, <1>2, FindCommit
<1>6. WithCommit \in GoodPage
  BY <1>1, <1>3, <1>4, <1>5, GoodLog
<1>7. WithCommit.log = new
      /\ WithCommit.hdr = page[active].hdr /\ WithCommit.seq = page[active].seq
  BY <1>1, <1>3, GoodIsPage DEF Page
<1> QED
  BY <1>5, <1>6, <1>7

\* What replacing the active page does to the reading, header kept.
LEMMA ActiveReads ==
  ASSUME IInv, pc \notin {"off", "free"}, NEW p,
         p.hdr = page[active].hdr, p.seq = page[active].seq
  PROVE  LET now == [page EXCEPT ![active] = p] IN
         Newest(page) = active /\ now[Newest(now)] = p
<1>1. Newest(page) = active /\ Newest([page EXCEPT ![active] = p]) = active
  BY ServingKept DEF IInv, ActiveIsNewest, Serving
<1> QED
  BY <1>1, IInvFacts DEF IInv

LEMMA ProgramHeaderKeeps ==
  ASSUME IInv, ProgramHeader
  PROVE  IInv' /\ MapStep
<1>1. TypeInv'
  BY IInvFacts, AppendType DEF AppendStep
<1>2. pc = "record" /\ call # NoCall
  BY DEF ProgramHeader, IInv, Progress, Busy, Appending
<1> DEFINE torn == [page[active] EXCEPT !.tail = "torn"]
<1>3. /\ torn \in GoodPage /\ torn.hdr = page[active].hdr /\ torn.seq = page[active].seq
      /\ torn.log = page[active].log
  BY IInvFacts, GoodTail, GoodIsPage DEF Page
<1>4. ASSUME NEW p \in {page[active], torn, WithHeader}
      PROVE  LET now == [page EXCEPT ![active] = p] IN
             Serving(now) /\ Recovered(now) = Recovered(page)
  <2>1. /\ p.hdr = page[active].hdr /\ p.seq = page[active].seq
        /\ \A k \in Key : Find(p.log, k) = Find(page[active].log, k)
    BY <1>2, <1>3, HeaderLanded
  <2> QED
    BY <1>2, <2>1, ServingKept, ActiveReads, SameReading
<1>5. CASE Return("flash") /\ UNCHANGED <<page, ram>>
  <2>1. UNCHANGED <<page, active, seq>> /\ pc' = "idle" /\ call' = NoCall /\ reply' = "flash"
    BY <1>5 DEF Return, ram
  <2>2. IInv'
    BY <1>1, <1>2, <2>1, StandsStill
  <2> QED
    BY <1>2, <2>1, <2>2, AbandonStep
<1>6. CASE /\ page' = [page EXCEPT ![active] = WithHeader] /\ pc' = "payload"
           /\ UNCHANGED <<ram, call, cursor, mounting, reply>>
  <2>1. Serving(page') /\ Recovered(page') = Recovered(page)
    BY <1>4, <1>6
  <2>2. page' \in [Side -> GoodPage]
    BY <1>2, <1>6, HeaderLanded DEF IInv
  <2>3. page'[active] = WithHeader
    BY <1>6, IInvFacts DEF IInv
  <2>4. Progress'
    BY <1>1, <1>2, <1>6, <2>3, HeaderLanded DEF Progress, TypeInv, ram
  <2>5. ActiveIsNewest' /\ CopyMatches' /\ SealMatches'
    BY <1>6, <2>1 DEF ActiveIsNewest, Serving, Valid, Newest, CopyMatches, SealMatches, ram
  <2>6. IInv'
    BY <1>1, <1>6, <2>2, <2>4, <2>5 DEF IInv, TypeInv, ram
  <2> QED
    BY <1>6, <2>1, <2>6, QuietStep
<1>7. CASE CutShort(active, {page[active], torn, WithHeader}, "program", "flash")
  <2>1. {page[active], torn, WithHeader} \in SUBSET GoodPage
    BY <1>2, <1>3, IInvFacts, HeaderLanded
  <2> QED
    BY <1>4, <1>7, <2>1, IInvFacts, CutShortStep
<1> QED
  BY <1>5, <1>6, <1>7 DEF ProgramHeader

LEMMA ProgramPayloadKeeps ==
  ASSUME IInv, ProgramPayload
  PROVE  IInv' /\ MapStep
<1>1. TypeInv'
  BY IInvFacts, AppendType DEF AppendStep
<1>2. pc = "payload" /\ call # NoCall /\ call.key \in Key
  BY DEF ProgramPayload, IInv, TypeOK, Progress, Busy, Appending
<1>3. Serving([page EXCEPT ![active] = WithCommit])
  BY <1>2, CommitLanded, ServingKept
<1>4. Recovered([page EXCEPT ![active] = WithCommit]) = [Recovered(page) EXCEPT ![call.key] = call.val]
  <2> DEFINE now == [page EXCEPT ![active] = WithCommit]
  <2>1. Newest(page) = active /\ now[Newest(now)] = WithCommit
    BY <1>2, CommitLanded, ActiveReads
  <2>2. \A k \in Key : Find(now[Newest(now)].log, k) =
          IF call.key = k THEN call.val ELSE Find(page[Newest(page)].log, k)
    BY <1>2, <2>1, CommitLanded
  <2> HIDE DEF now
  <2>3. Recovered(now) = [Recovered(page) EXCEPT ![call.key] = call.val]
    BY <1>2, <2>2 DEF Recovered
  <2> QED
    BY <2>3 DEF now
<1>5. Serving([page EXCEPT ![active] = page[active]])
      /\ Recovered([page EXCEPT ![active] = page[active]]) = Recovered(page)
  <2>1. [page EXCEPT ![active] = page[active]] = page
    BY IInvFacts DEF IInv
  <2> QED
    BY <1>2, <2>1, ServingKept
<1>6. CASE /\ page' = [page EXCEPT ![active] = WithCommit] /\ Return("ok")
           /\ frontier' = frontier + Size[call.val] /\ UNCHANGED <<active, seq>>
  <2>1. page' \in [Side -> GoodPage]
    BY <1>2, <1>6, CommitLanded DEF IInv
  <2>2. frontier' \in Nat /\ active' \in Side /\ seq' \in 0 .. SeqMod - 1 /\ seq' # SeqUncommitted
    BY <1>1, <1>6 DEF TypeInv, TypeOK, IInv
  <2>3. Newest(page') = active' /\ (Valid(page', active') => seq' = page'[active'].seq)
    BY <1>3, <1>6 DEF Serving
  <2>4. IInv'
    BY <1>6, <2>1, <2>2, <2>3, ReturnInv
  <2>5. KV!Succeed
    BY <1>2, <1>4, <1>6 DEF KV!Succeed, KV!Applied, Return, Answer, Recovered
  <2> QED
    BY <2>4, <2>5 DEF MapStep, KV!Next
<1>7. CASE CutShort(active, {page[active], WithCommit}, "program", "flash")
  <2> DEFINE outcomes == {page[active], WithCommit}
  <2>1. outcomes \in SUBSET GoodPage
    BY <1>2, IInvFacts, CommitLanded
  <2>2. \A p \in outcomes : Serving([page EXCEPT ![active] = p])
    BY <1>3, <1>5
  <2>3. \A p \in outcomes :
          \/ Recovered([page EXCEPT ![active] = p]) = Recovered(page)
          \/ /\ call # NoCall
             /\ Recovered([page EXCEPT ![active] = p]) = [Recovered(page) EXCEPT ![call.key] = call.val]
    BY <1>2, <1>4, <1>5
  <2>4. active \in Side /\ CutShort(active, outcomes, "program", "flash")
    BY <1>7, IInvFacts
  <2> HIDE DEF outcomes
  <2> QED
    BY <2>1, <2>2, <2>3, <2>4, CutShortStep
<1> QED
  BY <1>6, <1>7 DEF ProgramPayload

\* The spare is erased, whole or in part, while its header is dead or older.
LEMMA SpareErased ==
  ASSUME IInv, pc \notin {"off", "free"}, NEW p \in EraseTorn(page[Spare])
  PROVE  /\ Serving([page EXCEPT ![Spare] = p])
         /\ Recovered([page EXCEPT ![Spare] = p]) = Recovered(page)
<1>1. page[Spare] \in Page
  BY IInvFacts, GoodIsPage
<1>2. p.hdr = "ok" => page[Spare].hdr = "ok" /\ p.seq = page[Spare].seq
  <2>1. CASE p = page[Spare]
    BY <2>1
  <2>2. CASE p = [page[Spare] EXCEPT !.log = <<>>, !.tail = "torn"]
    BY <1>1, <2>2 DEF Page
  <2>3. CASE p = [page[Spare] EXCEPT !.hdr = "torn"]
    BY <1>1, <2>3 DEF Page
  <2>4. CASE p = Erased
    BY <2>4 DEF Erased
  <2> QED
    BY <2>1, <2>2, <2>3, <2>4 DEF EraseTorn
<1> QED
  BY <1>2, SpareIgnored

LEMMA EraseSpareKeeps ==
  ASSUME IInv, EraseSpare
  PROVE  IInv' /\ MapStep
<1>1. TypeInv'
  BY IInvFacts, CompactType DEF CompactStep
<1>2. pc = "spare"
  BY DEF EraseSpare
<1>3. CASE /\ page' = [page EXCEPT ![Spare] = Erased] /\ pc' = "copy" /\ cursor' = 1
           /\ UNCHANGED <<ram, call, mounting, reply>>
  <2>1. Serving(page') /\ Recovered(page') = Recovered(page)
    BY <1>2, <1>3, SpareErased DEF EraseTorn
  <2>2. page' \in [Side -> GoodPage]
    BY <1>3, GoodErased DEF IInv
  <2>3. page'[Spare] = Erased /\ Spare' = Spare /\ active' = active /\ seq' = seq
    BY <1>3, IInvFacts DEF IInv, ram, Spare
  <2>4. CopyMatches'
    <3>1. Erased.log = <<>> /\ Erased.hdr = "blank"
      BY DEF Erased
    <3>2. page'[active] \in GoodPage
      BY <2>2, IInvFacts
    <3>3. 1 \in 1 .. Len(page'[active].log) + 1
      BY <3>2, LenProperties DEF GoodPage, Page
    <3> QED
      BY <1>3, <2>3, <3>1, <3>3, HoldsNothing DEF CopyMatches
  <2>5. Progress' /\ ActiveIsNewest' /\ SealMatches'
    BY <1>1, <1>3, <2>1, <2>3
       DEF Progress, TypeInv, ActiveIsNewest, Serving, Valid, Newest, SealMatches
  <2>6. IInv'
    BY <1>1, <2>2, <2>3, <2>4, <2>5 DEF IInv, TypeInv
  <2> QED
    BY <1>3, <2>1, <2>6, QuietStep
<1>4. CASE CutShort(Spare, EraseTorn(page[Spare]), "spare", "flash")
  <2>1. EraseTorn(page[Spare]) \in SUBSET GoodPage
    BY IInvFacts, GoodEraseTorn
  <2> QED
    BY <1>2, <1>4, <2>1, IInvFacts, SpareErased, CutShortStep
<1> QED
  BY <1>3, <1>4 DEF EraseSpare

LEMMA CopyLanded ==
  ASSUME IInv, pc = "copy", cursor <= Len(page[active].log),
         Survives(page[active].log, cursor)
  PROVE  /\ Copied(cursor) \in GoodPage
         /\ Copied(cursor).hdr = "blank"
         /\ Holds(page[active].log, Copied(cursor).log, cursor + 1)
<1> DEFINE old == page[active].log
           new == page[Spare].log
           r == [old[cursor] EXCEPT !.off = End(new)]
<1>1. /\ old \in Seq(Record) /\ new \in Seq(Record) /\ HasLatest(new)
      /\ page[Spare] \in GoodPage
  BY IInvFacts
<1>2. cursor \in 1 .. Len(old)
  BY <1>1, LenProperties DEF IInv, CopyMatches
<1>3. page[Spare].hdr = "blank" /\ Holds(old, new, cursor)
  BY DEF IInv, CopyMatches
<1>4. old[cursor] \in Record
  BY <1>1, <1>2, ElementOfSeq
<1>5. r \in Record
  BY <1>1, <1>4, EndType DEF Record
<1>6. r.key = old[cursor].key /\ r.val = old[cursor].val /\ r.ok
  BY <1>4 DEF Record, Survives
<1>7. Copied(cursor) = [page[Spare] EXCEPT !.log = Append(new, r)]
  BY <1>1, GoodIsPage DEF Copied, Page
<1>s. Survives(old, cursor)
  OBVIOUS
<1> HIDE DEF r, old, new
<1>8. Append(new, r) \in Seq(Record)
  BY <1>1, <1>5, AppendProperties
<1>9. HasLatest(Append(new, r))
  BY <1>1, <1>5, FindAppend
<1>10. Holds(old, Append(new, r), cursor + 1)
  BY <1>1, <1>2, <1>3, <1>5, <1>6, <1>s, HoldsCopied
<1>11. Copied(cursor) \in GoodPage
  BY <1>1, <1>7, <1>8, <1>9, GoodLog
<1>12. Copied(cursor).log = Append(new, r) /\ Copied(cursor).hdr = "blank"
  BY <1>1, <1>3, <1>7, GoodIsPage DEF Page
<1> QED
  BY <1>10, <1>11, <1>12 DEF old

LEMMA CopyRecordKeeps ==
  ASSUME IInv, CopyRecord
  PROVE  IInv' /\ MapStep
<1>1. TypeInv'
  BY IInvFacts, CompactType DEF CompactStep
<1>2. pc = "copy" /\ cursor <= Len(page[active].log) /\ page[Spare].hdr = "blank"
      /\ cursor \in 1 .. Len(page[active].log) + 1 /\ Len(page[active].log) \in Nat
      /\ Holds(page[active].log, page[Spare].log, cursor)
  BY IInvFacts, LenProperties DEF CopyRecord, IInv, CopyMatches
<1> DEFINE torn == [page[Spare] EXCEPT !.tail = "torn"]
<1>3. CASE /\ ~ Survives(page[active].log, cursor) /\ cursor' = cursor + 1
           /\ UNCHANGED <<page, pc, ram, call, mounting, reply>>
  <2>1. Holds(page[active].log, page[Spare].log, cursor + 1)
    BY <1>2, <1>3, HoldsSkipped
  <2>2. cursor' \in 1 .. Len(page[active].log) + 1
    BY <1>2, <1>3
  <2>3. active' = active /\ seq' = seq /\ Spare' = Spare /\ page' = page
    BY <1>3 DEF ram, Spare
  <2>4. CopyMatches'
    BY <1>2, <1>3, <2>1, <2>2, <2>3 DEF CopyMatches
  <2>5. Progress' /\ ActiveIsNewest' /\ SealMatches'
    BY <1>1, <1>2, <1>3, <2>3
       DEF IInv, Progress, TypeInv, ActiveIsNewest, Valid, Newest, SealMatches
  <2>6. IInv'
    BY <1>1, <2>3, <2>4, <2>5 DEF IInv, TypeInv
  <2> QED
    BY <1>3, <2>6, QuietStep
<1>4. CASE /\ Survives(page[active].log, cursor)
           /\ page' = [page EXCEPT ![Spare] = Copied(cursor)] /\ cursor' = cursor + 1
           /\ UNCHANGED <<pc, ram, call, mounting, reply>>
  <2>1. Serving(page') /\ Recovered(page') = Recovered(page)
    BY <1>2, <1>4, CopyLanded, SpareIgnored
  <2>2. page' \in [Side -> GoodPage]
    BY <1>2, <1>4, CopyLanded DEF IInv
  <2>3. active' = active /\ seq' = seq /\ Spare' = Spare
        /\ page'[active] = page[active] /\ page'[Spare] = Copied(cursor)
    BY <1>4, IInvFacts DEF IInv, ram, Spare
  <2>4. cursor' \in 1 .. Len(page[active].log) + 1
    BY <1>2, <1>4
  <2>5. CopyMatches'
    BY <1>2, <1>4, <2>3, <2>4, CopyLanded DEF CopyMatches
  <2>6. Progress' /\ ActiveIsNewest' /\ SealMatches'
    BY <1>1, <1>2, <1>4, <2>1, <2>3
       DEF Progress, TypeInv, ActiveIsNewest, Serving, Valid, Newest, SealMatches
  <2>7. IInv'
    BY <1>1, <2>2, <2>3, <2>5, <2>6 DEF IInv, TypeInv
  <2> QED
    BY <1>4, <2>1, <2>7, QuietStep
<1>5. CASE /\ Survives(page[active].log, cursor)
           /\ CutShort(Spare, {page[Spare], torn, Copied(cursor)}, "program", "flash")
  <2>1. torn \in GoodPage /\ torn.hdr = "blank"
    BY <1>2, IInvFacts, GoodTail, GoodIsPage DEF Page
  <2>2. {page[Spare], torn, Copied(cursor)} \in SUBSET GoodPage
    BY <1>2, <1>5, <2>1, IInvFacts, CopyLanded
  <2>3. \A p \in {page[Spare], torn, Copied(cursor)} : p.hdr = "blank"
    BY <1>2, <1>5, <2>1, CopyLanded
  <2>4. \A p \in {page[Spare], torn, Copied(cursor)} :
          /\ Serving([page EXCEPT ![Spare] = p])
          /\ Recovered([page EXCEPT ![Spare] = p]) = Recovered(page)
    BY <1>2, <2>3, SpareIgnored
  <2> QED
    BY <1>5, <2>2, <2>4, IInvFacts, CutShortStep
<1> QED
  BY <1>3, <1>4, <1>5 DEF CopyRecord

\* A sealed spare is what a mount takes, and reads like the page it replaces.
LEMMA SealLanded ==
  ASSUME IInv, pc = "copy", cursor > Len(page[active].log), NEW p,
         p.hdr = "ok", p.seq = NextSeq(seq), p.log = page[Spare].log
  PROVE  LET now == [page EXCEPT ![Spare] = p] IN
         /\ Newest(now) = Spare /\ Valid(now, Spare)
         /\ \A k \in Key : Find(now[Spare].log, k) = Find(now[active].log, k)
         /\ Recovered(now) = Recovered(page)
<1> DEFINE now == [page EXCEPT ![Spare] = p]
<1>1. active \in Side /\ Spare \in Side /\ Spare # active /\ Spare = 1 - active
  BY IInvFacts
<1>2. now[active] = page[active] /\ now[Spare] = p
  BY <1>1 DEF IInv
<1>3. Newest(page) = active /\ (Valid(page, active) => page[active].seq = seq)
  BY DEF IInv, ActiveIsNewest
<1>4. Valid(now, Spare)
  BY <1>2 DEF Valid
<1>5. seq \in 0 .. SeqMod - 1 /\ seq # SeqUncommitted
  BY DEF IInv, TypeOK
<1> HIDE DEF now
<1>6. Valid(page, active) => page[active].seq = seq
  BY <1>3
<1>7. Valid(now, 1 - active) /\ now[1 - active].seq = NextSeq(seq)
  BY <1>1, <1>2, <1>4
<1>8. Newest(now) = 1 - active
  BY <1>1, <1>2, <1>3, <1>5, <1>6, <1>7, NewestSealed
<1>9. Newest(now) = Spare
  BY <1>1, <1>8
<1>10. cursor = Len(page[active].log) + 1
  BY IInvFacts, LenProperties DEF IInv, CopyMatches
<1>11. \A k \in Key : Find(page[Spare].log, k) = Find(page[active].log, k)
  <2>1. Holds(page[active].log, page[Spare].log, Len(page[active].log) + 1)
    BY <1>10 DEF IInv, CopyMatches
  <2> QED
    BY <2>1, IInvFacts, HoldsAll
<1>12. \A k \in Key : Find(now[Spare].log, k) = Find(now[active].log, k)
  BY <1>2, <1>11
<1>13. \A k \in Key : Find(now[Newest(now)].log, k) = Find(page[Newest(page)].log, k)
  BY <1>2, <1>3, <1>9, <1>12
<1>14. Recovered(now) = Recovered(page)
  BY <1>13, SameReading
<1> QED
  BY <1>4, <1>9, <1>12, <1>14 DEF now

LEMMA SealKeeps ==
  ASSUME IInv, "late" \notin Faults, Seal
  PROVE  IInv' /\ MapStep
<1>1. TypeInv'
  BY IInvFacts, CompactType DEF CompactStep
<1>2. pc = "copy" /\ cursor > Len(page[active].log) /\ page[Spare].hdr = "blank"
      /\ page[Spare] \in GoodPage
  BY IInvFacts DEF Seal, IInv, CopyMatches
<1>3. NextSeq(seq) \in 0 .. SeqMod - 1 /\ NextSeq(seq) # SeqUncommitted
  BY NextSeqType DEF IInv, TypeOK
<1>4. HeaderTorn(page[Spare], NextSeq(seq)) \in SUBSET GoodPage
  BY <1>2, <1>3, GoodHeaderTorn
<1>5. CASE /\ page' = [page EXCEPT ![Spare].hdr = "ok", ![Spare].seq = NextSeq(seq)]
           /\ pc' = "free" /\ UNCHANGED <<ram, call, cursor, mounting, reply>>
  <2> DEFINE p == [page[Spare] EXCEPT !.hdr = "ok", !.seq = NextSeq(seq)]
  <2>1. page' = [page EXCEPT ![Spare] = p]
    BY <1>5, IInvFacts DEF IInv
  <2>2. p \in GoodPage
    BY <1>4 DEF HeaderTorn
  <2>3. p.hdr = "ok" /\ p.seq = NextSeq(seq) /\ p.log = page[Spare].log
    BY <1>2, GoodIsPage DEF Page
  <2> HIDE DEF p
  <2>4. /\ Newest(page') = Spare /\ Valid(page', Spare)
        /\ \A k \in Key : Find(page'[Spare].log, k) = Find(page'[active].log, k)
        /\ Recovered(page') = Recovered(page)
    BY <1>2, <2>1, <2>3, SealLanded
  <2>5. page' \in [Side -> GoodPage]
    BY <2>1, <2>2 DEF IInv
  <2>6. active' = active /\ seq' = seq /\ Spare' = Spare
    BY <1>5 DEF ram, Spare
  <2>7. SealMatches'
    BY <2>4, <2>6 DEF SealMatches, Valid, Newest
  <2>8. Progress' /\ ActiveIsNewest' /\ CopyMatches'
    BY <1>1, <1>5 DEF Progress, TypeInv, ActiveIsNewest, CopyMatches
  <2>9. IInv'
    BY <1>1, <2>5, <2>6, <2>7, <2>8 DEF IInv, TypeInv
  <2> QED
    BY <1>5, <2>4, <2>9, QuietStep
<1>6. ASSUME NEW p \in HeaderTorn(page[Spare], NextSeq(seq)),
             page' = [page EXCEPT ![Spare] = p],
             \/ PowerOff
             \/ /\ (IF p.hdr = "ok" THEN "late" ELSE "program") \in Faults
                /\ pc' = "discard"
                /\ UNCHANGED <<ram, call, cursor, mounting, reply>>
      PROVE  IInv' /\ MapStep
  <2>1. page' \in [Side -> GoodPage]
    BY <1>4, <1>6 DEF IInv
  <2>2. Recovered(page') = Recovered(page)
    <3>1. CASE p.hdr # "ok"
      BY <1>2, <1>6, <3>1, SpareIgnored
    <3>2. CASE p.hdr = "ok"
      <4>1. p.seq = NextSeq(seq) /\ p.log = page[Spare].log
        BY <1>2, <3>2, GoodIsPage DEF HeaderTorn, Page
      <4> QED
        BY <1>2, <1>6, <3>2, <4>1, SealLanded
    <3> QED
      BY <3>1, <3>2
  <2>3. CASE PowerOff
    BY <2>1, <2>2, <2>3, ExitStep
  <2>4. CASE /\ p.hdr # "ok" /\ pc' = "discard"
             /\ UNCHANGED <<ram, call, cursor, mounting, reply>>
    <3>1. Serving(page')
      BY <1>2, <1>6, <2>4, SpareIgnored
    <3>2. active' = active /\ seq' = seq /\ Spare' = Spare /\ page'[Spare] = p
      BY <1>6, <2>4, IInvFacts DEF IInv, ram, Spare
    <3>3. Progress'
      BY <1>1, <2>4, <3>2 DEF Progress, TypeInv, Valid
    <3>4. ActiveIsNewest' /\ CopyMatches' /\ SealMatches'
      BY <2>4, <3>1, <3>2
         DEF ActiveIsNewest, Serving, Valid, Newest, CopyMatches, SealMatches
    <3>5. IInv'
      BY <1>1, <2>1, <3>2, <3>3, <3>4 DEF IInv, TypeInv
    <3> QED
      BY <2>2, <2>4, <3>5, QuietStep
  <2> QED
    BY <1>6, <2>3, <2>4
<1> QED
  BY <1>5, <1>6 DEF Seal

LEMMA DiscardKeeps ==
  ASSUME IInv, Discard
  PROVE  IInv' /\ MapStep
<1>1. pc = "discard" /\ page[Spare] \in GoodPage
  BY IInvFacts DEF Discard
<1>2. CASE page' = [page EXCEPT ![Spare] = Erased] /\ Fail("commit_failed")
  <2>1. page' \in [Side -> GoodPage]
    BY <1>2, GoodErased DEF IInv
  <2>2. Serving(page') /\ Recovered(page') = Recovered(page)
    BY <1>1, <1>2, SpareErased DEF EraseTorn
  <2> QED
    BY <1>2, <2>1, <2>2, ExitStep
<1>3. CASE CutShort(Spare, EraseTorn(page[Spare]), "discard", "commit_failed")
  <2>1. EraseTorn(page[Spare]) \in SUBSET GoodPage
    BY <1>1, GoodEraseTorn
  <2> QED
    BY <1>1, <1>3, <2>1, IInvFacts, SpareErased, CutShortStep
<1> QED
  BY <1>2, <1>3 DEF Discard

\* Erasing the old page, whole or in part, no longer matters.
LEMMA OldErased ==
  ASSUME IInv, pc = "free", NEW p \in EraseTorn(page[active])
  PROVE  LET now == [page EXCEPT ![active] = p] IN
         /\ Newest(now) = Spare /\ now[Spare] = page[Spare]
         /\ Recovered(now) = Recovered(page)
<1> DEFINE now == [page EXCEPT ![active] = p]
<1>1. active \in Side /\ Spare \in Side /\ Spare # active /\ active = 1 - Spare
  BY IInvFacts
<1>2. now[active] = p /\ now[Spare] = page[Spare]
  BY <1>1 DEF IInv
<1>3. page[active] \in Page
  BY IInvFacts, GoodIsPage
<1>4. p.hdr = "ok" => page[active].hdr = "ok" /\ p.seq = page[active].seq
  <2>1. CASE p = page[active]
    BY <2>1
  <2>2. CASE p = [page[active] EXCEPT !.log = <<>>, !.tail = "torn"]
    BY <1>3, <2>2 DEF Page
  <2>3. CASE p = [page[active] EXCEPT !.hdr = "torn"]
    BY <1>3, <2>3 DEF Page
  <2>4. CASE p = Erased
    BY <2>4 DEF Erased
  <2> QED
    BY <2>1, <2>2, <2>3, <2>4 DEF EraseTorn
<1>5. Newest(page) = Spare
  BY DEF IInv, SealMatches
<1> HIDE DEF now
<1>6. Valid(now, 1 - Spare) => Valid(page, 1 - Spare) /\ now[1 - Spare].seq = page[1 - Spare].seq
  BY <1>1, <1>2, <1>4 DEF Valid
<1>7. Newest(now) = Spare
  BY <1>1, <1>2, <1>5, <1>6, NewestKept
<1>8. Recovered(now) = Recovered(page)
  BY <1>2, <1>5, <1>7, SameReading
<1> QED
  BY <1>2, <1>7, <1>8 DEF now

LEMMA FreeOldKeeps ==
  ASSUME IInv, "free" \notin Faults, FreeOld
  PROVE  IInv' /\ MapStep
<1>1. pc = "free" /\ call = NoCall
  BY DEF FreeOld, IInv, Progress, Busy, Appending
<1>2. CASE /\ page' = [page EXCEPT ![active] = Erased]
           /\ active' = Spare /\ frontier' = End(page[Spare].log) /\ seq' = page[Spare].seq
           /\ Return("ok")
  <2>1. page' \in [Side -> GoodPage]
    BY <1>2, GoodErased DEF IInv
  <2>2. Newest(page') = Spare /\ page'[Spare] = page[Spare] /\ Recovered(page') = Recovered(page)
    BY <1>1, <1>2, OldErased DEF EraseTorn
  <2>3. active' \in Side /\ frontier' \in Nat /\ seq' \in 0 .. SeqMod - 1 /\ seq' # SeqUncommitted
    BY <1>2, IInvFacts, EndType DEF GoodPage, Page
  <2>4. IInv'
    BY <1>2, <2>1, <2>2, <2>3, ReturnInv
  <2> QED
    BY <1>1, <1>2, <2>2, <2>4, HousekeepingStep DEF Return
<1>3. CASE CutShort(active, EraseTorn(page[active]), "free", "flash")
  <2>1. EraseTorn(page[active]) \in SUBSET GoodPage
    BY IInvFacts, GoodEraseTorn
  <2>2. \A p \in EraseTorn(page[active]) : Recovered([page EXCEPT ![active] = p]) = Recovered(page)
    BY <1>1, OldErased
  <2> QED
    BY <1>3, <2>1, <2>2, IInvFacts, CutShortStep
<1> QED
  BY <1>2, <1>3 DEF FreeOld

----------------------------------------------------------------------------
(* The theorems. *)

LEMMA InitKeeps == Init => IInv /\ KV!Init
<1> SUFFICES ASSUME Init PROVE IInv /\ KV!Init
  OBVIOUS
<1>1. page \in [Side -> GoodPage]
  BY GoodErased DEF Init
<1>2. 0 \in 0 .. SeqMod - 1 /\ 0 # SeqUncommitted
  BY SeqAssumption, SeqModFacts DEF SeqUncommitted, SeqMod
<1>3. TypeOK
  <2>1. page \in [Side -> Page] /\ FALSE \in BOOLEAN
    BY <1>1, GoodPages
  <2> QED
    BY <1>2, <2>1 DEF Init, TypeOK
<1>4. Progress /\ ActiveIsNewest /\ CopyMatches /\ SealMatches
  BY DEF Init, Progress, Busy, Appending, ActiveIsNewest, CopyMatches, SealMatches
<1>5. Newest(page) \in Side
  BY DEF Newest
<1>6. \A k \in Key : Find(page[Newest(page)].log, k) = Tomb
  BY <1>5, EmptyLog DEF Init, Erased
<1>7. KV!Init
  BY <1>6 DEF KV!Init, Init, Recovered, Answer
<1> QED
  BY <1>1, <1>2, <1>3, <1>4, <1>7 DEF IInv, Init

LEMMA NextKeeps ==
  ASSUME "free" \notin Faults, "late" \notin Faults, IInv, [Next]_vars
  PROVE  IInv' /\ MapStep
<1>1. CASE UNCHANGED vars
  <2>1. TypeInv'
    BY <1>1, IInvFacts DEF vars, TypeInv, TypeOK, Busy, Appending, Compacting
  <2>2. page' = page /\ seq' = seq /\ active' = active /\ pc' = pc /\ cursor' = cursor
        /\ call' = call /\ reply' = reply /\ Spare' = Spare
    BY <1>1 DEF vars, Spare
  <2>3. Progress' /\ ActiveIsNewest' /\ CopyMatches' /\ SealMatches'
    BY <2>1, <2>2 DEF IInv, TypeInv, Progress, ActiveIsNewest, CopyMatches, SealMatches,
                       Valid, Newest
  <2>4. IInv'
    BY <2>1, <2>2, <2>3 DEF IInv, TypeInv
  <2> QED
    BY <2>2, <2>4, QuietStep
<1>2. CASE PowerLoss
  <2>1. PowerOff /\ page' = page /\ page' \in [Side -> GoodPage]
    BY <1>2 DEF PowerLoss, IInv
  <2> QED
    BY <2>1, ExitStep
<1>3. CASE AppendStep
  BY <1>3, FormatPageKeeps, CheckSpaceKeeps, ProgramHeaderKeeps, ProgramPayloadKeeps DEF AppendStep
<1>4. CASE CompactStep
  BY <1>4, EraseSpareKeeps, CopyRecordKeeps, SealKeeps, DiscardKeeps, FreeOldKeeps DEF CompactStep
<1> QED
  BY <1>1, <1>2, <1>3, <1>4, MountKeeps, CallKeeps DEF Next

\* The handle that serves reads and the next boot read the same values: for a
\* store whose header programs and step (4) erases report what they did.
THEOREM NoSplitBrainHolds ==
  ASSUME "free" \notin Faults, "late" \notin Faults
  PROVE  Spec => []NoSplitBrain
<1>1. Init => IInv
  BY InitKeeps
<1>2. IInv /\ [Next]_vars => IInv'
  BY NextKeeps
<1>3. IInv => NoSplitBrain
  <2> SUFFICES ASSUME IInv, pc # "off", NEW k \in Key
               PROVE  Find(page[active].log, k) = Recovered(page)[k]
    BY DEF NoSplitBrain
  <2>1. CASE pc = "free"
    BY <2>1 DEF IInv, SealMatches, Recovered
  <2>2. CASE pc # "free"
    BY <2>2 DEF IInv, ActiveIsNewest, Recovered
  <2> QED
    BY <2>1, <2>2
<1> QED
  BY <1>1, <1>2, <1>3, PTL DEF Spec

\* The store implements the abstract map: the initial region reads nothing,
\* and every step of the store is a step of KVStore or none at all.
THEOREM StoreImplementsMap ==
  ASSUME "free" \notin Faults, "late" \notin Faults
  PROVE  Spec => Atomic
<1>1. Init => IInv /\ KV!Init
  BY InitKeeps
<1>2. IInv /\ [Next]_vars => IInv' /\ [KV!Next]_(KV!vars)
  BY NextKeeps DEF MapStep
<1> QED
  BY <1>1, <1>2, PTL DEF Spec, Atomic, KV!Spec
=============================================================================
