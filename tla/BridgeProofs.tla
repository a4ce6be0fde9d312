---------------------------- MODULE BridgeProofs ----------------------------
(***************************************************************************)
(* Theorems about Bridge, for every set of images and builds, every size   *)
(* of flash, ring, slot, chunk and sector, and any number of transfers,    *)
(* loads, updates, failures and resets: whose image the one buffer holds   *)
(* while a job runs, in which order a job leaves the pages, what it means  *)
(* that it ended well or failed, and that an update writes its slot once.  *)
(***************************************************************************)
EXTENDS Bridge, SequenceTheorems, TLAPS

\* A job in progress; finish says whose it is and never changes.
Jobs ==
  [step : {"prepare", "erase", "load", "program", "verify", "boot"},
   at : Int, seg : Int, finish : {"boot", "halt"}, since : Int]

JobShape == faults \in Int /\ (job = NoJob \/ job \in Jobs)

\* A load that is collected in the buffer is dropped when its client leaves: no job has the buffer.
NoJobWhileCollecting == load = "collecting" => ~ Busy

BufferInv == JobShape /\ NoJobWhileCollecting /\ ProgramsPromised

-----------------------------------------------------------------------------
(* Lemmas about the job. *)

\* No job in progress is taken for none.
LEMMA JobIsBusy == \A j \in Jobs : j # NoJob /\ j.step # "none"
<1>1. SUFFICES ASSUME NEW j \in Jobs PROVE j.step # "none"
  BY DEF NoJob
<1>2. QED BY DEF Jobs

\* A new job is one.
LEMMA NewJobShape ==
  ASSUME JobShape, NEW f \in {"boot", "halt"}
  PROVE  NewJob(f) \in Jobs /\ NewJob(f).finish = f
  BY DEF JobShape, NewJob, Jobs

\* A piece of a job that goes on leaves the buffer and whose job it is.
LEMMA AdvanceKeeps ==
  ASSUME JobShape, Advance
  PROVE  /\ job \in Jobs /\ job' \in Jobs
         /\ job'.finish = job.finish
         /\ UNCHANGED <<buf, faults>>
<1>1. job \in Jobs
  BY DEF Advance, Prepare, Erase, Load, Feed, SeesError, Drained, NextSegment, Programmed, Verify,
         Restart, InPhase, JobShape, NoJob
<1>2. UNCHANGED <<buf, faults>>
  BY DEF Advance, Prepare, Erase, Load, Feed, SeesError, Drained, NextSegment, Programmed, Verify,
         Restart
<1>3. \/ \E s \in {"erase", "load", "verify", "boot"}, a \in Int : To(s, a)
      \/ \E k \in Int : job' = [job EXCEPT !.step = "program", !.seg = k]
      \/ UNCHANGED job
  <2>1. job.at + 1 \in Int /\ job.seg + 1 \in Int BY <1>1 DEF Jobs
  <2>2. CASE Prepare \/ Programmed \/ Restart
    <3>1. To("erase", 0) \/ To("verify", 0) \/ To("boot", 0)
      BY <2>2, Zenon DEF Prepare, Programmed, Restart
    <3>2. 0 \in Int OBVIOUS
    <3>3. QED BY <3>1, <3>2, Zenon
  <2>3. CASE Erase
    <3>1. To("load", 0) \/ To("erase", job.at + 1)
      BY <2>3, Zenon DEF Erase
    <3>2. 0 \in Int OBVIOUS
    <3>3. QED BY <2>1, <3>1, <3>2, Zenon
  <2>4. CASE Verify
    <3>1. To("verify", job.at + 1) BY <2>4, Zenon DEF Verify
    <3>2. QED BY <2>1, <3>1, Zenon
  <2>5. CASE Load \/ NextSegment
    <3>1. StartSegment(0) \/ StartSegment(job.seg + 1)
      BY <2>5, Zenon DEF Load, NextSegment
    <3>2. 0 \in Int OBVIOUS
    <3>3. QED BY <2>1, <3>1, <3>2, Zenon DEF StartSegment
  <2>6. CASE Feed \/ SeesError \/ Drained
    BY <2>6 DEF Feed, SeesError, Drained
  <2>7. QED BY <2>2, <2>3, <2>4, <2>5, <2>6 DEF Advance
<1>4. CASE \E s \in {"erase", "load", "verify", "boot"}, a \in Int : To(s, a)
  BY <1>1, <1>2, <1>4 DEF To, Jobs
<1>5. CASE \E k \in Int : job' = [job EXCEPT !.step = "program", !.seg = k]
  BY <1>1, <1>2, <1>5 DEF Jobs
<1>6. CASE UNCHANGED job
  BY <1>1, <1>2, <1>6
<1>7. QED BY <1>3, <1>4, <1>5, <1>6

\* A step with no job after it keeps the invariant.
LEMMA NoJobAfter ==
  ASSUME JobShape, job' = NoJob, faults' \in Int
  PROVE  BufferInv'
  BY DEF BufferInv, JobShape, NoJobWhileCollecting, ProgramsPromised, Busy

\* So does one that leaves the job, the buffer and what was announced alone and starts no collecting.
LEMMA BufferAlone ==
  ASSUME BufferInv, UNCHANGED <<job, buf, sha>>, faults' \in Int,
         load' = "collecting" => load = "collecting"
  PROVE  BufferInv'
  BY DEF BufferInv, JobShape, NoJobWhileCollecting, ProgramsPromised, Busy, Image

\* And one while no job is in progress that starts none.
LEMMA StaysIdle ==
  ASSUME BufferInv, ~ Busy, UNCHANGED <<job, faults>>
  PROVE  BufferInv'
  BY DEF BufferInv, JobShape, NoJobWhileCollecting, ProgramsPromised, Busy

-----------------------------------------------------------------------------
(* The steps. *)

\* A begin is refused while the buffer is a job's or GDB's.
LEMMA FlashBeginStep == ASSUME BufferInv, NEW m \in Images, FlashBegin(m) PROVE BufferInv'
  BY StaysIdle DEF FlashBegin

\* The last chunk starts the job on a buffer that is the announced image.
LEMMA FlashChunkStep ==
  ASSUME BufferInv, NEW m \in Images, NEW p \in Nat, FlashChunk(m, p) PROVE BufferInv'
<1>1. ~ Busy /\ load # "collecting" /\ UNCHANGED <<faults, sha, load>>
  BY DEF FlashChunk, TakesChunk, GdbOwnsImage
<1>2. CASE UNCHANGED job
  BY <1>1, <1>2, StaysIdle
<1>3. CASE job' = NewJob("boot") /\ buf' = Image(sha)
  <2>1. job' \in Jobs BY <1>3, NewJobShape DEF BufferInv
  <2>2. JobShape' BY <1>1, <2>1 DEF BufferInv, JobShape
  <2>3. NoJobWhileCollecting' BY <1>1 DEF NoJobWhileCollecting
  <2>4. ProgramsPromised' BY <1>1, <1>3 DEF ProgramsPromised, Image
  <2>5. QED BY <2>2, <2>3, <2>4 DEF BufferInv
<1>4. QED BY <1>2, <1>3 DEF FlashChunk

\* A load takes the buffer while no job has it, and its own job is not a controller's.
LEMMA GdbStep == ASSUME BufferInv, Gdb PROVE BufferInv'
<1>1. faults \in Int BY DEF BufferInv, JobShape
<1>2. CASE GdbOpen
  BY <1>1, <1>2, BufferAlone DEF GdbOpen
<1>3. CASE GdbClose
  <2>1. CASE load = "collecting"
    <3>1. ~ Busy BY <2>1 DEF BufferInv, NoJobWhileCollecting
    <3>2. QED BY <1>3, <3>1, StaysIdle DEF GdbClose
  <2>2. CASE load # "collecting"
    BY <1>1, <1>3, <2>2, BufferAlone DEF GdbClose
  <2>3. QED BY <2>1, <2>2
<1>4. CASE GdbDone
  <2>1. CASE load = "collecting"
    <3>1. job' = NewJob("halt") /\ load' = "flashing" /\ UNCHANGED faults
      BY <1>4, <2>1 DEF GdbDone
    <3>2. job' \in Jobs /\ job'.finish = "halt" BY <3>1, NewJobShape DEF BufferInv
    <3>3. JobShape' BY <1>1, <3>1, <3>2 DEF JobShape
    <3>4. QED BY <3>1, <3>2, <3>3 DEF BufferInv, NoJobWhileCollecting, ProgramsPromised
  <2>2. CASE load # "collecting"
    BY <1>1, <1>4, <2>2, BufferAlone DEF GdbDone
  <2>3. QED BY <2>1, <2>2
<1>5. CASE GdbResult
  BY <1>1, <1>5, BufferAlone DEF GdbResult, flashVars
<1>6. CASE GdbContinue
  BY <1>1, <1>6, BufferAlone DEF GdbContinue
<1>7. CASE GdbStops
  BY <1>1, <1>7, BufferAlone DEF GdbStops
<1>8. CASE \E p \in 0 .. Size[GdbImage] - 1 : GdbWrite(p)
  BY <1>8, StaysIdle DEF GdbWrite, Packet
<1>9. QED BY <1>2, <1>3, <1>4, <1>5, <1>6, <1>7, <1>8 DEF Gdb

\* A control of the board reaches neither the buffer nor the job.
LEMMA ControlStep == ASSUME BufferInv, Controls PROVE BufferInv'
<1>1. faults \in Int BY DEF BufferInv, JobShape
<1>2. UNCHANGED <<job, buf, sha, load>>
  BY DEF Controls, TargetCtrl, StoreErase, ClearProtection, Monitor, Control
<1>3. faults' \in {faults, faults + 1}
  BY DEF Controls, TargetCtrl, StoreErase, ClearProtection, Monitor, Resets, ResetsToHalt,
         ErasesStore, ClearsProtection, ControlFails, RestartFails
<1>4. QED BY <1>1, <1>2, <1>3, BufferAlone

\* A piece of the job leaves the buffer, or ends the job.
LEMMA PollStep == ASSUME BufferInv, Poll PROVE BufferInv'
<1>1. faults \in Int /\ JobShape BY DEF BufferInv, JobShape
<1>2. CASE JobAdvances
  <2>1. Advance /\ UNCHANGED <<sha, load>> BY <1>2 DEF JobAdvances, serviceVars
  <2>2. job \in Jobs /\ job' \in Jobs /\ job'.finish = job.finish /\ UNCHANGED <<buf, faults>>
    BY <1>1, <2>1, AdvanceKeeps
  <2>3. Busy BY <2>2, JobIsBusy DEF Busy
  <2>4. JobShape' BY <1>1, <2>2 DEF JobShape
  <2>5. NoJobWhileCollecting' BY <2>1, <2>3 DEF BufferInv, NoJobWhileCollecting
  <2>6. ProgramsPromised'
    BY <2>1, <2>2, <2>3 DEF BufferInv, ProgramsPromised, Image
  <2>7. QED BY <2>4, <2>5, <2>6 DEF BufferInv
<1>3. CASE JobSucceeds
  BY <1>1, <1>3, NoJobAfter DEF JobSucceeds, Succeeds, JobEnds
<1>4. CASE JobFails
  <2>1. faults' = faults \/ faults' = faults + 1 BY <1>4, Zenon DEF JobFails, Fails
  <2>2. faults' \in Int BY <1>1, <2>1
  <2>3. QED BY <1>1, <1>4, <2>2, NoJobAfter DEF JobFails, JobEnds
<1>5. QED BY <1>2, <1>3, <1>4 DEF Poll

\* The board beside it touches neither.
LEMMA BoardStep ==
  ASSUME BufferInv, Board, UNCHANGED <<updateVars, serviceVars, boundVars>> PROVE BufferInv'
<1>1. faults \in Int BY DEF BufferInv, JobShape
<1>2. UNCHANGED <<job, buf>> /\ faults' \in Int
  <2>1. CASE LoaderPrograms BY <1>1, <2>1 DEF LoaderPrograms
  <2>2. CASE LoaderErrs BY <1>1, <2>2 DEF LoaderErrs
  <2>3. CASE LoaderStops BY <1>1, <2>3 DEF LoaderStops
  <2>4. CASE LoaderHangs BY <1>1, <2>4 DEF LoaderHangs
  <2>5. CASE BoardBoots BY <1>1, <2>5 DEF BoardBoots
  <2>6. CASE BoardResets BY <1>1, <2>6 DEF BoardResets
  <2>7. QED BY <2>1, <2>2, <2>3, <2>4, <2>5, <2>6 DEF Board, Loader
<1>3. QED BY <1>2, BufferAlone DEF serviceVars

\* Every step keeps the invariant.
LEMMA BufferStep == ASSUME BufferInv, [Next]_vars PROVE BufferInv'
<1>1. faults \in Int /\ JobShape BY DEF BufferInv, JobShape
<1>2. CASE \E m \in Images : FlashBegin(m) \/ \E p \in 0 .. Size[m] - 1 : FlashChunk(m, p)
  BY <1>2, FlashBeginStep, FlashChunkStep, SizeAssumption
<1>3. CASE Gdb BY <1>3, GdbStep
<1>4. CASE Poll BY <1>4, PollStep
<1>5. CASE UNCHANGED <<flashVars, serviceVars>>
  BY <1>1, <1>5, BufferAlone DEF flashVars, serviceVars
<1>6. CASE Board /\ UNCHANGED <<updateVars, serviceVars, boundVars>>
  BY <1>6, BoardStep
<1>7. CASE BridgeResets
  BY <1>1, <1>7, NoJobAfter DEF BridgeResets
<1>8. CASE Controls BY <1>8, ControlStep
<1>9. QED
  <2>1. ASSUME NEW u \in Builds, NEW version \in BOOLEAN, AskUpdate(u, version) PROVE BufferInv'
    BY <1>5, <2>1 DEF AskUpdate
  <2>2. ASSUME NEW u \in Builds, NEW i \in Int, OfferUpdate(u, i) PROVE BufferInv'
    BY <1>5, <2>2 DEF OfferUpdate
  <2>3. CASE Idle BY <1>5, <2>3 DEF Idle
  <2>4. CASE UNCHANGED vars BY <1>5, <2>4 DEF vars
  <2>5. QED
    BY <1>2, <1>3, <1>4, <1>6, <1>7, <1>8, <2>1, <2>2, <2>3, <2>4, BuildAssumption DEF Next

-----------------------------------------------------------------------------
\* A controller's job programs the image its last FLASH_BEGIN announced, whole and unchanged from the
\* first erase to the last read-back, whatever other controllers' chunks, late duplicates and GDB's
\* load do with the one buffer (Service::chunk, gdb_image in svc.rs).
THEOREM JobProgramsPromised == Spec => []ProgramsPromised
<1>1. Init => BufferInv
  BY DEF Init, FlashInit, BufferInv, JobShape, NoJobWhileCollecting, ProgramsPromised, Busy
<1>2. BufferInv /\ [Next]_vars => BufferInv' BY BufferStep
<1>3. BufferInv => ProgramsPromised BY DEF BufferInv
<1>4. QED BY <1>1, <1>2, <1>3, PTL DEF Spec

-----------------------------------------------------------------------------
(***************************************************************************)
(* What a flash that is reported done has done, what order it was done in, *)
(* and why a job during which nothing fails ends well: one invariant of    *)
(* the job, its ring and the board's loader carries all three.             *)
(***************************************************************************)

Cell == (Images \X Nat) \cup {Blank}

\* The buffer is no longer than the flash, and a job's is not empty.
BufferShape ==
  /\ buf \in Seq(Cell) /\ Len(buf) <= Pages
  /\ Busy \/ load = "collecting" => buf # <<>>

\* Whose the buffer is, and who waits for the job's end.
Owners ==
  /\ buf = <<>> \/ load = "collecting" \/ (Busy /\ job.finish = "halt") \/ sha \in Images
  /\ Busy /\ job.finish = "boot" => sha \in Images /\ load # "flashing"
  /\ status = "receiving" => Busy /\ job.finish = "boot"
  /\ load = "flashing" => Busy /\ job.finish = "halt"
  /\ held => load # "collecting"

\* Nothing has failed since the job began.
Clean == faults = job.since

From == SegmentFrom(job.seg)
End == SegmentTo(job.seg)

\* An index of the ring, and how far r has to go to reach w.
Wrap(x) == IF x < RingLen THEN x ELSE x - RingLen
Behind(w, r) == IF r <= w THEN w - r ELSE w + RingLen - r

\* The ring holds the chunks of the image sent and not taken, in order; the job's own copy of rp is
\* an old one, so it never takes the ring to be emptier than it is.
RingInv ==
  /\ ld.at \in From .. End
  /\ ld.left = End - ld.at
  /\ run.sent <= End - From
  /\ run.phase = "feed" <=> run.sent < End - From /\ run.phase # "halt"
  /\ Behind(run.wp, ld.rp) = run.sent - (ld.at - From)
  /\ Behind(run.wp, ld.rp) <= Behind(run.wp, run.rp)
  /\ \A d \in 0 .. run.sent - (ld.at - From) - 1 :
       sram.ring[Wrap(ld.rp + d)] = buf[ld.at + d + 1]
  /\ sram.wp \in {run.wp, Zero}
  /\ run.phase # "halt" => sram.wp = run.wp
  /\ sram.rp = IF ld.bad THEN Zero ELSE ld.rp

\* A page its loader run has been through, in this run or the one before.
Reached(p) == IF LastSegment = 1 /\ job.seg = 0 THEN 1 <= p /\ p < ld.at ELSE 1 <= p \/ p < ld.at

\* Erased pages are blank; a page reached holds its data, or a cell that did not take it.
PagesInv ==
  \A p \in 0 .. Len(buf) - 1 :
    IF Reached(p) THEN flash[p] \in {buf[p + 1], Torn} ELSE flash[p] = Blank

ErasedSoFar(n) == \A i \in 0 .. n - 1 : flash[PageAt(i)] = Blank
HoldsUpTo(n) == \A p \in 0 .. n - 1 : flash[p] = buf[p + 1]

ErasingInv ==
  job.step = "erase" =>
    /\ job.at \in 0 .. Len(buf) - 1
    /\ core = "fw" \/ (core = "halted" /\ ~ locked /\ ErasedSoFar(job.at))
    /\ Clean => core = "halted"

LoadingInv ==
  job.step = "load" =>
    /\ core = "fw" \/ (core = "halted" /\ ~ locked /\ ErasedSoFar(Len(buf)))
    /\ Clean => core = "halted"

ProgrammingInv ==
  job.step = "program" =>
    /\ job.seg \in 0 .. LastSegment
    /\ RingInv
    /\ core \in {"fw", "loader", "hung", "stopped"}
    /\ core = "fw" \/ ld.bad \/ (~ locked /\ PagesInv)
    /\ Clean => /\ core \in {"loader", "stopped"} /\ ~ ld.bad
                /\ \A p \in 0 .. Len(buf) - 1 : Reached(p) => flash[p] = buf[p + 1]
                /\ core = "stopped" => ld.left = 0 \/ sram.wp = Zero
                /\ run.phase = "halt" => ld.at = End /\ sram.wp = Zero

VerifyingInv ==
  job.step = "verify" =>
    /\ job.at \in 0 .. Len(buf) - 1
    /\ core \in {"fw", "halted", "stopped"}
    /\ HoldsUpTo(job.at)
    /\ Clean => HoldsUpTo(Len(buf))

BootingInv ==
  job.step = "boot" =>
    /\ job.finish = "boot"
    /\ core = "fw"
    /\ HoldsUpTo(Len(buf))
    /\ magic => CanBoot

\* The types of what the board and the loader run keep, with or without a job.
BoardShape ==
  /\ flash = [p \in 0 .. Pages - 1 |-> flash[p]]
  /\ sram \in [wp : -1 .. RingLen - 1, rp : -1 .. RingLen - 1, ring : [0 .. RingLen - 1 -> Cell]]
  /\ run \in [sent : Nat, wp : 0 .. RingLen - 1, rp : 0 .. RingLen - 1,
              phase : {"feed", "drain", "halt"}]
  /\ ld \in [at : Int, left : Int, rp : 0 .. RingLen - 1, bad : BOOLEAN]

\* How far the job in progress is, by its step.
JobProgress ==
  /\ job.since <= faults
  /\ ErasingInv /\ LoadingInv /\ ProgrammingInv /\ VerifyingInv /\ BootingInv

JobInv ==
  /\ BufferInv
  /\ BoardShape
  /\ BufferShape
  /\ Owners
  /\ Busy => JobProgress

-----------------------------------------------------------------------------
(* Lemmas about the buffer, the ring and the order of the pages. *)

LEMMA FunctionIsSeq ==
  ASSUME NEW S, NEW n \in Nat, NEW f \in [1 .. n -> S]
  PROVE  f \in Seq(S) /\ Len(f) = n
BY SeqDef

LEMMA BufferFacts ==
  ASSUME BufferShape
  PROVE  /\ Len(buf) \in 0 .. Pages /\ DOMAIN buf = 1 .. Len(buf)
         /\ \A k \in 1 .. Len(buf) : buf[k] \in Cell
         /\ buf # <<>> => Len(buf) \in 1 .. Pages
<1>1. buf \in Seq(Cell) /\ Len(buf) <= Pages
  BY DEF BufferShape
<1>2. Len(buf) \in Nat /\ DOMAIN buf = 1 .. Len(buf) /\ \A k \in 1 .. Len(buf) : buf[k] \in Cell
  BY <1>1, LenProperties, ElementOfSeq
<1>3. buf # <<>> => Len(buf) # 0
  BY <1>1, EmptySeq
<1> QED
  BY <1>1, <1>2, <1>3, PagesAssumption

\* The wrap of a ring index, and what the job takes the ring to hold.
LEMMA RingNext ==
  ASSUME NEW x \in 0 .. RingLen - 1
  PROVE  (x + 1) % RingLen = Wrap(x + 1) /\ Wrap(x + 1) \in 0 .. RingLen - 1 /\ Wrap(x) = x
BY RingLenAssumption DEF Wrap

LEMMA RingHolds ==
  ASSUME NEW w \in 0 .. RingLen - 1, NEW r \in 0 .. RingLen - 1
  PROVE  /\ (w + RingLen - r) % RingLen = Behind(w, r)
         /\ Behind(w, r) \in 0 .. RingLen - 1 /\ Behind(w, r) \in Nat
<1>1. CASE r <= w
  <2>1. w + RingLen - r \in RingLen .. 2 * RingLen - 1
    BY <1>1, RingLenAssumption
  <2>2. (w + RingLen - r) % RingLen = w + RingLen - r - RingLen
    BY <2>1, RingLenAssumption
  <2> QED
    BY <1>1, <2>2, RingLenAssumption DEF Behind
<1>2. CASE ~ (r <= w)
  <2>1. w + RingLen - r \in 0 .. RingLen - 1
    BY <1>2, RingLenAssumption
  <2>2. (w + RingLen - r) % RingLen = w + RingLen - r
    BY <2>1, RingLenAssumption
  <2> QED
    BY <1>2, <2>1, <2>2 DEF Behind
<1> QED
  BY <1>1, <1>2, RingLenAssumption

\* A step of the writer, where the ring is not full, and of the reader, where it is not empty.
LEMMA BehindMoves ==
  ASSUME NEW w \in 0 .. RingLen - 1, NEW r \in 0 .. RingLen - 1
  PROVE  /\ Behind(w, r) + 1 < RingLen => Behind(Wrap(w + 1), r) = Behind(w, r) + 1
         /\ w # r => Behind(w, Wrap(r + 1)) = Behind(w, r) - 1 /\ Behind(w, r) >= 1
         /\ w = r <=> Behind(w, r) = 0
         /\ Wrap(r + Behind(w, r)) = w
         /\ \A d \in 0 .. Behind(w, r) - 1 : Wrap(r + d) \in 0 .. RingLen - 1 /\ Wrap(r + d) # w
BY RingLenAssumption DEF Behind, Wrap

\* The pages of a job, and of its one or two loader runs.
LEMMA PageFacts ==
  ASSUME BufferShape, buf # <<>>
  PROVE  /\ \A i \in 0 .. Len(buf) - 1 : PageAt(i) \in 0 .. Len(buf) - 1
         /\ \A p \in 0 .. Len(buf) - 1 : \E i \in 0 .. Len(buf) - 1 : PageAt(i) = p
<1>1. Len(buf) \in 1 .. Pages
  BY BufferFacts
<1>2. \A i \in 0 .. Len(buf) - 1 : PageAt(i) \in 0 .. Len(buf) - 1
  BY <1>1, PagesAssumption DEF PageAt
<1>3. \A p \in 0 .. Len(buf) - 1 :
        LET i == IF p = 0 THEN Len(buf) - 1 ELSE p - 1 IN i \in 0 .. Len(buf) - 1 /\ PageAt(i) = p
  BY <1>1, PagesAssumption DEF PageAt
<1> QED
  BY <1>2, <1>3

LEMMA SegmentFacts ==
  ASSUME BufferShape, buf # <<>>, NEW k \in 0 .. LastSegment
  PROVE  /\ SegmentFrom(k) \in 0 .. 1 /\ SegmentTo(k) \in 1 .. Len(buf)
         /\ SegmentFrom(k) < SegmentTo(k)
         /\ LastSegment \in {0, 1}
         /\ LastSegment = 1 <=> Len(buf) > 1
         /\ LastSegment = 0 => SegmentFrom(k) = 0 /\ SegmentTo(k) = 1 /\ Len(buf) = 1
         /\ LastSegment = 1 /\ k = 0 => SegmentFrom(k) = 1 /\ SegmentTo(k) = Len(buf)
         /\ LastSegment = 1 /\ k = 1 => SegmentFrom(k) = 0 /\ SegmentTo(k) = 1
<1>1. Len(buf) \in 1 .. Pages
  BY BufferFacts
<1>2. CASE Len(buf) = 1
  <2>1. LastSegment = 0 /\ k = 0
    BY <1>2 DEF LastSegment
  <2> QED
    BY <1>2, <2>1 DEF SegmentFrom, SegmentTo
<1>3. CASE Len(buf) > 1
  <2>1. LastSegment = 1 /\ k \in {0, 1} /\ Len(buf) \in Nat
    BY <1>1, <1>3, PagesAssumption DEF LastSegment
  <2> QED
    BY <1>3, <2>1 DEF SegmentFrom, SegmentTo
<1>4. \A n \in 1 .. Pages : n = 1 \/ n > 1
  BY PagesAssumption
<1>5. Len(buf) = 1 \/ Len(buf) > 1
  BY <1>1, <1>4, Zenon
<1> QED
  BY <1>2, <1>3, <1>5, Zenon

-----------------------------------------------------------------------------
(* The pieces of the job. *)

\* A step of anything else leaves the job as far as it was.
LEMMA ProgressKept ==
  ASSUME JobProgress, UNCHANGED flashVars
  PROVE  JobProgress'
<1>1. UNCHANGED <<flash, core, magic, locked, sram, ld, job, run, buf, faults>>
  BY DEF flashVars, board
<1>2. ErasingInv' /\ LoadingInv'
  BY <1>1 DEF JobProgress, ErasingInv, LoadingInv, ErasedSoFar, PageAt, Clean
<1>3. RingInv' = RingInv /\ PagesInv' = PagesInv /\ End' = End /\ Clean' = Clean
      /\ LastSegment' = LastSegment /\ \A p : Reached(p)' = Reached(p)
  BY <1>1 DEF RingInv, PagesInv, Reached, From, End, SegmentFrom, SegmentTo, LastSegment, Behind, Wrap, Clean
<1>4. ProgrammingInv'
  BY <1>1, <1>3 DEF JobProgress, ProgrammingInv
<1>5. VerifyingInv' /\ BootingInv'
  BY <1>1 DEF JobProgress, VerifyingInv, BootingInv, HoldsUpTo, Clean, CanBoot
<1> QED
  BY <1>1, <1>2, <1>4, <1>5 DEF JobProgress

\* A job that begins has everything before it.
LEMMA BeginsProgress ==
  ASSUME job'.step = "prepare", job'.since = faults', faults' \in Int
  PROVE  JobProgress'
BY DEF JobProgress, ErasingInv, LoadingInv, ProgrammingInv, VerifyingInv, BootingInv

\* The facts every piece of a job starts from.
LEMMA AtWork ==
  ASSUME JobInv, Busy
  PROVE  /\ JobProgress /\ BufferShape /\ BoardShape
         /\ job \in Jobs /\ job.since \in Int /\ faults \in Int /\ job.at \in Int /\ job.seg \in Int
         /\ buf # <<>> /\ Len(buf) \in 1 .. Pages
BY BufferFacts DEF JobInv, BufferInv, JobShape, Busy, BufferShape, Jobs

LEMMA PrepareKeeps ==
  ASSUME JobInv, Busy, Prepare
  PROVE  JobProgress'
<1>1. job \in Jobs /\ Len(buf) \in 1 .. Pages /\ JobProgress /\ buf' = buf /\ faults' = faults
  BY AtWork DEF Prepare
<1>2. /\ job' = [job EXCEPT !.step = "erase", !.at = 0]
      /\ core' = "halted" /\ locked' = FALSE
  BY DEF Prepare, To
<1>3. job'.step = "erase" /\ job'.at = 0 /\ job'.since = job.since
  BY <1>1, <1>2 DEF Jobs
<1>4. ErasingInv'
  BY <1>1, <1>2, <1>3, PagesAssumption DEF ErasingInv, ErasedSoFar
<1> QED
  BY <1>1, <1>3, <1>4 DEF JobProgress, LoadingInv, ProgrammingInv, VerifyingInv, BootingInv

LEMMA EraseKeeps ==
  ASSUME JobInv, Busy, Erase
  PROVE  JobProgress'
<1>1. /\ job \in Jobs /\ job.at \in 0 .. Len(buf) - 1 /\ Len(buf) \in 1 .. Pages /\ buf # <<>>
      /\ BufferShape /\ job.step = "erase" /\ job.since <= faults
      /\ UNCHANGED <<core, locked, buf, faults>>
  BY AtWork DEF Erase, JobProgress, ErasingInv
<1>2. ASSUME core = "halted", ~ locked, ErasedSoFar(job.at)
      PROVE  \A i \in 0 .. job.at : flash'[PageAt(i)'] = Blank
  <2> SUFFICES ASSUME NEW i \in 0 .. job.at PROVE flash'[PageAt(i)'] = Blank
    OBVIOUS
  <2>1. flash' = [flash EXCEPT ![PageAt(job.at)] = Blank]
    BY <1>2 DEF Erase
  <2>2. i \in 0 .. Len(buf) - 1 /\ Len(buf) \in Nat
    BY <1>1, PagesAssumption
  <2>3. PageAt(i) \in 0 .. Len(buf) - 1
    BY <1>1, <2>2, PageFacts
  <2>4. PageAt(i) \in 0 .. Pages - 1
    BY <1>1, <2>2, <2>3, PagesAssumption
  <2>5. flash = [p \in 0 .. Pages - 1 |-> flash[p]]
    BY AtWork DEF BoardShape
  <2>6. i # job.at => flash[PageAt(i)] = Blank
    BY <1>1, <1>2 DEF ErasedSoFar
  <2>7. flash'[PageAt(i)] = Blank
    BY <2>1, <2>4, <2>5, <2>6
  <2>8. PageAt(i)' = PageAt(i)
    BY <1>1 DEF PageAt
  <2> QED
    BY <2>7, <2>8
<1>3. core = "fw" \/ (core = "halted" /\ ~ locked /\ ErasedSoFar(job.at))
  BY <1>1, AtWork DEF JobProgress, ErasingInv
<1>4. CASE job.at + 1 = Len(buf)
  <2>1. job'.step = "load" /\ job'.since = job.since
    BY <1>1, <1>4 DEF Erase, To, Jobs
  <2>2. Clean' => core = "halted"
    BY <1>1, <2>1, AtWork DEF JobProgress, ErasingInv, Clean
  <2>3. Len(buf') - 1 = job.at
    BY <1>1, <1>4, PagesAssumption
  <2>4. LoadingInv'
    BY <1>1, <1>2, <1>3, <2>1, <2>2, <2>3 DEF LoadingInv, ErasedSoFar
  <2> QED
    BY <1>1, <2>1, <2>4 DEF JobProgress, ErasingInv, ProgrammingInv, VerifyingInv, BootingInv
<1>5. CASE job.at + 1 # Len(buf)
  <2>1. job'.step = "erase" /\ job'.since = job.since /\ job'.at = job.at + 1
    BY <1>1, <1>5 DEF Erase, To, Jobs
  <2>2. Clean' => core = "halted"
    BY <1>1, <2>1, AtWork DEF JobProgress, ErasingInv, Clean
  <2>3. job'.at \in 0 .. Len(buf) - 1
    BY <1>1, <1>5, <2>1
  <2>4. job'.at - 1 = job.at
    BY <1>1, <2>1
  <2>5. ErasingInv'
    BY <1>1, <1>2, <1>3, <2>1, <2>2, <2>3, <2>4 DEF ErasingInv, ErasedSoFar
  <2> QED
    BY <1>1, <2>1, <2>5 DEF JobProgress, LoadingInv, ProgrammingInv, VerifyingInv, BootingInv
<1> QED
  BY <1>4, <1>5

-----------------------------------------------------------------------------
(* The loader's runs. *)

\* What a job that programs knows.
LEMMA AtProgram ==
  ASSUME JobInv, Busy, job.step = "program"
  PROVE  /\ JobProgress /\ ProgrammingInv /\ RingInv
         /\ From \in 0 .. 1 /\ End \in 1 .. Len(buf) /\ From < End
         /\ ld.at \in From .. End /\ run.sent \in Nat
         /\ run.wp \in 0 .. RingLen - 1 /\ run.rp \in 0 .. RingLen - 1 /\ ld.rp \in 0 .. RingLen - 1
         /\ job.seg \in 0 .. LastSegment
<1>1. JobProgress /\ ProgrammingInv /\ RingInv /\ job.seg \in 0 .. LastSegment
  BY AtWork DEF JobProgress, ProgrammingInv
<1>2. From \in 0 .. 1 /\ End \in 1 .. Len(buf) /\ From < End
  BY <1>1, AtWork, SegmentFacts DEF From, End
<1>3. /\ run.sent \in Nat
      /\ run.wp \in 0 .. RingLen - 1 /\ run.rp \in 0 .. RingLen - 1 /\ ld.rp \in 0 .. RingLen - 1
  BY AtWork DEF BoardShape
<1> QED
  BY <1>1, <1>2, <1>3 DEF RingInv

\* A step that leaves the job programming has only the programming to keep.
LEMMA StillPrograms ==
  ASSUME JobInv, Busy, job'.step = "program", job'.since = job.since,
         faults' = faults \/ faults' = faults + 1, ProgrammingInv'
  PROVE  JobProgress'
<1>1. job.since \in Int /\ faults \in Int /\ job.since <= faults
  BY AtWork DEF JobProgress
<1>2. job'.since <= faults'
  BY <1>1
<1> QED
  BY <1>2 DEF JobProgress, ErasingInv, LoadingInv, VerifyingInv, BootingInv

\* The segment of a job stays what it is.
LEMMA SameSegment ==
  ASSUME UNCHANGED buf, job'.seg = job.seg
  PROVE  From' = From /\ End' = End /\ LastSegment' = LastSegment
BY DEF From, End, SegmentFrom, SegmentTo, LastSegment

\* A run begins with an empty ring at the first page of its segment.
LEMMA SegmentStarts ==
  ASSUME JobInv, Busy, NEW k \in 0 .. LastSegment, StartSegment(k), UNCHANGED buf
  PROVE  /\ job'.step = "program" /\ job'.seg = k /\ job'.since = job.since
         /\ LastSegment' = LastSegment /\ From' = SegmentFrom(k) /\ End' = SegmentTo(k)
         /\ ld'.at = From' /\ ~ ld'.bad /\ core' = "loader" /\ run'.phase = "feed"
         /\ RingInv'
<1>1. job \in Jobs /\ buf # <<>> /\ BufferShape
  BY AtWork
<1>2. /\ SegmentFrom(k) \in 0 .. 1 /\ SegmentTo(k) \in 1 .. Len(buf)
      /\ SegmentFrom(k) < SegmentTo(k) /\ Len(buf) \in 1 .. Pages
  BY <1>1, SegmentFacts, AtWork
<1>3. job'.step = "program" /\ job'.seg = k /\ job'.since = job.since
  BY <1>1 DEF StartSegment, Jobs
<1>4. LastSegment' = LastSegment /\ From' = SegmentFrom(k) /\ End' = SegmentTo(k)
  BY <1>3 DEF From, End, SegmentFrom, SegmentTo, LastSegment
<1>5. /\ ld' = [at |-> From', left |-> End' - From', rp |-> 0, bad |-> FALSE]
      /\ run' = [sent |-> 0, wp |-> 0, rp |-> 0, phase |-> "feed"]
      /\ sram' = [sram EXCEPT !.wp = 0, !.rp = 0]
      /\ core' = "loader"
  BY <1>4, Zenon DEF StartSegment
<1>6. sram'.wp = 0 /\ sram'.rp = 0
  BY <1>5, AtWork DEF BoardShape
<1>7. From' \in Int /\ End' \in Int /\ From' < End'
  BY <1>2, <1>4
<1>8. RingInv'
  BY <1>5, <1>6, <1>7 DEF RingInv, Behind, Zero
<1> QED
  BY <1>3, <1>4, <1>5, <1>8

LEMMA LoadKeeps ==
  ASSUME JobInv, Busy, Load
  PROVE  JobProgress'
<1>1. /\ job.step = "load" /\ core \in {"halted", "stopped"} /\ StartSegment(0)
      /\ UNCHANGED <<flash, locked, buf, faults>>
  BY DEF Load, StartSegment, Halted
<1>2. /\ LoadingInv /\ BufferShape /\ buf # <<>> /\ Len(buf) \in 1 .. Pages
      /\ faults \in Int /\ job.since \in Int
  BY AtWork DEF JobProgress
<1>3. ~ locked /\ ErasedSoFar(Len(buf))
  BY <1>1, <1>2 DEF LoadingInv
<1>4. \A p \in 0 .. Len(buf) - 1 : flash[p] = Blank
  BY <1>2, <1>3, PageFacts DEF ErasedSoFar
<1>5. 0 \in 0 .. LastSegment
  BY DEF LastSegment
<1>6. /\ job'.step = "program" /\ job'.seg = 0 /\ job'.since = job.since
      /\ LastSegment' = LastSegment /\ From' = SegmentFrom(0) /\ End' = SegmentTo(0)
      /\ ld'.at = From' /\ ~ ld'.bad /\ core' = "loader" /\ run'.phase = "feed"
      /\ RingInv'
  BY <1>1, <1>5, SegmentStarts
<1>7. \A p \in 0 .. Len(buf) - 1 : ~ Reached(p)'
  <2> SUFFICES ASSUME NEW p \in 0 .. Len(buf) - 1 PROVE ~ Reached(p)'
    OBVIOUS
  <2>1. LastSegment \in {0, 1} /\ (LastSegment = 1 => SegmentFrom(0) = 1)
        /\ (LastSegment = 0 => SegmentFrom(0) = 0 /\ Len(buf) = 1)
    BY <1>2, <1>5, SegmentFacts
  <2>2. p \in Int
    BY <1>2, PagesAssumption
  <2>3. CASE LastSegment = 1
    BY <1>6, <2>1, <2>2, <2>3 DEF Reached
  <2>4. CASE LastSegment = 0
    <3>1. p = 0
      BY <2>1, <2>4
    <3> QED
      BY <1>6, <2>1, <2>4, <3>1 DEF Reached
  <2> QED
    BY <2>1, <2>3, <2>4
<1>8. PagesInv' /\ \A p \in 0 .. Len(buf') - 1 : Reached(p)' => flash'[p] = buf'[p + 1]
  BY <1>1, <1>4, <1>7 DEF PagesInv
<1>9. ProgrammingInv'
  BY <1>1, <1>3, <1>5, <1>6, <1>8 DEF ProgrammingInv
<1> QED
  BY <1>1, <1>6, <1>9, StillPrograms

LEMMA NextSegmentKeeps ==
  ASSUME JobInv, Busy, NextSegment
  PROVE  JobProgress'
<1>1. /\ job.step = "program" /\ core \in {"halted", "stopped"} /\ StartSegment(job.seg + 1)
      /\ ~ ld.bad /\ ld.at = End /\ job.seg < LastSegment
      /\ UNCHANGED <<flash, magic, locked, buf, faults>>
  BY DEF NextSegment, InPhase, Halted, RunOk, End
<1>2. /\ ProgrammingInv /\ BufferShape /\ buf # <<>> /\ Len(buf) \in 1 .. Pages
      /\ job.seg \in 0 .. LastSegment
  BY <1>1, AtProgram, AtWork
<1>3. LastSegment = 1 /\ job.seg = 0 /\ End = Len(buf)
  BY <1>1, <1>2, SegmentFacts DEF LastSegment, End
<1>4. ~ locked /\ PagesInv
  BY <1>1, <1>2 DEF ProgrammingInv
<1>5. StartSegment(1) /\ 1 \in 0 .. LastSegment
  BY <1>1, <1>3
<1>6. /\ job'.step = "program" /\ job'.seg = 1 /\ job'.since = job.since
      /\ LastSegment' = LastSegment /\ From' = SegmentFrom(1) /\ End' = SegmentTo(1)
      /\ ld'.at = From' /\ ~ ld'.bad /\ core' = "loader" /\ run'.phase = "feed"
      /\ RingInv'
  BY <1>1, <1>5, SegmentStarts
<1>7. SegmentFrom(1) = 0
  BY <1>2, <1>3, <1>5, SegmentFacts
<1>8. \A p \in 0 .. Len(buf) - 1 : Reached(p)' = Reached(p)
  BY <1>1, <1>2, <1>3, <1>6, <1>7 DEF Reached
<1>9. PagesInv' /\ (Clean' => \A p \in 0 .. Len(buf') - 1 : Reached(p)' => flash'[p] = buf'[p + 1])
  BY <1>1, <1>2, <1>4, <1>6, <1>8 DEF PagesInv, ProgrammingInv, Clean
<1>10. ProgrammingInv'
  BY <1>1, <1>4, <1>5, <1>6, <1>9 DEF ProgrammingInv
<1> QED
  BY <1>1, <1>6, <1>10, StillPrograms

\* A chunk goes behind those the ring holds, and the ring is never filled over its reader.
LEMMA FeedKeeps ==
  ASSUME JobInv, Busy, Feed
  PROVE  JobProgress'
<1> DEFINE wp == (run.wp + 1) % RingLen
           chunk == buf[SegmentFrom(job.seg) + run.sent + 1]
           held0 == run.sent - (ld.at - From)
<1>1. /\ job.step = "program" /\ run.phase = "feed" /\ CanFeed
      /\ sram' = [sram EXCEPT !.ring[run.wp] = chunk, !.wp = wp]
      /\ run' = [sent |-> run.sent + 1, wp |-> wp,
                 rp |-> IF Full(run.rp) THEN sram.rp ELSE run.rp,
                 phase |-> IF run.sent + 1 = End - From THEN "drain" ELSE "feed"]
      /\ UNCHANGED <<flash, core, magic, locked, ld, job, buf, faults>>
  BY DEF Feed, InPhase, From, End
<1>2. /\ ProgrammingInv /\ RingInv /\ JobProgress
      /\ From \in 0 .. 1 /\ End \in 1 .. Len(buf) /\ From < End
      /\ ld.at \in From .. End /\ run.sent \in Nat
      /\ run.wp \in 0 .. RingLen - 1 /\ run.rp \in 0 .. RingLen - 1 /\ ld.rp \in 0 .. RingLen - 1
  BY <1>1, AtProgram
<1>3. Len(buf) \in 1 .. Pages /\ ld.at \in Int /\ From \in Int /\ End \in Int
  BY <1>2, AtWork, PagesAssumption
<1>4. From' = From /\ End' = End /\ LastSegment' = LastSegment
  BY <1>1, SameSegment
<1>5. wp = Wrap(run.wp + 1) /\ wp \in 0 .. RingLen - 1 /\ Wrap(ld.rp) = ld.rp
  BY <1>2, RingNext
<1>6. /\ Full(run.rp) <=> Behind(run.wp, run.rp) + 1 >= RingLen
      /\ Behind(run.wp, run.rp) \in Nat /\ Behind(run.wp, ld.rp) \in Nat
  <2>1. /\ (run.wp + RingLen - run.rp) % RingLen = Behind(run.wp, run.rp)
        /\ Behind(run.wp, run.rp) \in Nat /\ Behind(run.wp, ld.rp) \in Nat
    BY <1>2, RingHolds, Zenon
  <2> QED
    BY <2>1 DEF Full
<1>7. Full(ld.rp) <=> Behind(run.wp, ld.rp) + 1 >= RingLen
  BY <1>2, RingHolds DEF Full
<1>8. sram.rp # Zero => sram.rp = ld.rp
  BY <1>2 DEF RingInv
<1>9. Behind(run.wp, ld.rp) + 1 < RingLen
  <2>1. Behind(run.wp, ld.rp) <= Behind(run.wp, run.rp)
    BY <1>2 DEF RingInv
  <2> QED
    BY <1>1, <1>6, <1>7, <1>8, <2>1, RingLenAssumption DEF CanFeed
<1>10. Behind(wp, ld.rp) = Behind(run.wp, ld.rp) + 1
  BY <1>2, <1>5, <1>9, BehindMoves
<1>11. Behind(run.wp, ld.rp) = held0 /\ run.sent < End - From
  BY <1>1, <1>2 DEF RingInv
<1>12. Behind(wp, ld.rp) <= Behind(wp, run'.rp)
  <2>1. CASE Full(run.rp)
    <3>1. run'.rp = ld.rp
      BY <1>1, <1>8, <2>1 DEF CanFeed
    <3> QED
      BY <1>6, <1>10, <3>1
  <2>2. CASE ~ Full(run.rp)
    <3>1. run'.rp = run.rp
      BY <1>1, <2>2
    <3>2. Behind(wp, run.rp) = Behind(run.wp, run.rp) + 1
      <4>1. Behind(run.wp, run.rp) + 1 < RingLen
        BY <1>6, <2>2, RingLenAssumption
      <4> QED
        BY <1>2, <1>5, <4>1, BehindMoves
    <3> QED
      BY <1>2, <1>6, <1>10, <3>1, <3>2 DEF RingInv
  <2> QED
    BY <2>1, <2>2
<1>13. sram'.wp = wp /\ sram'.rp = sram.rp /\ sram'.ring = [sram.ring EXCEPT ![run.wp] = chunk]
  BY <1>1, AtWork DEF BoardShape
<1>14. \A d \in 0 .. held0 : sram'.ring[Wrap(ld.rp + d)] = buf[ld.at + d + 1]
  <2> SUFFICES ASSUME NEW d \in 0 .. held0
               PROVE  sram'.ring[Wrap(ld.rp + d)] = buf[ld.at + d + 1]
    OBVIOUS
  <2>1. held0 \in Nat /\ d \in Int
    BY <1>2, <1>3, <1>6, <1>11
  <2>2. DOMAIN sram.ring = 0 .. RingLen - 1
    BY AtWork DEF BoardShape
  <2>3. CASE d = held0
    <3>1. Wrap(ld.rp + d) = run.wp
      BY <1>2, <1>11, <2>3, BehindMoves
    <3>2. ld.at + d + 1 = From + run.sent + 1
      BY <1>2, <1>3, <2>3
    <3>3. sram'.ring[run.wp] = chunk
      BY <1>2, <1>13, <2>2
    <3> QED
      BY <3>1, <3>2, <3>3 DEF From
  <2>4. CASE d # held0
    <3>1. d \in 0 .. held0 - 1
      BY <2>1, <2>4
    <3>2. Wrap(ld.rp + d) \in 0 .. RingLen - 1 /\ Wrap(ld.rp + d) # run.wp
      BY SMTT(30), <1>2, <1>11, <3>1, BehindMoves
    <3>3. sram'.ring[Wrap(ld.rp + d)] = sram.ring[Wrap(ld.rp + d)]
      BY <1>13, <2>2, <3>2
    <3>4. sram.ring[Wrap(ld.rp + d)] = buf[ld.at + d + 1]
      BY <1>2, <3>1 DEF RingInv
    <3> QED
      BY <3>3, <3>4
  <2> QED
    BY <2>3, <2>4
<1>15. RingInv'
  <2>1. run'.sent = run.sent + 1 /\ run'.wp = wp /\ run'.phase \in {"feed", "drain"}
        /\ (run'.phase = "feed" <=> run'.sent # End - From)
    BY <1>1
  <2>2. run'.sent - (ld'.at - From') = held0 + 1 /\ run'.sent <= End - From
    <3>1. ld'.at = ld.at /\ From' = From
      BY <1>1, <1>4, Zenon
    <3>2. /\ run.sent \in Int /\ ld.at \in Int /\ From \in Int /\ End \in Int
          /\ run.sent < End - From
      BY <1>2, <1>3, <1>11
    <3> QED
      BY <2>1, <3>1, <3>2
  <2>3. run'.phase = "feed" <=> run'.sent < End' - From' /\ run'.phase # "halt"
    BY <1>2, <1>3, <1>4, <1>11, <2>1, <2>2
  <2>4. Behind(run.wp, ld.rp)' = Behind(wp, ld.rp) /\ Behind(run.wp, run.rp)' = Behind(wp, run'.rp)
    BY <1>1, <2>1 DEF Behind
  <2>5. held0 + 1 - 1 = held0
    BY <1>2, <1>3
  <2>6. \A d \in 0 .. run'.sent - (ld'.at - From') - 1 :
          sram'.ring[Wrap(ld'.rp + d)] = buf'[ld'.at + d + 1]
    <3>1. ld' = ld /\ buf' = buf
      BY <1>1, Zenon
    <3>2. run'.sent - (ld'.at - From') - 1 = held0
      <4>1. run'.sent \in Int /\ ld'.at \in Int /\ From' \in Int /\ held0 \in Int
        BY <1>1, <1>2, <1>3, <1>4, <2>1
      <4> HIDE DEF held0
      <4> QED
        BY <2>2, <4>1
    <3> QED
      BY <1>14, <3>1, <3>2, Zenon
  <2>7. \A d \in 0 .. run'.sent - (ld'.at - From') - 1 :
          sram'.ring[Wrap(ld.rp + d)'] = buf'[ld'.at + d + 1]
    BY <2>6 DEF Wrap
  <2>8. ld'.left = End' - ld'.at /\ ld'.at \in From' .. End'
    BY <1>1, <1>2, <1>4 DEF RingInv
  <2>9. sram'.rp = IF ld'.bad THEN Zero ELSE ld'.rp
    BY <1>1, <1>2, <1>13 DEF RingInv
  <2> QED
    BY <1>4, <1>10, <1>11, <1>12, <1>13, <2>1, <2>2, <2>3, <2>4, <2>7, <2>8, <2>9 DEF RingInv
<1>16. (PagesInv' <=> PagesInv) /\ \A p : Reached(p)' = Reached(p)
  BY <1>1, <1>4 DEF PagesInv, Reached
<1>17. ProgrammingInv'
  <2>1. sram.wp # Zero
    BY <1>1, <1>2 DEF RingInv, Zero
  <2>2. run'.phase # "halt"
    BY <1>1
  <2>3. Clean' <=> Clean
    BY <1>1 DEF Clean
  <2> QED
    BY <1>1, <1>2, <1>4, <1>15, <1>16, <2>1, <2>2, <2>3 DEF ProgrammingInv
<1> QED
  BY <1>1, <1>17, StillPrograms

\* What the ring holds, when neither its reader nor what was sent moves.
LEMMA RingStays ==
  ASSUME JobInv, Busy, job.step = "program",
         UNCHANGED <<ld, job, buf>>, run'.sent = run.sent, run'.wp = run.wp,
         run'.phase = "halt", run'.rp \in {run.rp, ld.rp}, sram'.ring = sram.ring, sram'.rp = sram.rp,
         sram'.wp \in {sram.wp, Zero},
         run'.rp = ld.rp => Behind(run.wp, ld.rp) <= Behind(run.wp, run'.rp)
  PROVE  RingInv' /\ From' = From /\ End' = End /\ LastSegment' = LastSegment
<1>1. RingInv /\ run.sent <= End - From
  BY AtProgram DEF RingInv
<1>2. From' = From /\ End' = End /\ LastSegment' = LastSegment
  BY SameSegment
<1>3. Behind(run.wp, ld.rp)' = Behind(run.wp, ld.rp)
      /\ Behind(run.wp, run.rp)' = Behind(run.wp, run'.rp)
  BY DEF Behind
<1>4. Behind(run.wp, ld.rp) <= Behind(run.wp, run'.rp)
  BY <1>1 DEF RingInv
<1>5. run'.sent - (ld'.at - From') = run.sent - (ld.at - From)
  BY <1>2
<1>6. \A d \in 0 .. run'.sent - (ld'.at - From') - 1 :
        sram'.ring[Wrap(ld.rp + d)'] = buf'[ld'.at + d + 1]
  BY <1>1, <1>5 DEF RingInv, Wrap
<1>7. run'.phase = "feed" <=> run'.sent < End' - From' /\ run'.phase # "halt"
  OBVIOUS
<1>8. /\ ld'.at \in From' .. End' /\ ld'.left = End' - ld'.at /\ run'.sent <= End' - From'
      /\ Behind(run.wp, ld.rp)' = run'.sent - (ld'.at - From')
      /\ sram'.wp \in {run'.wp, Zero}
      /\ sram'.rp = IF ld'.bad THEN Zero ELSE ld'.rp
  BY <1>1, <1>2, <1>3, <1>5 DEF RingInv
<1> QED
  BY <1>2, <1>3, <1>4, <1>6, <1>7, <1>8 DEF RingInv

\* The pages its runs have been through do not change with the run's own registers.
LEMMA PagesStay ==
  ASSUME UNCHANGED <<flash, buf, job>>, ld'.at = ld.at
  PROVE  PagesInv' = PagesInv /\ \A p : Reached(p)' = Reached(p)
BY DEF PagesInv, Reached, LastSegment

\* An error seen is an error of the loader's.
LEMMA SeesErrorKeeps ==
  ASSUME JobInv, Busy, SeesError
  PROVE  JobProgress'
<1>1. /\ job.step = "program" /\ sram.rp = Zero
      /\ run' = [run EXCEPT !.phase = "halt"]
      /\ UNCHANGED <<flash, core, locked, sram, ld, job, buf, faults>>
  BY DEF SeesError, InPhase, board
<1>2. ProgrammingInv /\ RingInv /\ ld.rp \in 0 .. RingLen - 1
  BY <1>1, AtProgram
<1>3. run'.sent = run.sent /\ run'.wp = run.wp /\ run'.rp = run.rp /\ run'.phase = "halt"
  BY <1>1, AtWork DEF BoardShape
<1>4. RingInv' /\ From' = From /\ End' = End /\ LastSegment' = LastSegment
  BY <1>1, <1>2, <1>3, RingStays DEF RingInv
<1>5. ld.bad
  BY <1>1, <1>2 DEF RingInv, Zero
<1>6. ~ Clean
  BY <1>1, <1>2, <1>5 DEF ProgrammingInv
<1>7. ~ Clean'
  BY <1>1, <1>6 DEF Clean
<1>8. ProgrammingInv'
  BY <1>1, <1>2, <1>4, <1>5, <1>7 DEF ProgrammingInv
<1> QED
  BY <1>1, <1>8, StillPrograms

\* The ring is empty and all was sent: the run is at its end.
LEMMA DrainedKeeps ==
  ASSUME JobInv, Busy, Drained
  PROVE  JobProgress'
<1>1. /\ job.step = "program" /\ run.phase = "drain"
      /\ sram.rp # Zero /\ sram.rp = run.wp
      /\ sram' = [sram EXCEPT !.wp = Zero]
      /\ run' = [run EXCEPT !.phase = "halt", !.rp = sram.rp]
      /\ UNCHANGED <<flash, core, locked, ld, job, buf, faults>>
  BY DEF Drained, InPhase
<1>2. /\ ProgrammingInv /\ RingInv /\ ld.rp \in 0 .. RingLen - 1 /\ run.wp \in 0 .. RingLen - 1
      /\ From \in 0 .. 1 /\ End \in 1 .. Len(buf) /\ ld.at \in From .. End /\ run.sent \in Nat
  BY <1>1, AtProgram
<1>3. ~ ld.bad /\ ld.rp = run.wp
  BY <1>1, <1>2 DEF RingInv
<1>4. Behind(run.wp, ld.rp) = 0 /\ run.sent = End - From
  <2>1. Behind(run.wp, ld.rp) = 0
    BY <1>2, <1>3, BehindMoves
  <2>2. run.sent <= End - From /\ ~ (run.sent < End - From)
    BY <1>1, <1>2 DEF RingInv
  <2> QED
    BY <1>2, <2>1, <2>2
<1>5. ld.at = End
  BY <1>2, <1>4 DEF RingInv
<1>6. /\ run'.sent = run.sent /\ run'.wp = run.wp /\ run'.rp = ld.rp /\ run'.phase = "halt"
      /\ sram'.ring = sram.ring /\ sram'.rp = sram.rp /\ sram'.wp = Zero
  BY <1>1, <1>3, AtWork DEF BoardShape
<1>7. Behind(run.wp, ld.rp) <= Behind(run.wp, run'.rp)
  BY <1>4, <1>6
<1>8. RingInv' /\ From' = From /\ End' = End /\ LastSegment' = LastSegment
  BY <1>1, <1>6, <1>7, RingStays
<1>9. PagesInv' = PagesInv /\ \A p : Reached(p)' = Reached(p)
  BY <1>1, PagesStay
<1>10. ProgrammingInv'
  BY <1>1, <1>2, <1>5, <1>6, <1>8, <1>9 DEF ProgrammingInv, Clean
<1> QED
  BY <1>1, <1>10, StillPrograms

\* Both runs ended as they should: every page was reached.
LEMMA ProgrammedKeeps ==
  ASSUME JobInv, Busy, Programmed
  PROVE  JobProgress'
<1>1. /\ job.step = "program" /\ core \in {"halted", "stopped"}
      /\ ~ ld.bad /\ ld.at = End /\ job.seg = LastSegment
      /\ job' = [job EXCEPT !.step = "verify", !.at = 0]
      /\ UNCHANGED <<flash, core, buf, faults>>
  BY DEF Programmed, InPhase, Halted, RunOk, End, To
<1>2. /\ ProgrammingInv /\ job.seg \in 0 .. LastSegment /\ job \in Jobs /\ JobProgress
      /\ BufferShape /\ buf # <<>> /\ Len(buf) \in 1 .. Pages
  BY <1>1, AtProgram, AtWork
<1>3. job'.step = "verify" /\ job'.at = 0 /\ job'.since = job.since
  BY <1>1, <1>2 DEF Jobs
<1>4. End = 1 /\ LastSegment \in {0, 1} /\ (LastSegment = 0 => Len(buf) = 1)
  BY <1>1, <1>2, SegmentFacts DEF End
<1>5. \A p \in 0 .. Len(buf) - 1 : Reached(p)
  BY <1>1, <1>2, <1>4, PagesAssumption DEF Reached
<1>6. Clean' => HoldsUpTo(Len(buf))'
  BY <1>1, <1>2, <1>3, <1>5 DEF ProgrammingInv, Clean, HoldsUpTo
<1>7. VerifyingInv'
  BY <1>1, <1>2, <1>3, <1>6, PagesAssumption DEF VerifyingInv, HoldsUpTo
<1> QED
  BY <1>1, <1>2, <1>3, <1>7 DEF JobProgress, ErasingInv, LoadingInv, ProgrammingInv, BootingInv

LEMMA VerifyKeeps ==
  ASSUME JobInv, Busy, Verify
  PROVE  JobProgress'
<1>1. /\ job.step = "verify" /\ flash[job.at] = buf[job.at + 1] /\ job.at + 1 < Len(buf)
      /\ job' = [job EXCEPT !.step = "verify", !.at = job.at + 1]
      /\ UNCHANGED <<flash, core, buf, faults>>
  BY DEF Verify, Matches, To, board
<1>2. /\ VerifyingInv /\ job \in Jobs /\ JobProgress /\ Len(buf) \in 1 .. Pages
  BY AtWork DEF JobProgress
<1>3. job'.step = "verify" /\ job'.at = job.at + 1 /\ job'.since = job.since
  BY <1>1, <1>2 DEF Jobs
<1>4. job.at \in 0 .. Len(buf) - 1 /\ job.at + 1 \in 0 .. Len(buf) - 1 /\ job.at + 1 - 1 = job.at
  BY <1>1, <1>2, PagesAssumption DEF VerifyingInv
<1>5. \A p \in 0 .. job.at : flash[p] = buf[p + 1]
  BY <1>1, <1>2, <1>4 DEF VerifyingInv, HoldsUpTo
<1>6. VerifyingInv'
  BY <1>1, <1>2, <1>3, <1>4, <1>5 DEF VerifyingInv, HoldsUpTo, Clean
<1> QED
  BY <1>1, <1>2, <1>3, <1>6 DEF JobProgress, ErasingInv, LoadingInv, ProgrammingInv, BootingInv

LEMMA RestartKeeps ==
  ASSUME JobInv, Busy, Restart
  PROVE  JobProgress'
<1>1. /\ job.step = "verify" /\ flash[job.at] = buf[job.at + 1] /\ job.at + 1 = Len(buf)
      /\ job.finish = "boot"
      /\ job' = [job EXCEPT !.step = "boot", !.at = 0]
      /\ core' = "fw" /\ magic' = FALSE
      /\ UNCHANGED <<flash, buf, faults>>
  BY DEF Restart, Matches, To
<1>2. VerifyingInv /\ job \in Jobs /\ JobProgress /\ Len(buf) \in 1 .. Pages
  BY AtWork DEF JobProgress
<1>3. job'.step = "boot" /\ job'.finish = "boot" /\ job'.since = job.since
  BY <1>1, <1>2 DEF Jobs
<1>4. job.at \in 0 .. Len(buf) - 1 /\ Len(buf) - 1 = job.at
  BY <1>1, <1>2, PagesAssumption DEF VerifyingInv
<1>5. \A p \in 0 .. job.at : flash[p] = buf[p + 1]
  BY <1>1, <1>2, <1>4 DEF VerifyingInv, HoldsUpTo
<1>6. BootingInv'
  BY <1>1, <1>3, <1>4, <1>5 DEF BootingInv, HoldsUpTo
<1> QED
  BY <1>1, <1>2, <1>3, <1>6 DEF JobProgress, ErasingInv, LoadingInv, ProgrammingInv, VerifyingInv

LEMMA AdvanceProgress ==
  ASSUME JobInv, Busy, Advance
  PROVE  JobProgress'
BY PrepareKeeps, EraseKeeps, LoadKeeps, FeedKeeps, SeesErrorKeeps, DrainedKeeps, NextSegmentKeeps,
   ProgrammedKeeps, VerifyKeeps, RestartKeeps DEF Advance

-----------------------------------------------------------------------------
(* The board beside the job. *)

\* The loader runs in a job's programming, or in what an earlier job left before the first piece.
LEMMA LoaderAt ==
  ASSUME JobInv, Busy, core = "loader"
  PROVE  job.step \in {"prepare", "program"}
BY AtWork DEF JobProgress, ErasingInv, LoadingInv, VerifyingInv, BootingInv, Jobs

\* A job whose first piece is not done has nothing to keep.
LEMMA PrepareProgress ==
  ASSUME JobInv, Busy, job.step = "prepare", UNCHANGED job, faults' = faults \/ faults' = faults + 1
  PROVE  JobProgress'
<1>1. job.since <= faults /\ job.since \in Int /\ faults \in Int
  BY AtWork DEF JobProgress
<1> QED
  BY <1>1 DEF JobProgress, ErasingInv, LoadingInv, ProgrammingInv, VerifyingInv, BootingInv

\* The chunk the loader takes is its page's, and the page is blank.
LEMMA LoaderTakes ==
  ASSUME JobInv, Busy, job.step = "program", LoaderHas
  PROVE  /\ ~ ld.bad /\ core = "loader" /\ ~ locked /\ PagesInv
         /\ ld.at < End /\ ld.at \in 0 .. Len(buf) - 1 /\ ld.at \in 0 .. Pages - 1
         /\ sram.wp = run.wp
         /\ Behind(run.wp, ld.rp) \in Nat \ {0}
         /\ sram.ring[ld.rp] = buf[ld.at + 1] /\ ~ Reached(ld.at) /\ flash[ld.at] = Blank
         /\ Clean => run.phase # "halt"
<1>1. core = "loader" /\ ~ ld.bad /\ ld.left > 0 /\ sram.wp # Zero /\ sram.wp # ld.rp
  BY DEF LoaderHas
<1>2. /\ ProgrammingInv /\ RingInv /\ job.seg \in 0 .. LastSegment
      /\ From \in 0 .. 1 /\ End \in 1 .. Len(buf) /\ From < End
      /\ ld.at \in From .. End /\ run.sent \in Nat
      /\ run.wp \in 0 .. RingLen - 1 /\ ld.rp \in 0 .. RingLen - 1
  BY AtProgram
<1>3. /\ BufferShape /\ buf # <<>> /\ Len(buf) \in 1 .. Pages
  BY AtWork
<1>4. ld.at < End /\ sram.wp = run.wp /\ run.wp # ld.rp
  BY <1>1, <1>2 DEF RingInv
<1>5. ld.at \in 0 .. Len(buf) - 1 /\ ld.at \in 0 .. Pages - 1
  BY <1>2, <1>3, <1>4, PagesAssumption
<1>6. Behind(run.wp, ld.rp) \in Nat /\ Behind(run.wp, ld.rp) # 0
  BY <1>2, <1>4, BehindMoves, RingHolds
<1>7. Behind(run.wp, ld.rp) = run.sent - (ld.at - From)
  BY <1>2 DEF RingInv
<1>8. 0 \in 0 .. run.sent - (ld.at - From) - 1
  BY <1>6, <1>7
<1>9. sram.ring[Wrap(ld.rp + 0)] = buf[ld.at + 0 + 1]
  BY <1>2, <1>8 DEF RingInv
<1>10. Wrap(ld.rp + 0) = ld.rp /\ ld.at + 0 + 1 = ld.at + 1
  BY <1>2, <1>5, RingLenAssumption DEF Wrap
<1>11. ~ locked /\ PagesInv
  BY <1>1, <1>2 DEF ProgrammingInv
<1>12. ~ Reached(ld.at)
  <2>1. CASE LastSegment = 1 /\ job.seg = 0
    BY <1>5, <2>1 DEF Reached
  <2>2. CASE ~ (LastSegment = 1 /\ job.seg = 0)
    <3>1. End = 1
      BY <1>2, <1>3, <2>2, SegmentFacts DEF End
    <3>2. ld.at = 0
      BY <1>4, <1>5, <3>1
    <3> QED
      BY <2>2, <3>2 DEF Reached
  <2> QED
    BY <2>1, <2>2
<1>13. flash[ld.at] = Blank
  BY <1>5, <1>11, <1>12 DEF PagesInv
<1>14. Clean => run.phase # "halt"
  BY <1>1, <1>2 DEF ProgrammingInv
<1> QED
  BY <1>1, <1>4, <1>5, <1>6, <1>9, <1>10, <1>11, <1>12, <1>13, <1>14

LEMMA WrapTwice ==
  ASSUME NEW r \in 0 .. RingLen - 1, NEW d \in 0 .. RingLen - 2
  PROVE  Wrap(Wrap(r + 1) + d) = Wrap(r + (d + 1))
BY RingLenAssumption DEF Wrap

\* The reader takes a chunk: what is left of the ring is one shorter, one page further.
LEMMA RingTaken ==
  ASSUME JobInv, Busy, job.step = "program", LoaderHas, Advanced, UNCHANGED <<job, run, buf>>
  PROVE  /\ RingInv' /\ From' = From /\ End' = End /\ LastSegment' = LastSegment
         /\ ld'.at = ld.at + 1 /\ ld'.bad = ld.bad /\ sram'.wp = sram.wp
<1> DEFINE rp == (ld.rp + 1) % RingLen
<1>1. /\ RingInv /\ From \in 0 .. 1 /\ End \in 1 .. Len(buf) /\ ld.at \in From .. End
      /\ run.sent \in Nat /\ run.wp \in 0 .. RingLen - 1 /\ run.rp \in 0 .. RingLen - 1
      /\ ld.rp \in 0 .. RingLen - 1
  BY AtProgram
<1>2. /\ ~ ld.bad /\ ld.at < End /\ Behind(run.wp, ld.rp) \in Nat \ {0} /\ sram.wp = run.wp
      /\ ld.at \in Int
  BY LoaderTakes
<1>3. ld.left > 0 /\ run.wp # ld.rp
  BY <1>2 DEF LoaderHas
<1>4. /\ ld' = [ld EXCEPT !.at = ld.at + 1, !.left = ld.left - 1, !.rp = rp]
      /\ sram' = [sram EXCEPT !.rp = rp]
  BY DEF Advanced
<1>5. /\ ld'.at = ld.at + 1 /\ ld'.left = ld.left - 1 /\ ld'.rp = rp /\ ld'.bad = ld.bad
      /\ sram'.rp = rp /\ sram'.wp = sram.wp /\ sram'.ring = sram.ring
  BY <1>4, AtWork DEF BoardShape
<1>6. From' = From /\ End' = End /\ LastSegment' = LastSegment
  BY SameSegment
<1>7. rp = Wrap(ld.rp + 1) /\ rp \in 0 .. RingLen - 1
  BY <1>1, RingNext, Zenon
<1>8. Behind(run.wp, rp) = Behind(run.wp, ld.rp) - 1
  BY <1>1, <1>3, <1>7, BehindMoves
<1>9. Behind(run.wp, ld.rp) = run.sent - (ld.at - From)
      /\ Behind(run.wp, ld.rp) <= Behind(run.wp, run.rp) /\ Behind(run.wp, run.rp) \in Nat
  BY <1>1, RingHolds DEF RingInv
<1>10. run'.sent - (ld'.at - From') = Behind(run.wp, ld.rp) - 1
  <2>1. run'.sent = run.sent /\ run.sent \in Int /\ From \in Int
    BY <1>1
  <2> HIDE DEF rp
  <2> QED
    BY <1>2, <1>5, <1>6, <1>9, <2>1
<1>11. ASSUME NEW d \in 0 .. run'.sent - (ld'.at - From') - 1
       PROVE  sram'.ring[Wrap(ld.rp + d)'] = buf'[ld'.at + d + 1]
  <2>1. d \in 0 .. Behind(run.wp, ld.rp) - 2 /\ d \in Int
    BY <1>2, <1>10
  <2>2. d + 1 \in 0 .. run.sent - (ld.at - From) - 1
    BY <1>2, <1>9, <2>1
  <2>3. sram.ring[Wrap(ld.rp + (d + 1))] = buf[ld.at + (d + 1) + 1]
    BY <1>1, <2>2 DEF RingInv
  <2>4. Behind(run.wp, ld.rp) \in 0 .. RingLen - 1
    BY <1>1, RingHolds
  <2>5. Wrap(rp + d) = Wrap(ld.rp + (d + 1))
    <3>1. d \in 0 .. RingLen - 2
      BY <2>1, <2>4, RingLenAssumption
    <3>2. Wrap(Wrap(ld.rp + 1) + d) = Wrap(ld.rp + (d + 1))
      BY <1>1, <3>1, WrapTwice
    <3> HIDE DEF rp
    <3> QED
      BY <1>7, <3>2, Zenon
  <2>6. Wrap(ld.rp + d)' = Wrap(rp + d)
    BY <1>5 DEF Wrap
  <2>7. ld'.at + d + 1 = ld.at + (d + 1) + 1
    BY <1>2, <1>5, <2>1
  <2> QED
    BY <1>5, <2>3, <2>5, <2>6, <2>7
<1>12. Behind(run.wp, ld.rp)' = Behind(run.wp, rp) /\ Behind(run.wp, run.rp)' = Behind(run.wp, run.rp)
  BY <1>5 DEF Behind
<1>13. ld'.at \in From' .. End' /\ ld'.left = End' - ld'.at
  <2>1. ld.left = End - ld.at /\ End \in Int /\ From \in Int
    BY <1>1 DEF RingInv
  <2> QED
    BY SMTT(30), <1>1, <1>2, <1>5, <1>6, <2>1
<1>14. Behind(run.wp, ld.rp)' <= Behind(run.wp, run.rp)'
  BY <1>2, <1>8, <1>9, <1>12
<1>15. /\ run'.sent <= End' - From'
       /\ run'.phase = "feed" <=> run'.sent < End' - From' /\ run'.phase # "halt"
       /\ sram'.wp \in {run'.wp, Zero}
       /\ run'.phase # "halt" => sram'.wp = run'.wp
  BY <1>1, <1>5, <1>6 DEF RingInv
<1>16. sram'.rp = IF ld'.bad THEN Zero ELSE ld'.rp
  BY <1>2, <1>5
<1> HIDE DEF rp
<1>17. RingInv'
  BY <1>8, <1>10, <1>11, <1>12, <1>13, <1>14, <1>15, <1>16 DEF RingInv
<1> QED
  BY <1>5, <1>6, <1>17

\* A page takes its data, or a cell of it does not.
LEMMA LoaderProgramsKeeps ==
  ASSUME JobInv, Busy, LoaderPrograms
  PROVE  JobProgress'
<1>1. /\ LoaderHas /\ core = "loader" /\ Advanced
      /\ UNCHANGED <<core, magic, locked, job, run, buf>>
      /\ \/ UNCHANGED <<flash, faults>> /\ sram.ring[ld.rp] = Blank
         \/ flash' = [flash EXCEPT ![ld.at] = sram.ring[ld.rp]] /\ UNCHANGED faults
         \/ flash' = [flash EXCEPT ![ld.at] = Torn] /\ faults' = faults + 1
  BY DEF LoaderPrograms, LoaderHas
<1>2. CASE job.step = "prepare"
  BY <1>1, <1>2, PrepareProgress
<1>3. CASE job.step = "program"
  <2>1. /\ ~ ld.bad /\ ~ locked /\ PagesInv /\ ld.at < End
        /\ ld.at \in 0 .. Len(buf) - 1 /\ ld.at \in 0 .. Pages - 1
        /\ sram.ring[ld.rp] = buf[ld.at + 1] /\ flash[ld.at] = Blank
        /\ Clean => run.phase # "halt"
    BY <1>1, <1>3, LoaderTakes
  <2>2. /\ RingInv' /\ From' = From /\ End' = End /\ LastSegment' = LastSegment
        /\ ld'.at = ld.at + 1 /\ ld'.bad = ld.bad /\ sram'.wp = sram.wp
    BY <1>1, <1>3, RingTaken
  <2>3. ProgrammingInv /\ job.seg \in 0 .. LastSegment /\ faults \in Int /\ job.since \in Int
        /\ job.since <= faults /\ Len(buf) \in 1 .. Pages
    BY <1>3, AtProgram, AtWork DEF JobProgress
  <2>4. \A p \in 0 .. Len(buf) - 1 : Reached(p)' <=> Reached(p) \/ p = ld.at
    <3> SUFFICES ASSUME NEW p \in 0 .. Len(buf) - 1
                 PROVE  Reached(p)' <=> Reached(p) \/ p = ld.at
      OBVIOUS
    <3>1. p \in Int /\ ld.at \in Int /\ job' = job
      BY <1>1, <2>1, <2>3, PagesAssumption
    <3>2. LastSegment = 1 /\ job.seg = 0 => 1 <= ld.at
      <4>1. LastSegment = 1 /\ job.seg = 0 => From = 1
        BY <1>3, <2>3, AtWork, SegmentFacts DEF From
      <4> QED
        BY <1>3, <3>1, <4>1, AtProgram
    <3> QED
      BY <2>2, <3>1, <3>2 DEF Reached
  <2>5. \A p \in 0 .. Len(buf) - 1 : p # ld.at => flash'[p] = flash[p]
    <3> SUFFICES ASSUME NEW p \in 0 .. Len(buf) - 1, p # ld.at PROVE flash'[p] = flash[p]
      OBVIOUS
    <3>1. p \in 0 .. Pages - 1 /\ flash = [q \in 0 .. Pages - 1 |-> flash[q]]
      BY <2>3, AtWork, PagesAssumption DEF BoardShape
    <3> QED
      BY <1>1, <3>1
  <2>6. DOMAIN flash = 0 .. Pages - 1
    BY AtWork DEF BoardShape
  <2>7. flash'[ld.at] \in {buf[ld.at + 1], Torn}
        /\ (faults' = faults => flash'[ld.at] = buf[ld.at + 1])
    <3>1. CASE UNCHANGED <<flash, faults>> /\ sram.ring[ld.rp] = Blank
      BY <2>1, <3>1
    <3>2. CASE flash' = [flash EXCEPT ![ld.at] = sram.ring[ld.rp]] /\ UNCHANGED faults
      <4>1. flash'[ld.at] = sram.ring[ld.rp]
        BY <2>1, <2>6, <3>2
      <4> QED
        BY <2>1, <4>1, Zenon
    <3>3. CASE flash' = [flash EXCEPT ![ld.at] = Torn] /\ faults' = faults + 1
      <4>1. flash'[ld.at] = Torn
        BY <2>1, <2>6, <3>3
      <4>2. faults' # faults
        BY <2>3, <3>3
      <4> QED
        BY <4>1, <4>2, Zenon
    <3> QED
      BY <1>1, <3>1, <3>2, <3>3
  <2>8. PagesInv'
    BY <1>1, <2>1, <2>4, <2>5, <2>7 DEF PagesInv
  <2>9. Clean' => Clean /\ faults' = faults
    BY <1>1, <2>3 DEF Clean
  <2>10. Clean' => \A p \in 0 .. Len(buf) - 1 : Reached(p)' => flash'[p] = buf[p + 1]
    BY <1>3, <2>3, <2>4, <2>5, <2>7, <2>9 DEF ProgrammingInv
  <2>11. ProgrammingInv'
    BY <1>1, <1>3, <2>1, <2>2, <2>3, <2>8, <2>9, <2>10 DEF ProgrammingInv
  <2> QED
    BY <1>1, <1>3, <2>11, StillPrograms
<1> QED
  BY <1>1, <1>2, <1>3, LoaderAt

\* With the board's core no longer or not yet in the loader, a run keeps what it had.
LEMMA RunsOn ==
  ASSUME UNCHANGED <<ld, run, buf, job>>, sram'.ring = sram.ring, sram'.wp = sram.wp,
         sram'.rp = sram.rp
  PROVE  RingInv' = RingInv /\ From' = From /\ End' = End /\ LastSegment' = LastSegment
<1>1. From' = From /\ End' = End /\ LastSegment' = LastSegment
  BY SameSegment
<1> QED
  BY <1>1 DEF RingInv, Behind, Wrap

\* An error bit ends the run: from a clean job's blank pages, only a cell that fails sets it.
LEMMA LoaderErrsKeeps ==
  ASSUME JobInv, Busy, LoaderErrs
  PROVE  JobProgress'
<1>1. /\ LoaderHas /\ core = "loader" /\ core' = "stopped"
      /\ (locked \/ flash[ld.at] # Blank) \/ faults' = faults + 1
      /\ faults' = faults \/ faults' = faults + 1
      /\ sram' = [sram EXCEPT !.rp = Zero]
      /\ ld' = [ld EXCEPT !.bad = TRUE]
      /\ UNCHANGED <<job, run, buf>>
  BY DEF LoaderErrs, LoaderHas
<1>2. CASE job.step = "prepare"
  BY <1>1, <1>2, PrepareProgress
<1>3. CASE job.step = "program"
  <2>1. ~ locked /\ flash[ld.at] = Blank /\ RingInv /\ ProgrammingInv /\ job.seg \in 0 .. LastSegment
    BY <1>1, <1>3, LoaderTakes, AtProgram
  <2>2. /\ sram'.wp = sram.wp /\ sram'.rp = Zero /\ sram'.ring = sram.ring
        /\ ld'.at = ld.at /\ ld'.left = ld.left /\ ld'.rp = ld.rp /\ ld'.bad
    BY <1>1, AtWork DEF BoardShape
  <2>3. From' = From /\ End' = End /\ LastSegment' = LastSegment
    BY <1>1, SameSegment
  <2>4. RingInv'
    BY <1>1, <2>1, <2>2, <2>3 DEF RingInv, Behind, Wrap
  <2>5. ~ Clean'
    <3>1. job.since <= faults /\ job.since \in Int /\ faults \in Int /\ faults' = faults + 1
      BY <1>1, <2>1, AtWork DEF JobProgress
    <3> QED
      BY <1>1, <3>1 DEF Clean
  <2>6. ProgrammingInv'
    BY <1>1, <1>3, <2>1, <2>2, <2>3, <2>4, <2>5 DEF ProgrammingInv
  <2> QED
    BY <1>1, <1>3, <2>6, StillPrograms
<1> QED
  BY <1>1, <1>2, <1>3, LoaderAt

LEMMA LoaderStopsKeeps ==
  ASSUME JobInv, Busy, LoaderStops
  PROVE  JobProgress'
<1>1. /\ core = "loader" /\ core' = "stopped"
      /\ ld.left = 0 \/ sram.wp = Zero \/ ld.bad
      /\ UNCHANGED <<flash, locked, sram, ld, job, run, buf, faults>>
  BY DEF LoaderStops
<1>2. CASE job.step = "prepare"
  BY <1>1, <1>2, PrepareProgress
<1>3. CASE job.step = "program"
  <2>1. ProgrammingInv
    BY <1>3, AtProgram
  <2>2. RingInv' = RingInv /\ From' = From /\ End' = End /\ LastSegment' = LastSegment
    BY <1>1, RunsOn
  <2>3. PagesInv' = PagesInv /\ \A p : Reached(p)' = Reached(p)
    BY <1>1, PagesStay
  <2>4. ProgrammingInv'
    BY <1>1, <1>3, <2>1, <2>2, <2>3 DEF ProgrammingInv, Clean
  <2> QED
    BY <1>1, <1>3, <2>4, StillPrograms
<1> QED
  BY <1>1, <1>2, <1>3, LoaderAt

LEMMA LoaderHangsKeeps ==
  ASSUME JobInv, Busy, LoaderHangs
  PROVE  JobProgress'
<1>1. /\ core = "loader" /\ core' = "hung" /\ faults' = faults + 1
      /\ UNCHANGED <<flash, locked, sram, ld, job, run, buf>>
  BY DEF LoaderHangs
<1>2. CASE job.step = "prepare"
  BY <1>1, <1>2, PrepareProgress
<1>3. CASE job.step = "program"
  <2>1. ProgrammingInv
    BY <1>3, AtProgram
  <2>2. RingInv' = RingInv /\ From' = From /\ End' = End /\ LastSegment' = LastSegment
    BY <1>1, RunsOn
  <2>3. PagesInv' = PagesInv /\ \A p : Reached(p)' = Reached(p)
    BY <1>1, PagesStay
  <2>4. ~ Clean'
    <3>1. job.since <= faults /\ job.since \in Int /\ faults \in Int
      BY AtWork DEF JobProgress
    <3> QED
      BY <1>1, <3>1 DEF Clean
  <2>5. ProgrammingInv'
    BY <1>1, <1>3, <2>1, <2>2, <2>3, <2>4 DEF ProgrammingInv
  <2> QED
    BY <1>1, <1>3, <2>5, StillPrograms
<1> QED
  BY <1>1, <1>2, <1>3, LoaderAt

\* A header is written by a firmware that came up.
LEMMA BoardBootsKeeps ==
  ASSUME JobInv, Busy, BoardBoots
  PROVE  JobProgress'
<1>1. CanBoot /\ UNCHANGED <<flash, core, locked, sram, ld, job, run, buf, faults>>
  BY DEF BoardBoots
<1>2. JobProgress
  BY AtWork
<1>3. ErasingInv' /\ LoadingInv' /\ VerifyingInv'
  BY <1>1, <1>2 DEF JobProgress, ErasingInv, LoadingInv, VerifyingInv, ErasedSoFar, HoldsUpTo, PageAt,
                    Clean
<1>4. RingInv' = RingInv /\ From' = From /\ End' = End /\ LastSegment' = LastSegment
  BY <1>1, RunsOn
<1>5. PagesInv' = PagesInv /\ \A p : Reached(p)' = Reached(p)
  BY <1>1, PagesStay
<1>6. ProgrammingInv'
  BY <1>1, <1>2, <1>4, <1>5 DEF JobProgress, ProgrammingInv, Clean
<1>7. CanBoot'
  BY <1>1 DEF CanBoot
<1>8. BootingInv'
  BY <1>1, <1>2, <1>7 DEF JobProgress, BootingInv, HoldsUpTo
<1> QED
  BY <1>1, <1>2, <1>3, <1>6, <1>8 DEF JobProgress

\* A reset under the job is a failure, and no page goes with it.
LEMMA BoardResetsKeeps ==
  ASSUME JobInv, Busy, BoardResets
  PROVE  JobProgress'
<1>1. /\ core' = "fw" /\ magic' = FALSE /\ faults' = faults + 1
      /\ UNCHANGED <<flash, sram, ld, job, run, buf>>
  BY DEF BoardResets
<1>2. JobProgress /\ job.since \in Int /\ faults \in Int /\ job.since <= faults
  BY AtWork DEF JobProgress
<1>3. ~ Clean' /\ job'.since <= faults'
  BY <1>1, <1>2 DEF Clean
<1>4. RingInv' = RingInv /\ From' = From /\ End' = End /\ LastSegment' = LastSegment
  BY <1>1, RunsOn
<1>5. ErasingInv' /\ LoadingInv'
  BY <1>1, <1>2, <1>3 DEF JobProgress, ErasingInv, LoadingInv
<1>6. ProgrammingInv'
  BY <1>1, <1>2, <1>3, <1>4 DEF JobProgress, ProgrammingInv
<1>7. VerifyingInv' /\ BootingInv'
  BY <1>1, <1>2, <1>3 DEF JobProgress, VerifyingInv, BootingInv, HoldsUpTo
<1> QED
  BY <1>3, <1>5, <1>6, <1>7 DEF JobProgress

LEMMA BoardProgress ==
  ASSUME JobInv, Busy, Board
  PROVE  JobProgress'
BY LoaderProgramsKeeps, LoaderErrsKeeps, LoaderStopsKeeps, LoaderHangsKeeps, BoardBootsKeeps,
   BoardResetsKeeps DEF Board, Loader

-----------------------------------------------------------------------------
(* The shape of the board and of the buffer, and who owns what. *)

LEMMA BlankCell == Blank \in Cell /\ \A m \in Images, p \in Nat : <<m, p>> \in Cell
BY DEF Cell

\* The loader runs and the rest of the board keep their types.
LEMMA BoardShapeKept ==
  ASSUME BoardShape, UNCHANGED <<sram, run, ld>>,
         flash' \in MassErased \cup {flash}
  PROVE  BoardShape'
BY DEF BoardShape, MassErased

LEMMA AdvanceShape ==
  ASSUME JobInv, Busy, Advance
  PROVE  BoardShape'
<1>1. BoardShape /\ BufferShape /\ job \in Jobs /\ buf # <<>>
  BY AtWork
<1>2. CASE UNCHANGED <<flash, sram, run, ld>>
  BY <1>1, <1>2 DEF BoardShape
<1>3. CASE Erase
  <2>1. flash' = flash \/ flash' = [flash EXCEPT ![PageAt(job.at)] = Blank]
    BY <1>3, Zenon DEF Erase
  <2>2. flash = [p \in 0 .. Pages - 1 |-> flash[p]]
    BY <1>1 DEF BoardShape
  <2>3. flash' = [p \in 0 .. Pages - 1 |-> flash'[p]]
    BY <2>1, <2>2
  <2>4. UNCHANGED <<sram, run, ld>>
    BY <1>3 DEF Erase
  <2> QED
    BY <1>1, <2>3, <2>4 DEF BoardShape
<1>4. ASSUME NEW k \in 0 .. LastSegment, StartSegment(k), UNCHANGED flash
      PROVE  BoardShape'
  <2>1. SegmentFrom(k) \in Int /\ SegmentTo(k) \in Int
    <3>1. SegmentFrom(k) \in 0 .. 1 /\ SegmentTo(k) \in 1 .. Len(buf)
      BY <1>1, SegmentFacts
    <3> QED
      BY <3>1
  <2>2. 0 \in 0 .. RingLen - 1 /\ 0 \in -1 .. RingLen - 1
    BY RingLenAssumption
  <2>3. ld' \in [at : Int, left : Int, rp : 0 .. RingLen - 1, bad : BOOLEAN]
    BY <1>4, <2>1, <2>2 DEF StartSegment
  <2>4. run' \in [sent : Nat, wp : 0 .. RingLen - 1, rp : 0 .. RingLen - 1,
                  phase : {"feed", "drain", "halt"}]
    BY <1>4, <2>2 DEF StartSegment
  <2>5. sram' = [sram EXCEPT !.wp = 0, !.rp = 0]
    BY <1>4 DEF StartSegment
  <2>6. sram' \in [wp : -1 .. RingLen - 1, rp : -1 .. RingLen - 1, ring : [0 .. RingLen - 1 -> Cell]]
    BY <1>1, <2>2, <2>5 DEF BoardShape
  <2> QED
    BY <1>1, <1>4, <2>3, <2>4, <2>6 DEF BoardShape
<1>5. CASE Load
  <2>1. 0 \in 0 .. LastSegment
    BY DEF LastSegment
  <2> QED
    BY <1>4, <1>5, <2>1 DEF Load
<1>6. CASE NextSegment
  <2>1. job.seg \in 0 .. LastSegment /\ job.seg < LastSegment
    BY <1>6, AtProgram DEF NextSegment, InPhase
  <2>2. job.seg + 1 \in 0 .. LastSegment
    BY <2>1 DEF LastSegment
  <2> QED
    BY <1>4, <1>6, <2>2 DEF NextSegment
<1>7. CASE Feed
  <2>1. /\ job.step = "program" /\ run.phase = "feed" /\ CanFeed
        /\ sram' = [sram EXCEPT !.ring[run.wp] = buf[From + run.sent + 1],
                                !.wp = (run.wp + 1) % RingLen]
        /\ run' = [sent |-> run.sent + 1, wp |-> (run.wp + 1) % RingLen,
                   rp |-> IF Full(run.rp) THEN sram.rp ELSE run.rp,
                   phase |-> IF run.sent + 1 = End - From THEN "drain" ELSE "feed"]
        /\ UNCHANGED <<flash, ld>>
    BY <1>7 DEF Feed, InPhase, From, End
  <2>2. /\ RingInv /\ From \in 0 .. 1 /\ End \in 1 .. Len(buf) /\ From < End
        /\ ld.at \in From .. End /\ run.sent \in Nat
        /\ run.wp \in 0 .. RingLen - 1 /\ run.rp \in 0 .. RingLen - 1 /\ ld.rp \in 0 .. RingLen - 1
    BY <2>1, AtProgram
  <2>3. (run.wp + 1) % RingLen \in 0 .. RingLen - 1
    BY <2>2, RingNext
  <2>4. Full(run.rp) => sram.rp \in 0 .. RingLen - 1
    BY <2>1, <2>2 DEF CanFeed, RingInv
  <2>5. buf[From + run.sent + 1] \in Cell
    <3>1. run.sent < End - From
      BY <2>1, <2>2 DEF RingInv
    <3>2. From + run.sent + 1 \in 1 .. Len(buf)
      BY <2>2, <3>1
    <3> QED
      BY <1>1, <3>2, BufferFacts
  <2>6. (IF Full(run.rp) THEN sram.rp ELSE run.rp) \in 0 .. RingLen - 1
    BY <2>2, <2>4
  <2>7. run' \in [sent : Nat, wp : 0 .. RingLen - 1, rp : 0 .. RingLen - 1,
                  phase : {"feed", "drain", "halt"}]
    BY <2>1, <2>2, <2>3, <2>6
  <2>8. sram' \in [wp : -1 .. RingLen - 1, rp : -1 .. RingLen - 1, ring : [0 .. RingLen - 1 -> Cell]]
    <3>1. (run.wp + 1) % RingLen \in -1 .. RingLen - 1
      BY <2>3, RingLenAssumption
    <3> QED
      BY <1>1, <2>1, <2>2, <2>5, <3>1 DEF BoardShape
  <2> QED
    BY <1>1, <2>1, <2>7, <2>8 DEF BoardShape
<1>8. CASE SeesError
  BY <1>1, <1>8 DEF SeesError, BoardShape, board
<1>9. CASE Drained
  <2>1. /\ sram' = [sram EXCEPT !.wp = Zero] /\ run' = [run EXCEPT !.phase = "halt", !.rp = sram.rp]
        /\ sram.rp = run.wp /\ UNCHANGED <<flash, ld>>
    BY <1>9 DEF Drained
  <2>2. Zero \in -1 .. RingLen - 1
    BY RingLenAssumption DEF Zero
  <2> QED
    BY <1>1, <2>1, <2>2 DEF BoardShape
<1> QED
  BY <1>2, <1>3, <1>5, <1>6, <1>7, <1>8, <1>9 DEF Advance, Prepare, Programmed, Verify, Restart, board

LEMMA BoardStepShape ==
  ASSUME BoardShape, Board
  PROVE  BoardShape'
<1>1. CASE UNCHANGED <<flash, sram, run, ld>>
  BY <1>1 DEF BoardShape
<1>2. CASE LoaderPrograms \/ LoaderErrs
  <2>1. (LoaderPrograms => Advanced) /\ run' = run
    BY <1>2 DEF LoaderPrograms, LoaderErrs
  <2>2. \E u : flash' = flash \/ flash' = [flash EXCEPT ![ld.at] = u]
    BY <1>2 DEF LoaderPrograms, LoaderErrs
  <2>3. flash = [p \in 0 .. Pages - 1 |-> flash[p]]
    BY DEF BoardShape
  <2>4. flash' = [p \in 0 .. Pages - 1 |-> flash'[p]]
    BY <2>2, <2>3
  <2>5. (ld.rp + 1) % RingLen \in 0 .. RingLen - 1 /\ (ld.rp + 1) % RingLen \in -1 .. RingLen - 1
    <3>1. (ld.rp + 1) % RingLen \in 0 .. RingLen - 1
      BY RingNext DEF BoardShape
    <3> QED
      BY <3>1, RingLenAssumption
  <2>6. ld.at + 1 \in Int /\ ld.left - 1 \in Int /\ Zero \in -1 .. RingLen - 1
    BY RingLenAssumption DEF BoardShape, Zero
  <2>7. ld' \in [at : Int, left : Int, rp : 0 .. RingLen - 1, bad : BOOLEAN]
    BY <1>2, <2>1, <2>5, <2>6 DEF BoardShape, Advanced, LoaderErrs
  <2>8. sram' \in [wp : -1 .. RingLen - 1, rp : -1 .. RingLen - 1, ring : [0 .. RingLen - 1 -> Cell]]
    BY <1>2, <2>1, <2>5, <2>6 DEF BoardShape, Advanced, LoaderErrs
  <2> QED
    BY <2>1, <2>4, <2>7, <2>8 DEF BoardShape
<1> QED
  BY <1>1, <1>2 DEF Board, Loader, LoaderStops, LoaderHangs, BoardBoots, BoardResets

\* A transfer that begins has a blank buffer of its image's size.
LEMMA FlashBeginOwners ==
  ASSUME JobInv, NEW m \in Images, FlashBegin(m)
  PROVE  BufferShape' /\ Owners' /\ ~ Busy'
<1>1. /\ ~ Busy /\ load # "collecting" /\ load # "flashing"
      /\ buf' = [k \in 1 .. Size[m] |-> Blank] /\ sha' = m /\ status' = "none"
      /\ UNCHANGED <<job, load, held>>
  BY DEF FlashBegin, GdbOwnsImage
<1>2. Size[m] \in 1 .. Pages
  BY SizeAssumption
<1>3. buf' \in Seq(Cell) /\ Len(buf') = Size[m]
  BY <1>1, <1>2, BlankCell, FunctionIsSeq, PagesAssumption
<1>4. buf' # <<>>
  BY <1>2, <1>3, EmptySeq, PagesAssumption
<1> QED
  BY <1>1, <1>2, <1>3, <1>4, PagesAssumption DEF BufferShape, Owners, Busy

\* A chunk goes in its place; the last one starts the job or empties the buffer.
LEMMA FlashChunkOwners ==
  ASSUME JobInv, NEW m \in Images, NEW p \in Nat, FlashChunk(m, p)
  PROVE  BufferShape' /\ Owners' /\ (Busy' => job' = NewJob("boot") /\ faults' = faults)
<1> DEFINE now == [buf EXCEPT ![p + 1] = <<m, p>>]
<1>1. /\ buf # <<>> /\ ~ Busy /\ load # "collecting" /\ load # "flashing" /\ p < Len(buf)
      /\ \/ buf' = now /\ UNCHANGED <<job, status>>
         \/ buf' = now /\ job' = NewJob("boot") /\ status' = "receiving"
         \/ buf' = <<>> /\ status' = "failed" /\ UNCHANGED job
      /\ UNCHANGED <<sha, load, held, faults>>
  BY DEF FlashChunk, TakesChunk, GdbOwnsImage
<1>2. BufferShape /\ Owners /\ JobShape
  BY DEF JobInv, BufferInv
<1>3. buf \in Seq(Cell) /\ Len(buf) \in 0 .. Pages /\ DOMAIN buf = 1 .. Len(buf)
  BY <1>2, BufferFacts DEF BufferShape
<1>4. <<m, p>> \in Cell
  BY BlankCell
<1>5. p + 1 \in 1 .. Len(buf)
  BY <1>1, <1>3
<1>6. now \in Seq(Cell) /\ Len(now) = Len(buf)
  BY <1>3, <1>4, <1>5, ExceptSeq
<1>7. now # <<>>
  BY <1>3, <1>5, <1>6, EmptySeq
<1>8. sha \in Images /\ status # "receiving"
  BY <1>1, <1>2 DEF Owners
<1>9. BufferShape'
  <2>1. <<>> \in Seq(Cell) /\ Len(<<>>) = 0
    BY EmptySeq
  <2> HIDE DEF now
  <2>2. buf' = now \/ buf' = <<>>
    BY <1>1, Zenon
  <2>3. Len(now) <= Pages /\ 0 <= Pages
    BY <1>3, <1>6, PagesAssumption
  <2>4. buf' \in Seq(Cell) /\ Len(buf') <= Pages
    BY <1>6, <2>1, <2>2, <2>3, Zenon
  <2>5. Busy' \/ load' = "collecting" => buf' # <<>>
    BY <1>1, <1>7 DEF Busy
  <2> QED
    BY <2>4, <2>5 DEF BufferShape
<1>10. NewJob("boot").finish = "boot" /\ NewJob("boot") # NoJob
  <2>1. NewJob("boot") \in Jobs /\ NewJob("boot").finish = "boot"
    BY <1>2, NewJobShape
  <2> QED
    BY <2>1, JobIsBusy
<1>11. Owners'
  <2> HIDE DEF now
  <2>1. CASE buf' = now /\ UNCHANGED <<job, status>>
    BY <1>1, <1>2, <1>8, <2>1 DEF Owners, Busy
  <2>2. CASE buf' = now /\ job' = NewJob("boot") /\ status' = "receiving"
    BY <1>1, <1>2, <1>8, <1>10, <2>2 DEF Owners, Busy
  <2>3. CASE buf' = <<>> /\ status' = "failed" /\ UNCHANGED job
    BY <1>1, <1>2, <1>8, <2>3 DEF Owners, Busy
  <2> QED
    BY <1>1, <2>1, <2>2, <2>3
<1>12. Busy' => job' = NewJob("boot")
  BY <1>1 DEF Busy
<1> QED
  BY <1>1, <1>9, <1>11, <1>12

\* A load takes the buffer; it grows to the end of what was written.
LEMMA GdbWriteOwners ==
  ASSUME JobInv, NEW p \in 0 .. Size[GdbImage] - 1, GdbWrite(p)
  PROVE  BufferShape' /\ Owners' /\ ~ Busy'
<1> DEFINE image == IF load = "collecting" THEN buf ELSE <<>>
           len == IF p < Len(image) THEN Len(image) ELSE p + 1
<1>1. /\ ~ Busy /\ ~ held /\ load' = "collecting"
      /\ buf' = [k \in 1 .. len |-> IF k = p + 1 THEN <<GdbImage, p>>
                                    ELSE IF k <= Len(image) THEN image[k] ELSE Blank]
      /\ UNCHANGED <<job, held, status, sha>>
  BY DEF GdbWrite, Packet
<1>2. BufferShape /\ Owners
  BY DEF JobInv
<1>3. p \in Nat /\ p + 1 <= Pages /\ Pages \in Nat
  <2>1. Size[GdbImage] \in 1 .. Pages
    BY SizeAssumption, GdbImageAssumption
  <2> QED
    BY <2>1, PagesAssumption
<1>4. image \in Seq(Cell) /\ Len(image) \in 0 .. Pages
  BY <1>2, <1>3, BufferFacts, EmptySeq DEF BufferShape
<1>5. \A k \in 1 .. Len(image) : image[k] \in Cell
  BY <1>4, ElementOfSeq
<1> HIDE DEF image
<1>6. len \in Nat \ {0} /\ len <= Pages
  BY <1>3, <1>4
<1>7. \A k \in 1 .. len : (IF k = p + 1 THEN <<GdbImage, p>>
                           ELSE IF k <= Len(image) THEN image[k] ELSE Blank) \in Cell
  <2>1. \A k \in 1 .. len : k \in Nat \ {0}
    BY <1>6
  <2>2. \A k \in Nat \ {0} : k <= Len(image) => k \in 1 .. Len(image)
    BY <1>4
  <2> QED
    BY <1>3, <1>5, <2>1, <2>2, BlankCell, GdbImageAssumption
<1> HIDE DEF len
<1>8. buf' \in [1 .. len -> Cell]
  BY <1>1, <1>7
<1>9. buf' \in Seq(Cell) /\ Len(buf') = len
  BY <1>6, <1>8, FunctionIsSeq
<1>10. buf' # <<>>
  BY <1>6, <1>9, EmptySeq
<1> QED
  BY <1>1, <1>2, <1>6, <1>9, <1>10 DEF BufferShape, Owners, Busy

\* A step that leaves the board, the job and the buffer alone leaves the job as far as it was.
LEMMA OwnersAlone ==
  ASSUME JobInv, UNCHANGED <<job, buf, sha, load, held, status>>
  PROVE  BufferShape' /\ Owners'
BY DEF JobInv, BufferShape, Owners, Busy

LEMMA GdbOwners ==
  ASSUME JobInv, Gdb
  PROVE  /\ BufferShape' /\ Owners' /\ UNCHANGED <<flash, sram, run, ld, faults>>
         /\ \/ ~ Busy'
            \/ job' = NewJob("halt")
            \/ Busy /\ UNCHANGED flashVars
<1>1. /\ BufferShape /\ Owners /\ NoJobWhileCollecting /\ JobShape
  BY DEF JobInv, BufferInv
<1>2. CASE GdbOpen
  <2>1. /\ UNCHANGED <<flash, magic, locked, sram, ld, job, run, buf, faults, sha, load, status>>
        /\ held' = FALSE /\ (Busy => core' = core)
    BY <1>2 DEF GdbOpen
  <2>2. BufferShape' /\ Owners'
    BY <1>1, <2>1 DEF BufferShape, Owners, Busy
  <2> QED
    BY <2>1, <2>2 DEF flashVars, board, Busy
<1>3. CASE GdbClose
  <2>1. /\ UNCHANGED <<flash, magic, locked, sram, ld, job, run, faults, sha, status>>
        /\ held' = FALSE /\ (Busy => core' = core)
        /\ buf' = IF load = "collecting" THEN <<>> ELSE buf
        /\ load' = IF load = "flashing" THEN load ELSE "idle"
    BY <1>3 DEF GdbClose
  <2>2. CASE load = "collecting"
    <3>1. ~ Busy
      BY <1>1, <2>2 DEF NoJobWhileCollecting
    <3>2. buf' = <<>> /\ load' = "idle" /\ <<>> \in Seq(Cell) /\ Len(<<>>) = 0 /\ 0 <= Pages
      BY <2>1, <2>2, EmptySeq, PagesAssumption
    <3>3. BufferShape'
      BY <2>1, <3>1, <3>2 DEF BufferShape, Busy
    <3> QED
      BY <1>1, <2>1, <3>1, <3>2, <3>3 DEF Owners, Busy
  <2>3. CASE load # "collecting"
    <3>1. buf' = buf /\ load' # "collecting"
      BY <2>1, <2>3
    <3>2. BufferShape' /\ Owners'
      BY <1>1, <2>1, <2>3, <3>1 DEF BufferShape, Owners, Busy
    <3> QED
      BY <2>1, <3>1, <3>2 DEF flashVars, board, Busy
  <2> QED
    BY <2>2, <2>3
<1>4. CASE GdbDone
  <2>1. UNCHANGED <<board, run, buf, faults, sha, status>> /\ held' = TRUE
    BY <1>4 DEF GdbDone
  <2>2. CASE load = "collecting" /\ job' = NewJob("halt") /\ load' = "flashing"
    <3>1. NewJob("halt") \in Jobs /\ NewJob("halt").finish = "halt" /\ NewJob("halt") # NoJob
      BY <1>1, NewJobShape, JobIsBusy
    <3>2. buf # <<>> /\ status # "receiving"
      BY <1>1, <2>2 DEF BufferShape, Owners, NoJobWhileCollecting
    <3> QED
      BY <1>1, <2>1, <2>2, <3>1, <3>2 DEF BufferShape, Owners, Busy, board
  <2>3. CASE load # "collecting" /\ load' = "ok" /\ UNCHANGED job
    <3>1. BufferShape' /\ Owners'
      BY <1>1, <2>1, <2>3 DEF BufferShape, Owners, Busy
    <3> QED
      BY <2>1, <2>3, <3>1 DEF flashVars, board, Busy
  <2> QED
    BY <1>4, <2>2, <2>3 DEF GdbDone
<1>5. CASE GdbResult
  <2>1. UNCHANGED <<flashVars, sha, status>> /\ held' = FALSE /\ load' = "idle" /\ held
        /\ load # "flashing"
    BY <1>5 DEF GdbResult
  <2>2. BufferShape' /\ Owners'
    BY <1>1, <2>1 DEF BufferShape, Owners, Busy, flashVars
  <2> QED
    BY <2>1, <2>2 DEF flashVars, board, Busy
<1>6. CASE GdbContinue
  <2>1. /\ UNCHANGED <<flash, magic, locked, sram, ld, job, run, buf, faults, sha, load, held, status>>
        /\ (Busy => core' = core)
    BY <1>6 DEF GdbContinue
  <2> QED
    BY <2>1, OwnersAlone DEF flashVars, board, Busy
<1>7. CASE GdbStops
  <2>1. /\ UNCHANGED <<flash, magic, locked, sram, ld, job, run, buf, faults, sha, load, held, status>>
        /\ ~ Busy
    BY <1>7 DEF GdbStops
  <2> QED
    BY <2>1, OwnersAlone DEF Busy
<1>8. CASE \E p \in 0 .. Size[GdbImage] - 1 : GdbWrite(p)
  BY <1>8, GdbWriteOwners DEF GdbWrite, board
<1> QED
  BY <1>2, <1>3, <1>4, <1>5, <1>6, <1>7, <1>8 DEF Gdb

\* A control reaches no job.
LEMMA ControlsOwners ==
  ASSUME JobInv, Controls
  PROVE  BufferShape' /\ Owners' /\ BoardShape' /\ ~ Busy'
<1>1. UNCHANGED <<sram, ld, job, run, buf, sha, load, held, status>> /\ ~ Busy
  BY DEF Controls, TargetCtrl, StoreErase, ClearProtection, Monitor, Control
<1>2. flash' \in MassErased \cup {flash}
  BY DEF Controls, TargetCtrl, StoreErase, ClearProtection, Monitor, Resets, ResetsToHalt,
         ErasesStore, ClearsProtection, ControlFails, RestartFails, MassErased
<1>3. BoardShape'
  BY <1>1, <1>2, BoardShapeKept DEF JobInv
<1> QED
  BY <1>1, <1>3, OwnersAlone DEF Busy

\* The end of a job empties the buffer and tells the one who waits.
LEMMA EndOwners ==
  ASSUME JobInv, Busy, NEW ok \in BOOLEAN, JobEnds(ok), UNCHANGED <<sha, held>>
  PROVE  BufferShape' /\ Owners' /\ ~ Busy'
<1>1. /\ job' = NoJob /\ buf' = <<>>
      /\ \/ load = "flashing" /\ load' \in {"ok", "failed"} /\ UNCHANGED status
         \/ load # "flashing" /\ status' \in {"booted", "failed"} /\ UNCHANGED load
  BY DEF JobEnds
<1>2. Owners /\ load # "collecting"
  BY DEF JobInv, BufferInv, NoJobWhileCollecting
<1>3. <<>> \in Seq(Cell) /\ Len(<<>>) = 0 /\ 0 <= Pages
  BY EmptySeq, PagesAssumption
<1>4. load' # "collecting"
  BY <1>1, <1>2
<1>5. BufferShape'
  BY <1>1, <1>3, <1>4 DEF BufferShape, Busy
<1>6. Owners'
  BY <1>1, <1>2, <1>4 DEF Owners, Busy
<1> QED
  BY <1>1, <1>5, <1>6 DEF Busy

\* A job that ends is one.
LEMMA EndsAreBusy == (Succeeds \/ Fails) => Busy
<1>1. NoJob.step # "verify" /\ NoJob.step # "boot"
  BY DEF NoJob
<1>2. Succeeds => job.step \in {"verify", "boot"}
  BY DEF Succeeds
<1>3. Succeeds => job # NoJob
  BY <1>1, <1>2
<1>4. Fails => job # NoJob
  BY DEF Fails
<1> QED
  BY <1>3, <1>4 DEF Busy

LEMMA PollOwners ==
  ASSUME JobInv, Poll
  PROVE  BufferShape' /\ Owners' /\ BoardShape' /\ Busy /\ (Busy' => JobProgress')
<1>1. JobShape /\ BoardShape /\ Owners /\ BufferShape
  BY DEF JobInv, BufferInv
<1>2. CASE JobAdvances
  <2>1. Advance /\ UNCHANGED <<sha, load, held, status>>
    BY <1>2 DEF JobAdvances, serviceVars
  <2>2. job \in Jobs /\ job' \in Jobs /\ job'.finish = job.finish /\ UNCHANGED <<buf, faults>>
    BY <1>1, <2>1, AdvanceKeeps
  <2>3. Busy /\ Busy'
    BY <2>2, JobIsBusy DEF Busy
  <2>4. BufferShape' /\ Owners'
    BY <1>1, <2>1, <2>2, <2>3 DEF BufferShape, Owners, Busy
  <2> QED
    BY <2>1, <2>3, <2>4, AdvanceShape, AdvanceProgress
<1>3. CASE JobSucceeds
  <2>1. Succeeds /\ JobEnds(TRUE) /\ UNCHANGED <<sha, held>>
    BY <1>3 DEF JobSucceeds
  <2>2. UNCHANGED <<flash, sram, ld, run>>
    BY <2>1 DEF Succeeds, board
  <2>3. BoardShape'
    BY <1>1, <2>2 DEF BoardShape
  <2> QED
    BY <2>1, <2>3, EndsAreBusy, EndOwners
<1>4. CASE JobFails
  <2>1. Fails /\ JobEnds(FALSE) /\ UNCHANGED <<sha, held>>
    BY <1>4 DEF JobFails
  <2>2. UNCHANGED <<sram, ld, run>>
    BY <2>1 DEF Fails
  <2>3. flash' = flash \/ flash' = [flash EXCEPT ![PageAt(job.at)] = Torn]
    BY <2>1 DEF Fails, PartOfPiece
  <2>4. flash = [p \in 0 .. Pages - 1 |-> flash[p]]
    BY <1>1 DEF BoardShape
  <2>5. flash' = [p \in 0 .. Pages - 1 |-> flash'[p]]
    BY <2>3, <2>4
  <2>6. BoardShape'
    BY <1>1, <2>2, <2>5 DEF BoardShape
  <2> QED
    BY <2>1, <2>6, EndsAreBusy, EndOwners
<1> QED
  BY <1>2, <1>3, <1>4 DEF Poll

\* A step beside the board and the transfers.
LEMMA ElsewhereKeeps ==
  ASSUME JobInv, UNCHANGED <<flashVars, serviceVars>>
  PROVE  JobInv'
<1>1. UNCHANGED <<sram, run, ld, flash, job, buf, faults, sha, load, held, status>>
  BY DEF flashVars, serviceVars, board
<1>2. BufferInv'
  <2>1. faults' \in Int
    BY <1>1 DEF JobInv, BufferInv, JobShape
  <2> QED
    BY <1>1, <2>1, BufferAlone DEF JobInv
<1>3. BufferShape' /\ Owners'
  BY <1>1, OwnersAlone
<1>4. BoardShape'
  BY <1>1 DEF JobInv, BoardShape
<1>5. Busy' => JobProgress'
  BY <1>1, ProgressKept DEF JobInv, Busy
<1> QED
  BY <1>2, <1>3, <1>4, <1>5 DEF JobInv

\* Every step keeps the job's invariant.
LEMMA JobStep == ASSUME JobInv, [Next]_vars PROVE JobInv'
<1>1. BufferInv' /\ BufferInv /\ BoardShape /\ faults \in Int /\ JobShape
  BY BufferStep DEF JobInv, BufferInv, JobShape
<1>2. ASSUME NEW m \in Images, FlashBegin(m) PROVE JobInv'
  <2>1. BufferShape' /\ Owners' /\ ~ Busy'
    BY <1>2, FlashBeginOwners
  <2>2. BoardShape'
    BY <1>1, <1>2 DEF FlashBegin, board, BoardShape
  <2> QED
    BY <1>1, <2>1, <2>2 DEF JobInv
<1>3. ASSUME NEW m \in Images, NEW p \in 0 .. Size[m] - 1, FlashChunk(m, p) PROVE JobInv'
  <2>1. p \in Nat
    BY SizeAssumption
  <2>2. BufferShape' /\ Owners' /\ (Busy' => job' = NewJob("boot") /\ faults' = faults)
    BY <1>3, <2>1, FlashChunkOwners
  <2>3. BoardShape'
    BY <1>1, <1>3 DEF FlashChunk, board, BoardShape
  <2>4. Busy' => JobProgress'
    BY <1>1, <2>2, BeginsProgress DEF NewJob
  <2> QED
    BY <1>1, <2>2, <2>3, <2>4 DEF JobInv
<1>4. CASE Gdb
  <2>1. /\ BufferShape' /\ Owners' /\ UNCHANGED <<flash, sram, run, ld, faults>>
        /\ ~ Busy' \/ job' = NewJob("halt") \/ (Busy /\ UNCHANGED flashVars)
    BY <1>4, GdbOwners
  <2>2. BoardShape'
    BY <1>1, <2>1 DEF BoardShape
  <2>3. job' = NewJob("halt") => JobProgress'
    BY <1>1, <2>1, BeginsProgress DEF NewJob
  <2>4. Busy /\ UNCHANGED flashVars => JobProgress'
    BY ProgressKept DEF JobInv
  <2> QED
    BY <1>1, <2>1, <2>2, <2>3, <2>4 DEF JobInv
<1>5. CASE Controls
  BY <1>1, <1>5, ControlsOwners DEF JobInv
<1>6. CASE Poll
  BY <1>1, <1>6, PollOwners DEF JobInv
<1>7. CASE UNCHANGED <<flashVars, serviceVars>>
  BY <1>7, ElsewhereKeeps
<1>8. CASE Board /\ UNCHANGED <<updateVars, serviceVars, boundVars>>
  <2>1. UNCHANGED <<job, buf>>
    BY <1>8 DEF Board, Loader, LoaderPrograms, LoaderErrs, LoaderStops, LoaderHangs, BoardBoots,
                BoardResets
  <2>2. BufferShape' /\ Owners'
    BY <1>8, <2>1, OwnersAlone DEF serviceVars
  <2>3. BoardShape'
    BY <1>1, <1>8, BoardStepShape
  <2>4. Busy' => JobProgress'
    BY <1>8, <2>1, BoardProgress DEF Busy
  <2> QED
    BY <1>1, <2>2, <2>3, <2>4 DEF JobInv
<1>9. CASE BridgeResets
  <2>1. /\ job' = NoJob /\ buf' = <<>> /\ status' = "none" /\ load' = "idle" /\ held' = FALSE
        /\ UNCHANGED <<board, run>>
    BY <1>9 DEF BridgeResets
  <2>2. <<>> \in Seq(Cell) /\ Len(<<>>) = 0 /\ 0 <= Pages
    BY EmptySeq, PagesAssumption
  <2>3. BufferShape' /\ Owners' /\ ~ Busy'
    BY <2>1, <2>2 DEF BufferShape, Owners, Busy
  <2>4. BoardShape'
    BY <1>1, <2>1 DEF BoardShape, board
  <2> QED
    BY <1>1, <2>3, <2>4 DEF JobInv
<1>10. ASSUME NEW u \in Builds, NEW version \in BOOLEAN, AskUpdate(u, version) PROVE JobInv'
  BY <1>7, <1>10 DEF AskUpdate
<1>11. ASSUME NEW u \in Builds, NEW i \in Int, OfferUpdate(u, i) PROVE JobInv'
  BY <1>7, <1>11 DEF OfferUpdate
<1>12. CASE Idle BY <1>7, <1>12 DEF Idle
<1>13. CASE UNCHANGED vars BY <1>7, <1>13 DEF vars
<1> QED
  BY <1>2, <1>3, <1>4, <1>5, <1>6, <1>8, <1>9, <1>10, <1>11, <1>12, <1>13, BuildAssumption DEF Next

LEMMA JobInvInit == Init => JobInv
<1> SUFFICES ASSUME Init PROVE JobInv
  OBVIOUS
<1>1. /\ FlashInit /\ sha = NoImage /\ load = "idle" /\ held = FALSE /\ status = "none"
  BY DEF Init
<1>2. job = NoJob /\ buf = <<>> /\ faults = 0
  BY <1>1 DEF FlashInit
<1>3. BufferInv
  BY <1>1, <1>2 DEF BufferInv, JobShape, NoJobWhileCollecting, ProgramsPromised, Busy
<1>4. BufferShape
  <2>1. <<>> \in Seq(Cell) /\ Len(<<>>) = 0 /\ 0 <= Pages
    BY EmptySeq, PagesAssumption
  <2> QED
    BY <1>1, <1>2, <2>1 DEF BufferShape, Busy
<1>5. Owners
  BY <1>1, <1>2 DEF Owners, Busy
<1>6. BoardShape
  <2>1. 0 \in 0 .. RingLen - 1 /\ 0 \in -1 .. RingLen - 1
    BY RingLenAssumption
  <2>2. flash = [p \in 0 .. Pages - 1 |-> flash[p]]
    BY <1>1 DEF FlashInit
  <2> QED
    BY <1>1, <2>1, <2>2, BlankCell DEF FlashInit, BoardShape
<1> QED
  BY <1>2, <1>3, <1>4, <1>5, <1>6 DEF JobInv, Busy

LEMMA JobInvAlways == Spec => []JobInv
  BY JobInvInit, JobStep, PTL DEF Spec

-----------------------------------------------------------------------------
(* What the invariant says of the steps. *)

\* A job's flash is programmed by the loader alone.
LEMMA OnlyTheLoaderPrograms ==
  ASSUME JobInv, Busy, job.step = "program", [Next]_vars, flash' # flash
  PROVE  (LoaderPrograms \/ LoaderErrs) /\ flash' \in {[flash EXCEPT ![ld.at] = u] : u \in Cell \cup {Torn}}
<1>1. ~ Gdb
  BY DEF Gdb, GdbOpen, GdbClose, GdbDone, GdbResult, GdbContinue, GdbStops, GdbWrite, flashVars, board
<1>2. ~ (\E m \in Images : FlashBegin(m) \/ \E p \in 0 .. Size[m] - 1 : FlashChunk(m, p))
  BY DEF FlashBegin, FlashChunk, TakesChunk
<1>3. ~ Controls
  BY DEF Controls, TargetCtrl, StoreErase, ClearProtection, Monitor, Control
<1>4. ~ Poll
  <2>1. ~ JobAdvances
    BY DEF JobAdvances, Advance, Prepare, Erase, Load, StartSegment, Feed, SeesError, Drained,
           NextSegment, Programmed, Verify, Restart, board
  <2>2. ~ JobSucceeds
    BY DEF JobSucceeds, Succeeds
  <2>3. ~ JobFails
    BY DEF JobFails, Fails, PartOfPiece
  <2> QED
    BY <2>1, <2>2, <2>3 DEF Poll
<1>5. ~ UNCHANGED flashVars /\ ~ UNCHANGED vars /\ ~ BridgeResets
  BY DEF flashVars, board, vars, BridgeResets
<1>6. ~ (\E u \in Builds : \/ \E version \in BOOLEAN : AskUpdate(u, version)
                           \/ \E i \in 0 .. BuildLen[u] - 1 : u \in upBegun /\ OfferUpdate(u, i))
  BY <1>5 DEF AskUpdate, OfferUpdate
<1>7. ~ Idle
  BY <1>5 DEF Idle
<1>8. Board
  BY <1>1, <1>2, <1>3, <1>4, <1>5, <1>6, <1>7 DEF Next
<1>9. LoaderPrograms \/ LoaderErrs
  BY <1>8 DEF Board, Loader, LoaderStops, LoaderHangs, BoardBoots, BoardResets
<1>10. LoaderHas
  BY <1>9 DEF LoaderPrograms, LoaderErrs
<1>11. sram.ring[ld.rp] \in Cell
  BY AtProgram, AtWork DEF BoardShape
<1>12. \E u \in Cell \cup {Torn} : flash' = [flash EXCEPT ![ld.at] = u]
  BY <1>9, <1>11 DEF LoaderPrograms, LoaderErrs
<1> QED
  BY <1>9, <1>12

\* Who waits for a job's end is told by it.
LEMMA ToldAtTheEnd ==
  ASSUME JobInv, [Next]_vars,
         \/ status = "receiving" /\ status' \in {"booted", "failed"}
         \/ load = "flashing" /\ (load' = "failed" \/ (load' = "ok" /\ ~ Busy'))
  PROVE  /\ Busy
         /\ \/ /\ JobSucceeds
               /\ ~ (status = "receiving" /\ status' = "failed")
               /\ ~ (load = "flashing" /\ load' = "failed")
            \/ /\ JobFails
               /\ ~ (status = "receiving" /\ status' = "booted")
               /\ ~ (load = "flashing" /\ load' = "ok")
<1>1. Busy /\ Owners
  BY DEF JobInv, Owners
<1>2. UNCHANGED <<status, load>> => FALSE
  OBVIOUS
<1>3. ~ Gdb
  <2>1. status' = status \/ ~ Gdb
    BY DEF Gdb, GdbOpen, GdbClose, GdbDone, GdbResult, GdbContinue, GdbStops, GdbWrite
  <2>2. Gdb => load = "flashing" /\ load' \in {"ok", "failed"}
    BY <2>1
  <2>3. ~ GdbOpen /\ ~ GdbContinue /\ ~ GdbStops
    BY <1>2 DEF GdbOpen, GdbContinue, GdbStops
  <2>4. ~ GdbClose /\ ~ GdbResult
    BY <2>1, <2>2 DEF GdbClose, GdbResult, Gdb
  <2>5. ~ GdbDone
    BY <1>1, <2>2 DEF GdbDone, Gdb, Busy
  <2>6. ~ \E p \in 0 .. Size[GdbImage] - 1 : GdbWrite(p)
    BY <1>1 DEF GdbWrite
  <2> QED
    BY <2>3, <2>4, <2>5, <2>6 DEF Gdb
<1>4. ~ (\E m \in Images : FlashBegin(m) \/ \E p \in 0 .. Size[m] - 1 : FlashChunk(m, p))
  BY <1>1 DEF FlashBegin, FlashChunk, TakesChunk
<1>5. ~ Controls
  BY <1>1 DEF Controls, TargetCtrl, StoreErase, ClearProtection, Monitor, Control
<1>6. ~ UNCHANGED serviceVars /\ ~ UNCHANGED vars /\ ~ BridgeResets
  BY <1>2 DEF serviceVars, vars, BridgeResets
<1>7. ~ (\E u \in Builds : \/ \E version \in BOOLEAN : AskUpdate(u, version)
                           \/ \E i \in 0 .. BuildLen[u] - 1 : u \in upBegun /\ OfferUpdate(u, i))
  BY <1>6 DEF AskUpdate, OfferUpdate
<1>8. ~ Idle /\ ~ JobAdvances
  BY <1>6 DEF Idle, JobAdvances
<1>9. JobSucceeds \/ JobFails
  BY <1>3, <1>4, <1>5, <1>6, <1>7, <1>8 DEF Next, Poll
<1>10. CASE JobSucceeds
  <2>1. JobEnds(TRUE)
    BY <1>10 DEF JobSucceeds
  <2>2. ~ (status = "receiving" /\ status' = "failed") /\ ~ (load = "flashing" /\ load' = "failed")
    BY <1>1, <2>1 DEF JobEnds, Owners
  <2> QED
    BY <1>1, <1>10, <2>2
<1>11. CASE JobFails
  <2>1. JobEnds(FALSE)
    BY <1>11 DEF JobFails
  <2>2. ~ (status = "receiving" /\ status' = "booted") /\ ~ (load = "flashing" /\ load' = "ok")
    BY <1>1, <2>1 DEF JobEnds, Owners
  <2> QED
    BY <1>1, <1>11, <2>2
<1> QED
  BY <1>9, <1>10, <1>11

-----------------------------------------------------------------------------
\* While a job programs, the vector table is written last, whatever the size of the image and of the
\* ring, and however the loader runs beside the job (FlashJob::segment in flash.rs).
THEOREM VectorTableLastHolds == Spec => VectorTableLast
<1>1. ASSUME JobInv, [Next]_vars, Busy, job.step = "program", flash'[0] \notin {flash[0], Blank}
      PROVE  \A p \in 1 .. Len(buf) - 1 : flash[p] \in {buf[p + 1], Torn}
  <2>1. LoaderHas /\ \E u : flash' = [flash EXCEPT ![ld.at] = u]
    BY <1>1, OnlyTheLoaderPrograms DEF LoaderPrograms, LoaderErrs
  <2>2. PagesInv /\ ld.at \in 0 .. Len(buf) - 1
    BY <1>1, <2>1, LoaderTakes
  <2>3. flash = [p \in 0 .. Pages - 1 |-> flash[p]] /\ 0 \in 0 .. Pages - 1
    BY <1>1, PagesAssumption DEF JobInv, BoardShape
  <2>4. ld.at = 0
    BY <1>1, <2>1, <2>3
  <2>5. /\ job.seg \in 0 .. LastSegment /\ ld.at \in From .. End /\ BufferShape /\ buf # <<>>
        /\ Len(buf) \in 1 .. Pages
    BY <1>1, AtProgram, AtWork
  <2>6. ~ (LastSegment = 1 /\ job.seg = 0)
    BY <2>4, <2>5, SegmentFacts DEF From
  <2>7. \A p \in 1 .. Len(buf) - 1 : Reached(p) /\ p \in 0 .. Len(buf) - 1
    BY <2>5, <2>6, PagesAssumption DEF Reached
  <2> QED
    BY <2>2, <2>7 DEF PagesInv
<1>2. JobInv /\ [Next]_vars =>
        [(Busy /\ job.step = "program" /\ flash'[0] \notin {flash[0], Blank}) =>
           \A p \in 1 .. Len(buf) - 1 : flash[p] \in {buf[p + 1], Torn}]_vars
  BY <1>1
<1> QED
  BY <1>2, JobInvAlways, PTL DEF Spec, VectorTableLast

\* A flash that is reported done is done: every page reads the image, a controller is told "booted"
\* by the header of the new firmware alone, and GDB's load leaves the core halted (FlashJob::run,
\* restart in flash.rs).
THEOREM DoneIsTrueHolds == Spec => DoneIsTrue
<1> DEFINE Done ==
  /\ (status = "receiving" /\ status' = "booted") =>
          sha \in Bootable /\ \A p \in 0 .. Size[sha] - 1 : flash[p] = <<sha, p>>
  /\ (load = "flashing" /\ load' = "ok" /\ ~ Busy') =>
          core' = "halted" /\ \A p \in 0 .. Len(buf) - 1 : flash[p] = buf[p + 1]
<1>1. ASSUME JobInv, [Next]_vars, status = "receiving", status' = "booted"
      PROVE  sha \in Bootable /\ \A p \in 0 .. Size[sha] - 1 : flash[p] = <<sha, p>>
  <2>1. Busy /\ Succeeds /\ job.finish = "boot"
    BY <1>1, ToldAtTheEnd DEF JobSucceeds, JobInv, Owners
  <2>2. job.step = "boot" /\ magic
    BY <2>1 DEF Succeeds
  <2>3. CanBoot /\ HoldsUpTo(Len(buf)) /\ buf = Image(sha)
    BY <1>1, <2>1, <2>2 DEF JobInv, JobProgress, BootingInv, BufferInv, ProgramsPromised
  <2>4. sha \in Images /\ Size[sha] \in 1 .. Pages
    BY <1>1, <2>1, SizeAssumption DEF JobInv, Owners
  <2>5. Len(buf) = Size[sha] /\ \A k \in 1 .. Size[sha] : buf[k] = <<sha, k - 1>>
    <3>1. Image(sha) \in [1 .. Size[sha] -> Images \X Int] /\ Size[sha] \in Nat
      BY <2>4, PagesAssumption DEF Image
    <3>2. Len(Image(sha)) = Size[sha]
      BY <3>1, FunctionIsSeq
    <3> QED
      BY <2>3, <3>2 DEF Image
  <2>6. \A p \in 0 .. Size[sha] - 1 : flash[p] = <<sha, p>>
    <3> SUFFICES ASSUME NEW p \in 0 .. Size[sha] - 1 PROVE flash[p] = <<sha, p>>
      OBVIOUS
    <3>1. p + 1 \in 1 .. Size[sha] /\ p + 1 - 1 = p
      BY <2>4, PagesAssumption
    <3>2. flash[p] = buf[p + 1]
      BY <2>3, <2>5 DEF HoldsUpTo
    <3> QED
      BY <2>5, <3>1, <3>2
  <2>7. PICK m \in Bootable : \A p \in 0 .. Size[m] - 1 : flash[p] = <<m, p>>
    BY <2>3 DEF CanBoot
  <2>8. 0 \in 0 .. Size[m] - 1 /\ 0 \in 0 .. Size[sha] - 1
    <3>1. Size[m] \in 1 .. Pages
      BY BootableAssumption, SizeAssumption
    <3> QED
      BY <2>4, <3>1, PagesAssumption
  <2>9. m = sha
    BY <2>6, <2>7, <2>8
  <2> QED
    BY <2>6, <2>9
<1>2. ASSUME JobInv, [Next]_vars, load = "flashing", load' = "ok", ~ Busy'
      PROVE  core' = "halted" /\ \A p \in 0 .. Len(buf) - 1 : flash[p] = buf[p + 1]
  <2>1. Busy /\ Succeeds /\ job.finish = "halt"
    BY <1>2, ToldAtTheEnd DEF JobSucceeds, JobInv, Owners
  <2>2. job.step = "boot" => job.finish = "boot"
    BY <1>2, <2>1 DEF JobInv, JobProgress, BootingInv
  <2>3. job.step = "verify" /\ Matches /\ job.at + 1 = Len(buf) /\ core' = "halted"
    BY <2>1, <2>2 DEF Succeeds
  <2>4. HoldsUpTo(job.at) /\ job.at \in 0 .. Len(buf) - 1 /\ Len(buf) \in 1 .. Pages
    BY <1>2, <2>1, <2>3, AtWork DEF JobProgress, VerifyingInv
  <2>5. Len(buf) - 1 = job.at
    BY <2>3, <2>4, PagesAssumption
  <2> QED
    BY <2>3, <2>4, <2>5, PagesAssumption DEF HoldsUpTo, Matches
<1>3. JobInv /\ [Next]_vars => [Done]_vars
  BY <1>1, <1>2
<1> QED
  BY <1>3, JobInvAlways, PTL DEF Spec, DoneIsTrue

\* A flash cut short can be retried: from whatever an earlier job, a reset of the bridge in the middle
\* of one or a failed control left behind, a job during which nothing fails ends well, if its
\* firmware comes up at all (flash.rs, step 4).
THEOREM RetrySucceedsHolds == Spec => RetrySucceeds
<1> DEFINE GaveUp == Busy /\ ((status = "receiving" /\ status' = "failed")
                              \/ (load = "flashing" /\ load' = "failed"))
           Reason == faults' > job.since \/ (job.finish = "boot" /\ sha \notin Bootable)
<1>1. ASSUME JobInv, [Next]_vars, GaveUp PROVE Reason
  <2>1. Busy /\ Fails /\ JobProgress /\ job.since \in Int /\ faults \in Int /\ job.since <= faults
    BY <1>1, ToldAtTheEnd, AtWork DEF JobFails, JobProgress
  <2>2. CASE faults' = faults + 1
    BY <2>1, <2>2
  <2>3. CASE faults' = faults /\ ~ Clean
    BY <2>1, <2>3 DEF Clean
  <2>4. CASE Wrong /\ Clean
    <3>1. ~ (job.step = "load" /\ ~ Halted)
      BY <2>1, <2>4 DEF JobProgress, LoadingInv, Halted
    <3>2. ~ (InPhase("halt") /\ Halted /\ ~ RunOk)
      BY <2>1, <2>4 DEF JobProgress, ProgrammingInv, InPhase, RunOk, End
    <3>3. ~ (Waiting /\ core \in {"hung", "fw"})
      BY <2>1, <2>4 DEF JobProgress, ProgrammingInv, Waiting, InPhase
    <3>4. ~ (job.step = "verify" /\ ~ Matches)
      BY <2>1, <2>4 DEF JobProgress, VerifyingInv, HoldsUpTo, Matches
    <3>5. job.step = "boot" /\ ~ CanBoot
      BY <2>4, <3>1, <3>2, <3>3, <3>4 DEF Wrong
    <3>6. job.finish = "boot" /\ HoldsUpTo(Len(buf)) /\ buf = Image(sha)
      BY <1>1, <2>1, <3>5 DEF JobProgress, BootingInv, JobInv, BufferInv, ProgramsPromised
    <3>7. ASSUME sha \in Bootable PROVE CanBoot
      <4>1. Size[sha] \in 1 .. Pages /\ Size[sha] \in Nat
        BY <3>7, BootableAssumption, SizeAssumption, PagesAssumption
      <4>2. Image(sha) \in [1 .. Size[sha] -> {sha} \X Int]
        BY <4>1 DEF Image
      <4>3. Len(buf) = Size[sha]
        BY <3>6, <4>1, <4>2, FunctionIsSeq
      <4>4. \A p \in 0 .. Size[sha] - 1 : flash[p] = <<sha, p>>
        <5> SUFFICES ASSUME NEW p \in 0 .. Size[sha] - 1 PROVE flash[p] = <<sha, p>>
          OBVIOUS
        <5>1. p + 1 \in 1 .. Size[sha] /\ p + 1 - 1 = p
          BY <4>1
        <5>2. Image(sha)[p + 1] = <<sha, p>>
          BY <5>1 DEF Image
        <5> QED
          BY <3>6, <4>3, <5>2 DEF HoldsUpTo
      <4> QED
        BY <3>7, <4>4 DEF CanBoot
    <3> QED
      BY <3>5, <3>6, <3>7
  <2> QED
    BY <2>1, <2>2, <2>3, <2>4 DEF Fails
<1>2. JobInv /\ [Next]_vars => [GaveUp => Reason]_vars
  BY <1>1
<1> QED
  BY <1>2, JobInvAlways, PTL DEF Spec, RetrySucceeds

-----------------------------------------------------------------------------
(***************************************************************************)
(* The bridge's own update: what arrived and was written is in the slot,   *)
(* and what is erased ahead of it is still unwritten, so that no erase     *)
(* hits a sector already written and no write one that is not erased.      *)
(***************************************************************************)

Units == Builds \X Nat

UpdateShape ==
  /\ booted \in {0, 1} /\ upFaults \in Nat
  /\ slot = [s \in {0, 1} |-> slot[s]]
  /\ selected \in [slot : {0, 1}, state : {"valid", "new", "pending", "aborted", "undefined"}]
  /\ up \in [len : 0 .. SlotLen, sha : Seq(Units), version : BOOLEAN, got : Seq(Units),
             written : Nat, erased : Nat, activated : BOOLEAN]
  /\ up.len > 0 /\ ~ up.activated => Len(up.got) < up.len

\* The whole sectors of n units.
Sectors(n) == (n \div Sector) * Sector

InSlot ==
  (up.len > 0 /\ ~ up.activated /\ upFaults = 0) =>
    /\ up.written = Sectors(Len(up.got)) /\ up.written <= up.erased
    /\ \A k \in 0 .. up.written - 1 : slot[Target][k] = up.got[k + 1]
    /\ \A k \in up.written .. up.erased - 1 : k < SlotLen => slot[Target][k] = Unwritten

UpdateInv == UpdateShape /\ InSlot

\* Whole sectors: none beyond the units, and no fewer for more of them; rounded up, all the units.
LEMMA SectorFacts ==
  ASSUME NEW n \in Nat
  PROVE  /\ n \div Sector \in Nat /\ Sectors(n) \in Nat /\ Sectors(n) <= n /\ n < Sectors(n) + Sector
         /\ Sectors(n + Sector - 1) \in Nat /\ Sectors(n + Sector - 1) >= n
<1>1. \A x \in Nat : /\ x \div Sector \in Nat /\ (x \div Sector) * Sector \in Nat
                     /\ (x \div Sector) * Sector <= x /\ x < (x \div Sector) * Sector + Sector
  BY SectorAssumption
<1>2. Sector \in Nat \ {0} /\ n + Sector - 1 \in Nat
  BY SectorAssumption
<1>3. (n + Sector - 1 < Sectors(n + Sector - 1) + Sector) /\ Sectors(n + Sector - 1) \in Nat
  BY <1>1, <1>2 DEF Sectors
<1> QED
  BY <1>1, <1>2, <1>3 DEF Sectors

LEMMA SectorsGrow ==
  ASSUME NEW m \in Nat, NEW n \in Nat, m <= n
  PROVE  Sectors(m) <= Sectors(n)
<1> DEFINE a == m \div Sector
           b == n \div Sector
<1>1. a \in Nat /\ b \in Nat /\ a * Sector <= m /\ n < b * Sector + Sector /\ Sector \in Nat \ {0}
  BY SectorFacts, SectorAssumption DEF Sectors
<1> HIDE DEF a, b
<1>2. b * Sector + Sector = (b + 1) * Sector
  BY <1>1
<1>3. a * Sector < (b + 1) * Sector
  BY <1>1, <1>2
<1>4. \A x \in Nat, y \in Nat, s \in Nat : x <= y => x * s <= y * s
  OBVIOUS
<1>5. a <= b
  <2>1. SUFFICES ASSUME b + 1 <= a PROVE FALSE
    BY <1>1
  <2>2. (b + 1) * Sector <= a * Sector
    BY <1>1, <1>4, <2>1
  <2>3. (b + 1) * Sector \in Int /\ a * Sector \in Int
    BY <1>1
  <2> QED
    BY <1>3, <2>2, <2>3
<1> QED
  BY <1>1, <1>4, <1>5 DEF Sectors, a, b

LEMMA Joined ==
  ASSUME NEW S, NEW a \in Seq(S), NEW b \in Seq(S)
  PROVE  /\ a \o b \in Seq(S)
         /\ Len(a \o b) = Len(a) + Len(b)
         /\ \A k \in 1 .. Len(a) : (a \o b)[k] = a[k]
<1>1. /\ a \o b \in Seq(S)
      /\ Len(a \o b) = Len(a) + Len(b)
      /\ \A i \in 1 .. Len(a) + Len(b) : (a \o b)[i] = IF i <= Len(a) THEN a[i] ELSE b[i - Len(a)]
  BY ConcatProperties
<1>2. \A k \in 1 .. Len(a) : k \in 1 .. Len(a) + Len(b) /\ k <= Len(a)
  BY LenProperties
<1> QED
  BY <1>1, <1>2

\* A chunk offered is of units, and no longer than what is missing.
LEMMA OfferFacts ==
  ASSUME UpdateShape, up.len > 0, Len(up.got) < up.len, NEW u \in Builds, NEW off \in Nat,
         off = Contiguous, NEW data, Offered(off, data),
         data = SubSeq(BuildImage(u), off + 1, Lowest(off + Chunk, BuildLen[u])), off < BuildLen[u]
  PROVE  /\ up.got \o data \in Seq(Units)
         /\ Len(up.got \o data) = Len(up.got) + Len(data)
         /\ Len(up.got) + Len(data) \in Len(up.got) + 1 .. up.len
         /\ \A k \in 1 .. Len(up.got) : (up.got \o data)[k] = up.got[k]
<1>1. up.got \in Seq(Units) /\ up.len \in Nat /\ Len(up.got) \in Nat
  BY SlotAssumption DEF UpdateShape
<1>2. BuildLen[u] \in 1 .. SlotLen /\ BuildLen[u] \in Nat
  BY BuildAssumption, SlotAssumption
<1>3. BuildImage(u) \in Seq(Units) /\ Len(BuildImage(u)) = BuildLen[u]
  <2>1. BuildImage(u) \in [1 .. BuildLen[u] -> Units]
    BY <1>2 DEF BuildImage, Units
  <2> QED
    BY <1>2, <2>1, FunctionIsSeq
<1>4. Chunk \in Nat \ {0}
  BY SectorAssumption
<1>5. Lowest(off + Chunk, BuildLen[u]) \in off + 1 .. BuildLen[u]
  BY <1>2, <1>4 DEF Lowest
<1>6. data \in Seq(Units)
  <2>1. off + 1 \in 1 .. Len(BuildImage(u)) + 1
    BY <1>2, <1>3
  <2>2. Lowest(off + Chunk, BuildLen[u]) \in off .. Len(BuildImage(u))
    BY <1>3, <1>5
  <2>3. SubSeq(BuildImage(u), off + 1, Lowest(off + Chunk, BuildLen[u])) \in Seq(Units)
    BY <1>3, <1>5, <2>1, <2>2, SubSeqProperties
  <2> QED
    BY <2>3
<1>7. Len(data) = Lowest(Chunk, up.len - off)
  BY DEF Offered
<1>8. Len(data) \in 1 .. up.len - Len(up.got)
  <2>1. off = Len(up.got)
    BY DEF Contiguous
  <2>2. off < up.len
    BY <2>1, Zenon
  <2>3. Lowest(Chunk, up.len - off) \in 1 .. up.len - off
    BY <1>1, <1>4, <2>2 DEF Lowest
  <2> QED
    BY <1>7, <2>1, <2>3, Zenon
<1>9. \A a, n \in Nat : \A d \in 1 .. n - a : a + d \in a + 1 .. n /\ \A k \in 1 .. a : k \in 1 .. a + d /\ k <= a
  OBVIOUS
<1>10. Len(up.got) + Len(data) \in Len(up.got) + 1 .. up.len
       /\ \A k \in 1 .. Len(up.got) : k \in 1 .. Len(up.got) + Len(data) /\ k <= Len(up.got)
  BY <1>1, <1>8, <1>9, Zenon
<1>11. /\ up.got \o data \in Seq(Units)
       /\ Len(up.got \o data) = Len(up.got) + Len(data)
       /\ \A k \in 1 .. Len(up.got) : (up.got \o data)[k] = up.got[k]
  <2>1. \A a, b \in Seq(Units) : /\ a \o b \in Seq(Units)
                                  /\ Len(a \o b) = Len(a) + Len(b)
                                  /\ \A k \in 1 .. Len(a) : (a \o b)[k] = a[k]
    BY Joined
  <2> QED
    BY <1>1, <1>6, <2>1, Zenon
<1> QED
  BY <1>10, <1>11, Zenon

\* What a chunk taken leaves in the slot: all that was written and the new data, over erased units,
\* and above it what is erased ahead.
LEMMA TakenIsInSlot ==
  ASSUME UpdateInv, up.len > 0, ~ up.activated, upFaults = 0,
         NEW got, got \in Seq(Units), Len(got) \in Len(up.got) + 1 .. up.len,
         \A k \in 1 .. Len(up.got) : got[k] = up.got[k]
  PROVE  LET n == Len(got)
             now == Written(Erased(slot, up.erased, ErasesTo(n)), got, up.written, WritesTo(n), {})
         IN /\ WritesTo(n) <= ErasesTo(n)
            /\ n < up.len => WritesTo(n) = Sectors(n)
            /\ \A k \in 0 .. WritesTo(n) - 1 : now[Target][k] = got[k + 1]
            /\ \A k \in WritesTo(n) .. ErasesTo(n) - 1 : k < SlotLen => now[Target][k] = Unwritten
<1> DEFINE n == Len(got)
           wr == WritesTo(n)
           er == ErasesTo(n)
           erased == Erased(slot, up.erased, er)
           now == Written(erased, got, up.written, wr, {})
           m == Len(up.got)
<1>1. /\ up.got \in Seq(Units) /\ up.len \in 0 .. SlotLen /\ up.written \in Nat /\ up.erased \in Nat
      /\ booted \in {0, 1} /\ slot = [s \in {0, 1} |-> slot[s]]
  BY DEF UpdateInv, UpdateShape
<1>2. /\ m < up.len /\ up.written = Sectors(m) /\ up.written <= up.erased
      /\ \A k \in 0 .. up.written - 1 : slot[Target][k] = up.got[k + 1]
      /\ \A k \in up.written .. up.erased - 1 : k < SlotLen => slot[Target][k] = Unwritten
  BY DEF UpdateInv, InSlot, UpdateShape
<1>3. m \in Nat /\ n \in Nat /\ m < n /\ n <= up.len /\ SlotLen \in Nat /\ n <= SlotLen
  <2>1. m \in Nat
    BY <1>1, LenProperties
  <2>2. up.len \in Nat /\ SlotLen \in Nat /\ up.len <= SlotLen
    BY <1>1, SlotAssumption
  <2>3. n \in m + 1 .. up.len
    OBVIOUS
  <2> HIDE DEF n, m
  <2> QED
    BY <2>1, <2>2, <2>3
<1> HIDE DEF n, m
<1>4. /\ wr \in Nat /\ wr <= n /\ up.written <= wr /\ up.written <= m
      /\ n < up.len => wr = Sectors(n)
  <2>1. /\ Sectors(n) \in Nat /\ Sectors(n) <= n /\ Sectors(m) <= m /\ Sectors(m) \in Nat
        /\ Sectors(m) <= Sectors(n)
    <3>1. /\ Sectors(n) \in Nat /\ Sectors(n) <= n /\ Sectors(m) <= m /\ Sectors(m) \in Nat
      BY <1>3, SectorFacts
    <3>2. m <= n
      BY <1>3
    <3>3. Sectors(m) <= Sectors(n)
      BY <1>3, <3>2, SectorsGrow
    <3> QED
      BY <3>1, <3>3
  <2>2. wr = IF n = up.len THEN n ELSE Sectors(n)
    BY DEF WritesTo, Sectors
  <2> HIDE DEF wr
  <2> QED
    BY <1>2, <1>3, <2>1, <2>2
<1>5. er \in Nat /\ wr <= er /\ up.erased <= er
  <2>1. er = IF Sectors(wr + Sector - 1) > up.erased THEN Sectors(wr + Sector - 1) ELSE up.erased
    BY Zenon DEF ErasesTo, Sectors
  <2>2. Sectors(wr + Sector - 1) \in Nat /\ Sectors(wr + Sector - 1) >= wr
    BY <1>4, SectorFacts
  <2> HIDE DEF er, wr
  <2> QED
    BY <1>1, <1>4, <2>1, <2>2
<1>6. Target \in {0, 1}
  BY <1>1 DEF Target
<1>7. \A k \in 0 .. SlotLen - 1 :
        erased[Target][k] = IF k \in up.erased .. er - 1 THEN Unwritten ELSE slot[Target][k]
  <2>1. erased = [slot EXCEPT ![Target] =
          [k \in 0 .. SlotLen - 1 |-> IF k \in up.erased .. er - 1 THEN Unwritten ELSE slot[Target][k]]]
    BY <1>1, <1>6 DEF Erased
  <2> HIDE DEF erased, er
  <2> QED
    BY <1>1, <1>6, <2>1
<1>8. erased = [s \in {0, 1} |-> erased[s]]
  BY <1>1, <1>6 DEF Erased
<1> HIDE DEF er, erased
<1>9. \A k \in 0 .. SlotLen - 1 :
        now[Target][k] = IF k \notin up.written .. wr - 1 THEN erased[Target][k]
                         ELSE IF erased[Target][k] = Unwritten /\ k \notin {} THEN got[k + 1]
                         ELSE Garbled
  <2>1. now = [erased EXCEPT ![Target] =
          [k \in 0 .. SlotLen - 1 |->
             IF k \notin up.written .. wr - 1 THEN erased[Target][k]
             ELSE IF erased[Target][k] = Unwritten /\ k \notin {} THEN got[k + 1] ELSE Garbled]]
    BY <1>6, <1>8 DEF Written
  <2> HIDE DEF now, wr
  <2> QED
    BY <1>6, <1>8, <2>1
<1> HIDE DEF now, wr
<1>10. \A k \in 0 .. SlotLen - 1 : k \notin up.written .. wr - 1 => now[Target][k] = erased[Target][k]
  BY <1>9
<1>11. \A k \in 0 .. SlotLen - 1 :
         k \in up.written .. wr - 1 /\ erased[Target][k] = Unwritten => now[Target][k] = got[k + 1]
  BY <1>9
<1>12. ASSUME NEW k \in 0 .. wr - 1 PROVE now[Target][k] = got[k + 1]
  <2>1. k \in 0 .. SlotLen - 1 /\ k \in Int
    BY <1>3, <1>4
  <2>2. CASE k < up.written
    <3>1. k \notin up.written .. wr - 1 /\ k \notin up.erased .. er - 1 /\ k \in 0 .. up.written - 1
      BY <1>1, <1>2, <1>4, <1>5, <2>1, <2>2
    <3>2. now[Target][k] = slot[Target][k]
      BY <1>7, <1>10, <2>1, <3>1
    <3>3. slot[Target][k] = up.got[k + 1]
      BY <1>2, <3>1
    <3>4. k + 1 \in 1 .. m
      BY SMTT(30), <1>1, <1>3, <1>4, <2>1, <2>2
    <3>5. got[k + 1] = up.got[k + 1]
      BY <3>4 DEF m
    <3> QED
      BY <3>2, <3>3, <3>5
  <2>3. CASE ~ (k < up.written)
    <3>1. k \in up.written .. wr - 1
      BY <1>1, <1>4, <2>1, <2>3
    <3>2. k \in up.erased .. er - 1 \/ k \in up.written .. up.erased - 1
      BY <1>1, <1>2, <1>4, <1>5, <2>1, <3>1
    <3>3. k < SlotLen
      BY <1>3, <2>1
    <3>4. erased[Target][k] = Unwritten
      BY <1>2, <1>7, <2>1, <3>2, <3>3
    <3> QED
      BY <1>11, <2>1, <3>1, <3>4
  <2> QED
    BY <2>2, <2>3
<1>13. ASSUME NEW k \in wr .. er - 1, k < SlotLen PROVE now[Target][k] = Unwritten
  <2>1. k \in 0 .. SlotLen - 1 /\ k \in Int /\ k \notin up.written .. wr - 1
    BY <1>3, <1>4, <1>5, <1>13
  <2>2. k \in up.erased .. er - 1 \/ k \in up.written .. up.erased - 1
    BY <1>1, <1>2, <1>4, <1>5, <2>1
  <2>3. erased[Target][k] = Unwritten
    BY <1>2, <1>7, <1>13, <2>1, <2>2
  <2> QED
    BY <1>10, <2>1, <2>3
<1> QED
  BY <1>4, <1>5, <1>12, <1>13 DEF n, wr, er, erased, now

\* A chunk that is taken keeps the slot in step with what arrived.
LEMMA UpdateChunkStep ==
  ASSUME UpdateInv, NEW u \in Builds, NEW off \in Nat, NEW data, UpdateChunk(off, data),
         data = SubSeq(BuildImage(u), off + 1, Lowest(off + Chunk, BuildLen[u])), off < BuildLen[u]
  PROVE  /\ UpdateInv'
         /\ up'.len = 0 /\ Len(up'.got) = up.len /\ upFaults' = 0 => up'.got # up.sha \/ ~ up.version
<1> DEFINE got == up.got \o data
           n == Len(got)
           erased == Erased(slot, up.erased, ErasesTo(n))
           now(bad) == Written(erased, got, up.written, WritesTo(n), bad)
<1>1. /\ up.len > 0 /\ ~ up.activated /\ off = Contiguous /\ Offered(off, data)
      /\ up \in [len : 0 .. SlotLen, sha : Seq(Units), version : BOOLEAN, got : Seq(Units),
                 written : Nat, erased : Nat, activated : BOOLEAN]
      /\ booted \in {0, 1} /\ upFaults \in Nat /\ slot = [s \in {0, 1} |-> slot[s]] /\ booted' = booted
  BY DEF UpdateChunk, UpdateInv, UpdateShape
<1>2. PICK bad \in {{}} \cup {{k} : k \in up.written .. WritesTo(n) - 1} :
        /\ upFaults' = IF bad = {} THEN upFaults ELSE upFaults + 1
        /\ slot' = now(bad)
        /\ \/ n < up.len /\ UNCHANGED selected
              /\ up' = [up EXCEPT !.got = got, !.written = WritesTo(n), !.erased = ErasesTo(n)]
           \/ /\ ~ (n < up.len)
              /\ up' = [up EXCEPT !.got = got, !.written = n, !.erased = ErasesTo(n), !.activated = TRUE]
              /\ selected' = [slot |-> Target, state |-> "new"]
           \/ /\ ~ (n < up.len) /\ ~ Accepted(got, slot') /\ UNCHANGED selected
              /\ up' = [up EXCEPT !.len = 0, !.got = got]
  BY Zenon DEF UpdateChunk
<1>3. slot' = [s \in {0, 1} |-> slot'[s]] /\ Target \in {0, 1} /\ Target' = Target
  <2>1. Target \in {0, 1} /\ Target' = Target
    BY <1>1 DEF Target
  <2> QED
    BY <1>1, <1>2, <2>1 DEF Written, Erased
<1>4. upFaults' \in Nat /\ (upFaults' = 0 => upFaults = 0 /\ bad = {})
  BY <1>1, <1>2
<1>5. selected' \in [slot : {0, 1}, state : {"valid", "new", "pending", "aborted", "undefined"}]
  BY <1>2, <1>3 DEF UpdateInv, UpdateShape
<1> HIDE DEF got, n, erased, now
<1>6. /\ got \in Seq(Units) /\ n \in Len(up.got) + 1 .. up.len
      /\ \A k \in 1 .. Len(up.got) : got[k] = up.got[k]
      /\ n \in Nat /\ n <= up.len /\ up.len \in Nat
  <2>1. Len(up.got) < up.len
    BY <1>1 DEF UpdateInv, UpdateShape
  <2>2. /\ got \in Seq(Units) /\ n = Len(up.got) + Len(data)
        /\ Len(up.got) + Len(data) \in Len(up.got) + 1 .. up.len
        /\ \A k \in 1 .. Len(up.got) : got[k] = up.got[k]
    BY ZenonT(30), <1>1, <2>1, OfferFacts DEF UpdateInv, got, n
  <2>3. Len(up.got) \in Nat /\ up.len \in Nat
    BY <1>1, LenProperties, SlotAssumption
  <2>4. n \in Len(up.got) + 1 .. up.len
    BY <2>2, Zenon
  <2>5. n \in Nat /\ n <= up.len
    BY <2>3, <2>4
  <2> QED
    BY <2>2, <2>3, <2>4, <2>5, Zenon
<1>7. WritesTo(n) \in Nat /\ ErasesTo(n) \in Nat /\ (n = up.len => WritesTo(n) = n)
  <2>1. WritesTo(n) \in Nat /\ (n = up.len => WritesTo(n) = n)
    BY <1>6, SectorFacts DEF WritesTo, Sectors
  <2>2. Sectors(WritesTo(n) + Sector - 1) \in Nat /\ up.erased \in Nat
    BY <1>1, <2>1, SectorFacts
  <2>3. ErasesTo(n) \in Nat
    BY <2>2 DEF ErasesTo, Sectors
  <2> QED
    BY <2>1, <2>3
<1>8. ASSUME upFaults' = 0
      PROVE  /\ WritesTo(n) <= ErasesTo(n)
             /\ n < up.len => WritesTo(n) = Sectors(n)
             /\ \A k \in 0 .. WritesTo(n) - 1 : slot'[Target][k] = got[k + 1]
             /\ \A k \in WritesTo(n) .. ErasesTo(n) - 1 : k < SlotLen => slot'[Target][k] = Unwritten
  <2>1. upFaults = 0 /\ slot' = now({})
    BY <1>2, <1>4, <1>8
  <2>2. n = Len(got)
    BY DEF n
  <2>3. now({}) = Written(Erased(slot, up.erased, ErasesTo(Len(got))), got, up.written, WritesTo(Len(got)), {})
    BY DEF now, erased, n
  <2> QED
    BY SMTT(30), <1>1, <1>6, <2>1, <2>2, <2>3, TakenIsInSlot
<1>9. CASE /\ n < up.len
           /\ up' = [up EXCEPT !.got = got, !.written = WritesTo(n), !.erased = ErasesTo(n)]
  <2>1. /\ up'.len = up.len /\ up'.got = got /\ up'.written = WritesTo(n) /\ up'.erased = ErasesTo(n)
        /\ up' \in [len : 0 .. SlotLen, sha : Seq(Units), version : BOOLEAN, got : Seq(Units),
                    written : Nat, erased : Nat, activated : BOOLEAN]
    BY <1>1, <1>6, <1>7, <1>9
  <2>2. Len(up'.got) = n
    BY <2>1 DEF n
  <2>3. UpdateShape'
    BY <1>1, <1>3, <1>4, <1>5, <1>9, <2>1, <2>2 DEF UpdateShape
  <2>4. InSlot'
    BY <1>3, <1>8, <1>9, <2>1, <2>2 DEF InSlot, Sectors
  <2> QED
    BY <1>1, <1>6, <2>1, <2>3, <2>4 DEF UpdateInv
<1>10. CASE /\ ~ (n < up.len)
            /\ up' = [up EXCEPT !.got = got, !.written = n, !.erased = ErasesTo(n), !.activated = TRUE]
  <2>1. /\ up'.len = up.len /\ up'.activated
        /\ up' \in [len : 0 .. SlotLen, sha : Seq(Units), version : BOOLEAN, got : Seq(Units),
                    written : Nat, erased : Nat, activated : BOOLEAN]
    BY <1>1, <1>6, <1>7, <1>10
  <2>2. UpdateShape' /\ InSlot'
    BY <1>1, <1>3, <1>4, <1>5, <2>1 DEF UpdateShape, InSlot
  <2> QED
    BY <1>1, <1>6, <2>1, <2>2 DEF UpdateInv
<1>11. CASE /\ ~ (n < up.len) /\ ~ Accepted(got, slot')
            /\ up' = [up EXCEPT !.len = 0, !.got = got]
  <2>1. /\ up'.len = 0 /\ up'.got = got
        /\ up' \in [len : 0 .. SlotLen, sha : Seq(Units), version : BOOLEAN, got : Seq(Units),
                    written : Nat, erased : Nat, activated : BOOLEAN]
    <3>1. 0 \in 0 .. SlotLen
      BY SlotAssumption
    <3> QED
      BY <1>1, <1>6, <1>11, <3>1
  <2>2. UpdateShape' /\ InSlot'
    BY <1>1, <1>3, <1>4, <1>5, <2>1 DEF UpdateShape, InSlot
  <2>3. n = up.len
    BY <1>6, <1>11
  <2>4. ASSUME upFaults' = 0, got = up.sha, up.version PROVE FALSE
    <3>1. \A k \in 0 .. n - 1 : slot'[Target][k] = got[k + 1]
      BY <1>7, <1>8, <2>3, <2>4
    <3>2. Len(up.sha) = n
      BY <2>4 DEF n
    <3>3. ASSUME NEW k \in 1 .. Len(up.sha) PROVE slot'[Target][k - 1] = up.sha[k]
      <4>1. k - 1 \in 0 .. n - 1 /\ k - 1 + 1 = k
        BY <1>6, <3>2
      <4> QED
        BY <2>4, <3>1, <4>1
    <3> QED
      BY <1>11, <2>4, <3>3 DEF Accepted
  <2> QED
    BY <2>1, <2>2, <2>4 DEF UpdateInv
<1> QED
  BY <1>2, <1>9, <1>10, <1>11

\* A step with no update after it.
LEMMA NoUpdateAfter ==
  ASSUME UpdateInv, booted' \in {0, 1}, upFaults' \in Nat, slot' = [s \in {0, 1} |-> slot'[s]],
         selected' \in [slot : {0, 1}, state : {"valid", "new", "pending", "aborted", "undefined"}],
         up' \in [len : 0 .. SlotLen, sha : Seq(Units), version : BOOLEAN, got : Seq(Units),
                  written : Nat, erased : Nat, activated : BOOLEAN],
         up'.len = 0
  PROVE  UpdateInv'
BY DEF UpdateInv, UpdateShape, InSlot

LEMMA UpdateAlone ==
  ASSUME UpdateInv, UNCHANGED updateVars
  PROVE  UpdateInv'
BY DEF UpdateInv, UpdateShape, InSlot, updateVars, Target, Sectors

\* A failed erase or activation ends the update, and is a fault.
LEMMA UpdateFailsStep ==
  ASSUME UpdateInv, NEW u \in Builds, NEW off \in Nat, NEW data,
         UpdateChunkFails(off, data) \/ ActivationFails(off, data),
         data = SubSeq(BuildImage(u), off + 1, Lowest(off + Chunk, BuildLen[u])), off < BuildLen[u]
  PROVE  UpdateInv' /\ upFaults' # 0
<1>1. /\ up.len > 0 /\ ~ up.activated /\ off = Contiguous /\ Offered(off, data)
      /\ upFaults' = upFaults + 1 /\ UNCHANGED booted
  BY DEF UpdateChunkFails, ActivationFails
<1>2. /\ booted \in {0, 1} /\ upFaults \in Nat /\ slot = [s \in {0, 1} |-> slot[s]]
      /\ selected \in [slot : {0, 1}, state : {"valid", "new", "pending", "aborted", "undefined"}]
      /\ up \in [len : 0 .. SlotLen, sha : Seq(Units), version : BOOLEAN, got : Seq(Units),
                 written : Nat, erased : Nat, activated : BOOLEAN]
      /\ Len(up.got) < up.len /\ 0 \in 0 .. SlotLen
  BY <1>1, SlotAssumption DEF UpdateInv, UpdateShape
<1>3. upFaults' \in Nat /\ upFaults' # 0
  BY <1>1, <1>2
<1>4. CASE UpdateChunkFails(off, data)
  <2>1. up' = [up EXCEPT !.len = 0] /\ UNCHANGED <<slot, selected>>
    BY <1>4 DEF UpdateChunkFails
  <2> QED
    BY <1>1, <1>2, <1>3, <2>1, NoUpdateAfter
<1>5. CASE ActivationFails(off, data)
  <2>1. up.got \o data \in Seq(Units)
    BY <1>1, <1>2, OfferFacts DEF UpdateInv
  <2>2. up' = [up EXCEPT !.len = 0, !.got = up.got \o data]
    BY <1>5 DEF ActivationFails
  <2>3. /\ up'.len = 0
        /\ up' \in [len : 0 .. SlotLen, sha : Seq(Units), version : BOOLEAN, got : Seq(Units),
                    written : Nat, erased : Nat, activated : BOOLEAN]
    BY <1>2, <2>1, <2>2
  <2>4. Target \in {0, 1}
    BY <1>2 DEF Target
  <2>5. slot' = [s \in {0, 1} |-> slot'[s]]
    BY <1>2, <1>5, <2>4 DEF ActivationFails, Written, Erased
  <2>6. selected' \in [slot : {0, 1}, state : {"valid", "new", "pending", "aborted", "undefined"}]
    BY <1>2, <1>5, <2>4 DEF ActivationFails
  <2> QED
    BY <1>1, <1>2, <1>3, <2>3, <2>5, <2>6, NoUpdateAfter
<1> QED
  BY <1>3, <1>4, <1>5

\* An erase ahead is above all that was written.
LEMMA EraseAheadStep ==
  ASSUME UpdateInv, EraseAhead
  PROVE  UpdateInv' /\ up'.len # 0
<1> DEFINE to == up.erased + Sector
<1>1. /\ up.len > 0
      /\ slot' = Erased(slot, up.erased, to)
      /\ up' = [up EXCEPT !.erased = to]
      /\ UNCHANGED <<selected, booted, upFaults>>
  BY DEF EraseAhead
<1>2. /\ booted \in {0, 1} /\ slot = [s \in {0, 1} |-> slot[s]]
      /\ up \in [len : 0 .. SlotLen, sha : Seq(Units), version : BOOLEAN, got : Seq(Units),
                 written : Nat, erased : Nat, activated : BOOLEAN]
      /\ up.erased \in Nat /\ up.written \in Nat /\ SlotLen \in Nat
      /\ to \in Nat /\ up.erased <= to
  BY SectorAssumption, SlotAssumption DEF UpdateInv, UpdateShape
<1> HIDE DEF to
<1>3. Target \in {0, 1} /\ Target' = Target
  BY <1>1, <1>2 DEF Target
<1>4. /\ up'.len = up.len /\ up'.got = up.got /\ up'.written = up.written
      /\ up'.erased = to /\ up'.activated = up.activated
      /\ up' \in [len : 0 .. SlotLen, sha : Seq(Units), version : BOOLEAN, got : Seq(Units),
                  written : Nat, erased : Nat, activated : BOOLEAN]
  BY <1>1, <1>2
<1>5. slot' = [s \in {0, 1} |-> slot'[s]]
  BY <1>1, <1>2, <1>3 DEF Erased
<1>6. slot' = [slot EXCEPT ![Target] =
        [k \in 0 .. SlotLen - 1 |-> IF k \in up.erased .. to - 1 THEN Unwritten
                                    ELSE slot[Target][k]]]
  BY <1>1, <1>2, <1>3 DEF Erased
<1>7. \A k \in 0 .. SlotLen - 1 :
        slot'[Target][k] = IF k \in up.erased .. to - 1 THEN Unwritten
                           ELSE slot[Target][k]
  BY <1>2, <1>3, <1>6
<1>8. UpdateShape'
  BY <1>1, <1>4, <1>5 DEF UpdateInv, UpdateShape
<1>9. ASSUME ~ up.activated, upFaults = 0
      PROVE  /\ up'.written <= up'.erased
             /\ \A k \in 0 .. up'.written - 1 : slot'[Target][k] = up'.got[k + 1]
             /\ \A k \in up'.written .. up'.erased - 1 : k < SlotLen => slot'[Target][k] = Unwritten
  <2>1. /\ up.written = Sectors(Len(up.got)) /\ up.written <= up.erased
        /\ \A k \in 0 .. up.written - 1 : slot[Target][k] = up.got[k + 1]
        /\ \A k \in up.written .. up.erased - 1 : k < SlotLen => slot[Target][k] = Unwritten
    BY <1>1, <1>9 DEF UpdateInv, InSlot
  <2>2. Len(up.got) \in Nat /\ Len(up.got) < up.len /\ up.len \in Nat /\ up.len <= SlotLen
    BY <1>1, <1>2, <1>9, LenProperties DEF UpdateInv, UpdateShape
  <2>3. up.written < SlotLen
    <3>1. Sectors(Len(up.got)) <= Len(up.got)
      BY <2>2, SectorFacts
    <3> QED
      BY <1>2, <2>1, <2>2, <3>1
  <2>4. ASSUME NEW k \in 0 .. up.written - 1 PROVE slot'[Target][k] = up.got[k + 1]
    <3>1. k \in 0 .. SlotLen - 1 /\ k \notin up.erased .. to - 1
      BY <1>2, <2>1, <2>3
    <3> QED
      BY <1>7, <2>1, <3>1
  <2>5. ASSUME NEW k \in up.written .. to - 1, k < SlotLen
        PROVE  slot'[Target][k] = Unwritten
    <3>1. /\ k \in 0 .. SlotLen - 1
          /\ k \in up.written .. up.erased - 1 \/ k \in up.erased .. to - 1
      BY <1>2, <2>5
    <3> QED
      BY <1>7, <2>1, <2>5, <3>1
  <2>6. up.written <= to
    BY <1>2, <2>1
  <2>7. up'.written = up.written /\ up'.erased = to /\ up'.got = up.got
    BY <1>4, Zenon
  <2>8. up'.written <= up'.erased
    BY <2>6, <2>7, Zenon
  <2>9. \A k \in 0 .. up'.written - 1 : slot'[Target][k] = up'.got[k + 1]
    BY <2>4, <2>7, Zenon
  <2>10. \A k \in up'.written .. up'.erased - 1 : k < SlotLen => slot'[Target][k] = Unwritten
    BY <2>5, <2>7, Zenon
  <2> QED
    BY <2>8, <2>9, <2>10
<1>10. InSlot'
  BY <1>1, <1>3, <1>4, <1>9 DEF UpdateInv, InSlot, Sectors
<1> QED
  BY <1>1, <1>4, <1>8, <1>10 DEF UpdateInv

\* An update refused although its bytes and version are the announced ones had a fault.
SoundStep ==
  (up.len > 0 /\ up'.len = 0 /\ Len(up'.got) = up.len /\ upFaults' = 0) =>
    up'.got # up.sha \/ ~ up.version

LEMMA UpdateStep == ASSUME UpdateInv, [Next]_vars PROVE UpdateInv' /\ SoundStep
<1>1. ASSUME UNCHANGED updateVars PROVE UpdateInv' /\ SoundStep
  BY <1>1, UpdateAlone DEF SoundStep, updateVars, UpdateInv, UpdateShape
<1>2. UpdateShape
  BY DEF UpdateInv
<1>3. CASE \E m \in Images : FlashBegin(m) \/ \E p \in 0 .. Size[m] - 1 : FlashChunk(m, p)
  BY <1>1, <1>3 DEF FlashBegin, FlashChunk
<1>4. CASE Gdb
  BY <1>1, <1>4 DEF Gdb, GdbOpen, GdbClose, GdbDone, GdbResult, GdbContinue, GdbStops, GdbWrite
<1>5. CASE Controls
  BY <1>1, <1>5 DEF Controls, TargetCtrl, StoreErase, ClearProtection, Monitor, Control
<1>6. CASE Poll
  BY <1>1, <1>6 DEF Poll, JobAdvances, JobSucceeds, JobFails
<1>7. CASE Board /\ UNCHANGED <<updateVars, serviceVars, boundVars>>
  BY <1>1, <1>7
<1>8. CASE UNCHANGED vars
  BY <1>1, <1>8 DEF vars
<1>9. 0 \in 0 .. SlotLen /\ <<>> \in Seq(Units) /\ Len(<<>>) = 0
  BY SlotAssumption, EmptySeq
<1>10. ASSUME NEW u \in Builds, NEW version \in BOOLEAN, AskUpdate(u, version)
       PROVE  UpdateInv' /\ SoundStep
  <2>1. /\ up' = [NoUpdate EXCEPT !.len = BuildLen[u], !.sha = BuildImage(u), !.version = version]
        /\ UNCHANGED <<slot, selected, booted, upFaults>>
    BY <1>10 DEF AskUpdate, UpdateBegin
  <2>2. BuildLen[u] \in 1 .. SlotLen /\ BuildLen[u] \in 0 .. SlotLen /\ BuildLen[u] \in Nat
        /\ BuildLen[u] > 0
    BY BuildAssumption, SlotAssumption
  <2>3. BuildImage(u) \in Seq(Units)
    <3>1. BuildImage(u) \in [1 .. BuildLen[u] -> Units]
      BY <2>2 DEF BuildImage, Units
    <3> QED
      BY <2>2, <3>1, FunctionIsSeq
  <2>4. /\ up' \in [len : 0 .. SlotLen, sha : Seq(Units), version : BOOLEAN, got : Seq(Units),
                    written : Nat, erased : Nat, activated : BOOLEAN]
        /\ up'.len = BuildLen[u] /\ up'.got = <<>> /\ up'.written = 0 /\ up'.erased = 0
    BY <1>9, <2>1, <2>2, <2>3 DEF NoUpdate
  <2>5. UpdateShape'
    BY <1>2, <1>9, <2>1, <2>2, <2>4 DEF UpdateShape
  <2>6. Sectors(0) = 0
    <3>1. Sectors(0) \in Nat /\ Sectors(0) <= 0
      BY SectorFacts
    <3> QED
      BY <3>1
  <2>7. InSlot'
    BY <1>9, <2>4, <2>6 DEF InSlot, Sectors
  <2> QED
    BY <2>2, <2>4, <2>5, <2>7 DEF UpdateInv, SoundStep
<1>11. ASSUME NEW u \in Builds, NEW i \in 0 .. BuildLen[u] - 1, OfferUpdate(u, i)
       PROVE  UpdateInv' /\ SoundStep
  <2> DEFINE off == i * Chunk
             data == SubSeq(BuildImage(u), off + 1, Lowest(off + Chunk, BuildLen[u]))
  <2>1. i \in Nat /\ Chunk \in Nat
    BY BuildAssumption, SectorAssumption
  <2>2. off \in Nat
    BY <2>1
  <2>3. off < BuildLen[u] /\ (UpdateChunk(off, data) \/ UpdateChunkFails(off, data) \/ ActivationFails(off, data))
    BY <1>11 DEF OfferUpdate
  <2>4. UpdateChunk(off, data) => UpdateInv' /\ SoundStep
    <3> HIDE DEF off
    <3> QED
      BY <2>2, <2>3, UpdateChunkStep DEF SoundStep
  <2>5. UpdateChunkFails(off, data) \/ ActivationFails(off, data) => UpdateInv' /\ upFaults' # 0
    <3> HIDE DEF off
    <3> QED
      BY <2>2, <2>3, UpdateFailsStep
  <2> QED
    BY <2>3, <2>4, <2>5 DEF SoundStep
<1>12. CASE Idle
  <2>1. CASE EraseAhead
    BY <2>1, EraseAheadStep DEF SoundStep
  <2>2. CASE UpdateConfirm
    <3>1. /\ selected' = [selected EXCEPT !.state = "valid"]
          /\ UNCHANGED <<slot, booted, up, upFaults>>
      BY <2>2 DEF UpdateConfirm
    <3>2. UpdateShape'
      BY <1>2, <3>1 DEF UpdateShape
    <3>3. InSlot'
      BY <3>1 DEF UpdateInv, InSlot, Target, Sectors
    <3>4. up.len \in Int
      BY <1>2, SlotAssumption DEF UpdateShape
    <3> QED
      BY <3>1, <3>2, <3>3, <3>4 DEF UpdateInv, SoundStep
  <2> QED
    BY <1>12, <2>1, <2>2 DEF Idle
<1>13. CASE BridgeResets
  <2>1. Rollback
    BY <1>13 DEF BridgeResets
  <2>2. up' = NoUpdate /\ UNCHANGED <<slot, upFaults>>
    BY <2>1 DEF Rollback
  <2>3. /\ up' \in [len : 0 .. SlotLen, sha : Seq(Units), version : BOOLEAN, got : Seq(Units),
                    written : Nat, erased : Nat, activated : BOOLEAN]
        /\ up'.len = 0 /\ up'.got = <<>>
    BY <1>9, <2>2 DEF NoUpdate
  <2>4. selected' \in [slot : {0, 1}, state : {"valid", "new", "pending", "aborted", "undefined"}]
    BY <1>2, <2>1 DEF Rollback, UpdateShape
  <2>5. booted' \in {0, 1}
    <3>1. selected.slot \in {0, 1}
      BY <1>2 DEF UpdateShape
    <3> QED
      BY <2>1, <3>1 DEF Rollback
  <2>6. UpdateInv'
    BY <1>2, <2>2, <2>3, <2>4, <2>5, NoUpdateAfter DEF UpdateShape
  <2> QED
    BY <1>9, <2>3, <2>6 DEF SoundStep
<1> QED
  BY <1>3, <1>4, <1>5, <1>6, <1>7, <1>8, <1>10, <1>11, <1>12, <1>13 DEF Next

LEMMA UpdateInvInit == Init => UpdateInv
<1> SUFFICES ASSUME Init PROVE UpdateInv
  OBVIOUS
<1>1. /\ slot = [s \in {0, 1} |->
               [k \in 0 .. SlotLen - 1 |->
                  IF s = 0 /\ k < BuildLen[Factory] THEN <<Factory, k>> ELSE Garbled]]
      /\ selected = [slot |-> 0, state |-> "valid"] /\ booted = 0 /\ up = NoUpdate /\ upFaults = 0
  BY DEF Init, UpdateInit
<1>2. 0 \in 0 .. SlotLen /\ <<>> \in Seq(Units)
  BY SlotAssumption, EmptySeq
<1> QED
  BY <1>1, <1>2 DEF UpdateInv, UpdateShape, InSlot, NoUpdate

\* An update whose bytes and version are the announced ones, and no cell or erase of whose slot
\* failed, is made the next boot's, whatever the sizes of chunk, sector, slot and image: no erase
\* ahead hits a sector already written and none is written unerased (Update::take, erase_ahead,
\* finish in update.rs).
THEOREM SoundUpdateActivatesHolds == Spec => SoundUpdateActivates
<1>1. UpdateInv /\ [Next]_vars => UpdateInv' /\ [SoundStep]_vars
  BY UpdateStep
<1> QED
  BY <1>1, UpdateInvInit, PTL DEF Spec, SoundUpdateActivates, SoundStep
===============================================================================
