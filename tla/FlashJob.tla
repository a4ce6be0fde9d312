------------------------------ MODULE FlashJob ------------------------------
(***************************************************************************)
(* Flashing a board over SWD: the bridge's job (bridge/core/src/flash.rs), *)
(* one bounded piece per service pass, against the board's own core, which *)
(* runs the RAM loader (bridge/loader/f1x.S) the job feeds through a ring  *)
(* (bridge/core/src/loader.rs).                                            *)
(*                                                                         *)
(* A piece of the job is one step and the loader's halfwords fall between  *)
(* them: the words a piece writes are published by its last write alone,   *)
(* of wp.  One unit of data stands for a page, for the chunk the bridge    *)
(* puts in the ring between two advances of wp, and for the read of one    *)
(* verify piece (1 KiB each on the 1 KiB parts).  The SWD engine retries   *)
(* and reconnects under an operation; one that still fails ends the job.   *)
(***************************************************************************)
EXTENDS Integers, Sequences

CONSTANTS
  Pages,      \* pages of the board's flash below its store
  RingLen,    \* the ring, in chunks: 2 or 4
  Images,     \* the board images there are
  Size,       \* their pages
  Bootable,   \* those of them whose firmware writes its mailbox header
  Installed,  \* the image the board has at first
  MaxFaults   \* bound: failed operations, bad cells, hung loaders, board resets

ASSUME PagesAssumption == Pages \in Nat \ {0}
ASSUME RingLenAssumption == RingLen \in Nat \ {0, 1}
ASSUME SizeAssumption == Size \in [Images -> 1 .. Pages]
ASSUME InstalledAssumption == Installed \in Images
ASSUME BootableAssumption == Bootable \subseteq Images

VARIABLES
  \* the board
  flash,   \* a page's content: a unit of an image, Blank (erased) or Torn
  core,    \* "fw" running its flash or "halted" in it; "loader", "stopped" or "hung" in the loader
  magic,   \* the header's first word reads MBX1
  locked,  \* the flash controller's LK
  sram,    \* the loader's control words and ring
  ld,      \* the loader's registers
  \* the bridge
  job, run, buf,   \* the job, its loader run, and the image buffer it programs
  faults

board == <<flash, core, magic, locked, sram, ld>>
flashVars == <<board, job, run, buf, faults>>

Blank == <<"blank", 0>>
Torn == <<"torn", 0>>
NoJob == [step |-> "none"]
Zero == -1     \* the 0 a control word reads at the end of a run or after an error

\* The image as the buffer holds it.
Image(m) == [k \in 1 .. Size[m] |-> <<m, k - 1>>]

Halted == core \in {"halted", "stopped"}

\* The board runs a whole image whose firmware comes up.
CanBoot == \E m \in Bootable : \A p \in 0 .. Size[m] - 1 : flash[p] = <<m, p>>

FlashInit ==
  /\ flash = [p \in 0 .. Pages - 1 |-> IF p < Size[Installed] THEN <<Installed, p>> ELSE Blank]
  /\ core = "fw" /\ magic = (Installed \in Bootable) /\ locked = TRUE
  /\ sram = [wp |-> 0, rp |-> 0, ring |-> [c \in 0 .. RingLen - 1 |-> Blank]]
  /\ ld = [at |-> 0, left |-> 0, rp |-> 0, bad |-> FALSE]
  /\ job = NoJob
  /\ run = [sent |-> 0, wp |-> 0, rp |-> 0, phase |-> "feed"]
  /\ buf = <<>>
  /\ faults = 0

-----------------------------------------------------------------------------
\* The job.

\* since is history: the faults before it.
NewJob(finish) ==
  [step |-> "prepare", at |-> 0, seg |-> 0, finish |-> finish, since |-> faults]

To(step, at) == job' = [job EXCEPT !.step = step, !.at = at]

\* Page 1, 2, .. last, then page 0.
PageAt(i) == IF i + 1 < Len(buf) THEN i + 1 ELSE 0

SegmentFromZero(k) == 0

\* The loader runs: pages 1 and up, then page 0; one run for an image of one page.
LastSegment == IF Len(buf) > 1 THEN 1 ELSE 0
SegmentFrom(k) == IF Len(buf) > 1 /\ k = 0 THEN 1 ELSE 0
SegmentTo(k) == IF Len(buf) > 1 /\ k = 1 THEN 1 ELSE Len(buf)

Prepare ==
  /\ job.step = "prepare"
  /\ To("erase", 0)
  /\ core' = "halted" /\ locked' = FALSE
  /\ UNCHANGED <<flash, magic, sram, ld, run, buf, faults>>

\* A controller that locked itself meanwhile (a board reset) ignores the erase and reports no error.
Erase ==
  /\ job.step = "erase"
  /\ flash' = IF locked THEN flash ELSE [flash EXCEPT ![PageAt(job.at)] = Blank]
  /\ IF job.at + 1 = Len(buf) THEN To("load", 0) ELSE To("erase", job.at + 1)
  /\ UNCHANGED <<core, magic, locked, sram, ld, run, buf, faults>>

\* Run::start on a halted core: control words, registers, resume.
StartSegment(k) ==
  /\ Halted
  /\ job' = [job EXCEPT !.step = "program", !.seg = k]
  /\ run' = [sent |-> 0, wp |-> 0, rp |-> 0, phase |-> "feed"]
  /\ sram' = [sram EXCEPT !.wp = 0, !.rp = 0]
  /\ ld' = [at |-> SegmentFrom(k), left |-> SegmentTo(k) - SegmentFrom(k), rp |-> 0, bad |-> FALSE]
  /\ core' = "loader"

\* The loader's code goes to the start of the RAM, over the header of the firmware before.
Load ==
  /\ job.step = "load"
  /\ StartSegment(0)
  /\ magic' = FALSE
  /\ UNCHANGED <<flash, locked, buf, faults>>

InPhase(p) == job.step = "program" /\ run.phase = p

FullLate(rp) == ((run.wp + RingLen - rp) % RingLen) + 1 > RingLen

\* One more chunk would make wp meet this rp.
Full(rp) == ((run.wp + RingLen - rp) % RingLen) + 1 >= RingLen

CanFeed == ~ Full(run.rp) \/ (sram.rp # Zero /\ ~ Full(sram.rp))

\* The chunk is written, then wp; rp is read first only when the ring would be full.
Feed ==
  /\ InPhase("feed") /\ CanFeed
  /\ LET wp == (run.wp + 1) % RingLen
         chunk == buf[SegmentFrom(job.seg) + run.sent + 1]
         sent == run.sent + 1
     IN /\ sram' = [sram EXCEPT !.ring[run.wp] = chunk, !.wp = wp]
        /\ run' = [sent |-> sent, wp |-> wp,
                   rp |-> IF Full(run.rp) THEN sram.rp ELSE run.rp,
                   phase |-> IF sent = SegmentTo(job.seg) - SegmentFrom(job.seg)
                             THEN "drain" ELSE "feed"]
  /\ UNCHANGED <<flash, core, magic, locked, ld, job, buf, faults>>

\* rp reads 0: the loader's error exit.
SeesError ==
  /\ \/ InPhase("feed") /\ Full(run.rp)
     \/ InPhase("drain")
  /\ sram.rp = Zero
  /\ run' = [run EXCEPT !.phase = "halt"]
  /\ UNCHANGED <<board, job, buf, faults>>

\* The loader has taken every chunk: wp reads 0 from here.
Drained ==
  /\ InPhase("drain")
  /\ sram.rp # Zero /\ sram.rp = run.wp
  /\ sram' = [sram EXCEPT !.wp = Zero]
  /\ run' = [run EXCEPT !.phase = "halt", !.rp = sram.rp]
  /\ UNCHANGED <<flash, core, magic, locked, ld, job, buf, faults>>

\* run_result: no error bit, and the next flash address is the end of the range.
RunOk == ~ ld.bad /\ ld.at = SegmentTo(job.seg)

NextSegment ==
  /\ InPhase("halt") /\ Halted /\ RunOk
  /\ job.seg < LastSegment
  /\ StartSegment(job.seg + 1)
  /\ UNCHANGED <<flash, magic, locked, buf, faults>>

Programmed ==
  /\ InPhase("halt") /\ Halted /\ RunOk
  /\ job.seg = LastSegment
  /\ To("verify", 0)
  /\ locked' = TRUE
  /\ UNCHANGED <<flash, core, magic, sram, ld, run, buf, faults>>

MatchesButLast == job.at + 1 = Len(buf) \/ flash[job.at] = buf[job.at + 1]

\* What the piece reads back is what it programmed.
Matches == flash[job.at] = buf[job.at + 1]

Verify ==
  /\ job.step = "verify" /\ Matches
  /\ job.at + 1 < Len(buf)
  /\ To("verify", job.at + 1)
  /\ UNCHANGED <<board, run, buf, faults>>

\* restart: the magic is cleared (a boot since the load may have written it) and the core reset.
Restart ==
  /\ job.step = "verify" /\ Matches
  /\ job.at + 1 = Len(buf) /\ job.finish = "boot"
  /\ To("boot", 0)
  /\ core' = "fw" /\ magic' = FALSE /\ locked' = TRUE
  /\ UNCHANGED <<flash, sram, ld, run, buf, faults>>

Advance ==
  \/ Prepare \/ Erase \/ Load
  \/ Feed \/ SeesError \/ Drained \/ NextSegment \/ Programmed
  \/ Verify \/ Restart

\* The last piece of a job that goes well: halted at the reset vector for GDB, or booted.
Succeeds ==
  \/ /\ job.step = "verify" /\ Matches
     /\ job.at + 1 = Len(buf) /\ job.finish = "halt"
     /\ core' = "halted" /\ locked' = TRUE
     /\ UNCHANGED <<flash, magic, sram, ld, run, faults>>
  \/ /\ job.step = "boot" /\ magic
     /\ UNCHANGED <<board, run, faults>>

WaitingForRing ==
  \/ InPhase("feed") /\ ~ CanFeed /\ sram.rp # Zero
  \/ InPhase("drain") /\ sram.rp \notin {Zero, run.wp}

\* Nothing moves: the ring stays full, is not drained, or the core does not halt.
Waiting ==
  \/ InPhase("feed") /\ ~ CanFeed /\ sram.rp # Zero
  \/ InPhase("drain") /\ sram.rp \notin {Zero, run.wp}
  \/ InPhase("halt") /\ ~ Halted

\* What the job itself finds wrong: a core that is not halted for its registers, a failed run,
\* nothing moving for LOADER_STALL, a read-back that differs, no header within BOOT_TIMEOUT.
Wrong ==
  \/ job.step = "load" /\ ~ Halted
  \/ InPhase("halt") /\ Halted /\ ~ RunOk
  \/ Waiting /\ core \in {"hung", "fw"}
  \/ job.step = "verify" /\ ~ Matches
  \/ job.step = "boot" /\ ~ magic /\ ~ CanBoot

\* What a failed operation of the piece may leave behind.
PartOfPiece ==
  \/ UNCHANGED <<flash, core, magic>>
  \/ job.step = "prepare" /\ core' = "halted" /\ UNCHANGED <<flash, magic>>
  \/ /\ job.step = "erase" /\ ~ locked
     /\ flash' = [flash EXCEPT ![PageAt(job.at)] = Torn]
     /\ UNCHANGED <<core, magic>>
  \/ /\ job.step = "verify" /\ job.at + 1 = Len(buf) /\ job.finish = "boot"
     /\ magic' = FALSE /\ UNCHANGED <<flash, core>>
  \/ job.step = "load" /\ magic' = FALSE /\ UNCHANGED <<flash, core>>

\* An error ends the job: the lock is tried, and the core is left as it is.  A core that is not
\* halted refuses its registers only when the loader's code is over the header already.
Fails ==
  /\ job # NoJob
  /\ \/ /\ Wrong
        /\ magic' = (magic /\ job.step # "load")
        /\ locked' = TRUE
        /\ UNCHANGED <<flash, core, faults>>
     \/ /\ faults < MaxFaults /\ faults' = faults + 1
        /\ locked' \in {TRUE, locked}
        /\ PartOfPiece
  /\ UNCHANGED <<sram, ld, run>>

-----------------------------------------------------------------------------
\* The board.

\* The loader has a chunk to program.
LoaderHas == core = "loader" /\ ~ ld.bad /\ ld.left > 0 /\ sram.wp \notin {Zero, ld.rp}

Advanced ==
  LET rp == (ld.rp + 1) % RingLen
  IN /\ ld' = [ld EXCEPT !.at = @ + 1, !.left = @ - 1, !.rp = rp]
     /\ sram' = [sram EXCEPT !.rp = rp]

\* An erased halfword is left alone; a cell that will not take its data says nothing.
LoaderPrograms ==
  /\ LoaderHas
  /\ LET chunk == sram.ring[ld.rp]
     IN \/ /\ chunk = Blank
           /\ UNCHANGED <<flash, faults>>
        \/ /\ chunk # Blank /\ flash[ld.at] = Blank /\ ~ locked
           /\ \/ flash' = [flash EXCEPT ![ld.at] = chunk] /\ UNCHANGED faults
              \/ /\ faults < MaxFaults /\ faults' = faults + 1
                 /\ flash' = [flash EXCEPT ![ld.at] = Torn]
  /\ Advanced
  /\ UNCHANGED <<core, magic, locked, job, run, buf>>

\* PGERR or WPERR: the run stops at the failing halfword with rp = 0.
LoaderErrs ==
  /\ LoaderHas
  /\ sram.ring[ld.rp] # Blank
  /\ \/ (locked \/ flash[ld.at] # Blank) /\ UNCHANGED <<flash, faults>>
     \/ /\ ~ locked /\ faults < MaxFaults /\ faults' = faults + 1
        /\ flash' = [flash EXCEPT ![ld.at] = Torn]
  /\ sram' = [sram EXCEPT !.rp = Zero]
  /\ ld' = [ld EXCEPT !.bad = TRUE]
  /\ core' = "stopped"
  /\ UNCHANGED <<magic, locked, job, run, buf>>

\* Every halfword programmed, wp reads 0, or the error exit resumed: a breakpoint.
LoaderStops ==
  /\ core = "loader"
  /\ ld.left = 0 \/ sram.wp = Zero \/ ld.bad
  /\ core' = "stopped"
  /\ UNCHANGED <<flash, magic, locked, sram, ld, job, run, buf, faults>>

LoaderHangs ==
  /\ core = "loader" /\ faults < MaxFaults
  /\ core' = "hung" /\ faults' = faults + 1
  /\ UNCHANGED <<flash, magic, locked, sram, ld, job, run, buf>>

\* The firmware comes up and writes its header.
BoardBoots ==
  /\ core = "fw" /\ ~ magic /\ CanBoot
  /\ magic' = TRUE
  /\ UNCHANGED <<flash, core, locked, sram, ld, job, run, buf, faults>>

\* Power lost or NRST: the controller locks itself; the RAM's words are the firmware's again.
BoardResets ==
  /\ faults < MaxFaults /\ faults' = faults + 1
  /\ core' = "fw" /\ magic' = FALSE /\ locked' = TRUE
  /\ UNCHANGED <<flash, sram, ld, job, run, buf>>

Loader == LoaderPrograms \/ LoaderErrs \/ LoaderStops
Board == Loader \/ LoaderHangs \/ BoardBoots \/ BoardResets
===============================================================================
