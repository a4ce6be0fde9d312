------------------------------- MODULE Bridge -------------------------------
(***************************************************************************)
(* The bridge's command service (bridge/core/src/svc.rs) in its service    *)
(* loop (bridge/src/main.rs): controllers that send board images, a GDB    *)
(* client that loads one into the same buffer (bridge/core/src/gdb.rs),    *)
(* the controls of the board that both have, the flash job they start, the *)
(* bridge's own update beside it, and the resets of the bridge.  One       *)
(* handler, or one piece of the job, is a step: the loop runs them one at  *)
(* a time, the board beside it.                                            *)
(*                                                                         *)
(* A request that is refused, or a chunk that is only acknowledged,        *)
(* changes nothing and is no step.                                         *)
(***************************************************************************)
EXTENDS FlashJob, Update

CONSTANTS
  GdbImage,  \* the image the GDB client loads
  NoImage,
  Budgets    \* bounds: begins, updates and controls asked for, whether there is a GDB client, resets

ASSUME GdbImageAssumption == GdbImage \in Images
ASSUME NoImageAssumption == NoImage \notin Images

VARIABLES
  sha,      \* the image the last accepted FLASH_BEGIN announced
  have,     \* the chunks of it that arrived
  load,     \* GDB's load: "idle", "collecting", "flashing", "ok" or "failed"
  gdb,      \* "none", or a session that takes the core for "running" or "halted"
  waits,    \* GDB waits for a stop
  held,     \* vFlashDone is held back until the job is over
  status,   \* history: the last FLASH_STATUS of the transfer
  begun, upBegun,   \* history: the transfers asked for, whose chunks may arrive from then on
  budget

serviceVars == <<sha, have, load, gdb, waits, held, status>>
boundVars == <<begun, upBegun, budget>>
vars == <<flashVars, updateVars, serviceVars, boundVars>>

Init ==
  /\ FlashInit /\ UpdateInit
  /\ sha = NoImage /\ have = {}
  /\ load = "idle" /\ gdb = "none" /\ waits = FALSE /\ held = FALSE
  /\ status = "none"
  /\ begun = {} /\ upBegun = {}
  /\ budget \in Budgets

Busy == job # NoJob
GdbOwnsImage == load \in {"collecting", "flashing"}

-----------------------------------------------------------------------------
\* Controllers.

FlashBegin(m) ==
  /\ budget.begins > 0
  /\ budget' = [budget EXCEPT !.begins = @ - 1]
  /\ begun' = begun \cup {m}
  /\ ~ (Busy \/ gdb = "halted" \/ GdbOwnsImage)
  /\ buf' = [k \in 1 .. Size[m] |-> Blank]
  /\ sha' = m /\ have' = {} /\ status' = "none"
  /\ UNCHANGED <<board, job, run, faults, updateVars, load, gdb, waits, held, upBegun>>

TakesChunkWhileBusy(p) == buf # <<>> /\ ~ GdbOwnsImage /\ p < Len(buf)

\* There is a transfer, its job has not started, and the chunk falls in it.
TakesChunk(p) == buf # <<>> /\ ~ GdbOwnsImage /\ ~ Busy /\ p < Len(buf)

\* A chunk of any transfer asked for, in any order and any number of times.
FlashChunk(m, p) ==
  /\ m \in begun /\ TakesChunk(p)
  /\ LET now == [buf EXCEPT ![p + 1] = <<m, p>>]
         in == have \cup {p}
     IN /\ have' = in
        /\ \/ /\ in # 0 .. Len(buf) - 1
              /\ buf' = now /\ UNCHANGED <<job, status>>
           \/ /\ in = 0 .. Len(buf) - 1 /\ now = Image(sha)
              /\ buf' = now /\ job' = NewJob("boot") /\ status' = "receiving"
           \/ /\ in = 0 .. Len(buf) - 1 /\ now # Image(sha)
              /\ buf' = <<>> /\ status' = "failed" /\ UNCHANGED job
  /\ UNCHANGED <<board, run, faults, updateVars, sha, load, gdb, waits, held, boundVars>>

-----------------------------------------------------------------------------
\* The GDB session.

\* The loader of a flash that was cut short may be what is halted.
Stopped == IF core \in {"loader", "hung"} THEN "stopped" ELSE IF core = "fw" THEN "halted" ELSE core

\* An attach halts, if no job holds the engine and the board disarms.
GdbOpen ==
  /\ budget.gdb /\ gdb = "none"
  /\ \/ ~ Busy /\ core' = Stopped /\ gdb' = "halted"
     \/ gdb' = "running" /\ UNCHANGED core
  /\ waits' = FALSE /\ held' = FALSE
  /\ UNCHANGED <<flash, magic, locked, sram, ld, job, run, buf, faults, updateVars,
                 sha, have, load, status, boundVars>>

Resumed == CASE core = "halted" -> "fw" [] core = "stopped" -> "loader" [] OTHER -> core

\* A client leaving resumes a halted core, unless a job holds the engine, and drops its load.
GdbClose ==
  /\ gdb # "none"
  /\ core' = IF ~ Busy /\ gdb = "halted" THEN Resumed ELSE core
  /\ gdb' = "none" /\ waits' = FALSE /\ held' = FALSE
  /\ buf' = IF load = "collecting" THEN <<>> ELSE buf
  /\ load' = IF load = "flashing" THEN load ELSE "idle"
  /\ UNCHANGED <<flash, magic, locked, sram, ld, job, run, faults, updateVars,
                 sha, have, status, boundVars>>

\* A packet is read: GDB waits for no stop and none is held back.
Packet == gdb # "none" /\ ~ waits /\ ~ held

\* vFlashErase and vFlashWrite; the first of a load takes the buffer.
GdbWrite(p) ==
  /\ Packet /\ ~ Busy
  /\ LET image == IF load = "collecting" THEN buf ELSE <<>>
         len == IF p < Len(image) THEN Len(image) ELSE p + 1
     IN buf' = [k \in 1 .. len |->
                  IF k = p + 1 THEN <<GdbImage, p>>
                  ELSE IF k <= Len(image) THEN image[k] ELSE Blank]
  /\ load' = "collecting"
  /\ have' = {}
  /\ UNCHANGED <<board, job, run, faults, updateVars, sha, gdb, waits, held, status, boundVars>>

\* vFlashDone: the job on what was collected; with nothing collected it is done at once.
GdbDone ==
  /\ Packet
  /\ held' = TRUE
  /\ \/ /\ load = "collecting"
        /\ job' = NewJob("halt") /\ load' = "flashing"
     \/ load # "collecting" /\ load' = "ok" /\ UNCHANGED job
  /\ UNCHANGED <<board, run, buf, faults, updateVars, sha, have, gdb, waits, status, boundVars>>

\* The packet takes the result; after a load that went well the session has a halted core.
GdbResult ==
  /\ held /\ load # "flashing"
  /\ held' = FALSE /\ load' = "idle"
  /\ gdb' = IF load = "ok" THEN "halted" ELSE gdb
  /\ UNCHANGED <<flashVars, updateVars, sha, have, waits, status, boundVars>>

\* Continue or step: what fails on the way to the core is ignored, and with a job on the engine
\* nothing reaches it; the client waits for a stop either way.
GdbContinue ==
  /\ Packet
  /\ core' \in {core} \cup IF Busy THEN {} ELSE {Resumed, Stopped}
  /\ gdb' = "running" /\ waits' = TRUE
  /\ UNCHANGED <<flash, magic, locked, sram, ld, job, run, buf, faults, updateVars,
                 sha, have, load, held, status, boundVars>>

\* An interrupt halts the core; a poll of a running session finds it halted.
GdbStops ==
  /\ ~ Busy
  /\ \/ waits
     \/ gdb = "running" /\ Halted
  /\ core' = Stopped /\ gdb' = "halted" /\ waits' = FALSE
  /\ UNCHANGED <<flash, magic, locked, sram, ld, job, run, buf, faults, updateVars,
                 sha, have, load, held, status, boundVars>>

Gdb ==
  \/ GdbOpen \/ GdbClose \/ GdbDone \/ GdbResult \/ GdbContinue \/ GdbStops
  \/ \E p \in 0 .. Size[GdbImage] - 1 : GdbWrite(p)

-----------------------------------------------------------------------------
\* Controls of the board: TARGET_CTRL, STORE_ERASE and CLEAR_PROTECTION, and the monitor commands of
\* a GDB client.  All of them are refused while a job holds the engine.

\* SYSRESETREQ keeps the RAM, and so the header; a core that was halted may stay so.
Resets ==
  /\ core' \in {"fw"} \cup IF Halted THEN {"halted"} ELSE {}
  /\ locked' = TRUE
  /\ UNCHANGED <<flash, magic, faults>>

\* reset_halt, and the same under NRST.
ResetsToHalt ==
  /\ core' = "halted" /\ locked' = TRUE
  /\ UNCHANGED <<flash, magic, faults>>

\* The store lies above Pages: of its erase, the halt, the lock and the restart.
ErasesStore ==
  /\ core' = "fw" /\ magic' = FALSE /\ locked' = TRUE
  /\ UNCHANGED <<flash, faults>>

\* A GD32 is left halted, for the power cycle that takes the option bytes; an MM32 is mass-erased
\* and reset at once.
ClearsProtection ==
  /\ locked' = TRUE
  /\ \/ core' = Stopped /\ UNCHANGED flash
     \/ core' = "fw" /\ flash' = [p \in 0 .. Pages - 1 |-> Blank]
  /\ UNCHANGED <<magic, faults>>

\* A control that fails on the way leaves the core halted, the controller perhaps unlocked, or the
\* core reset and not caught; a mass erase may have been done, or begun.
ControlFails(flashes) ==
  /\ faults < MaxFaults /\ faults' = faults + 1
  /\ \/ core' \in {Stopped, "halted"} /\ locked' \in BOOLEAN
     \/ core' = "fw" /\ locked' = TRUE
  /\ flash' \in flashes
  /\ UNCHANGED magic

\* The restart's first write was its last.
RestartFails ==
  /\ faults < MaxFaults /\ faults' = faults + 1
  /\ core' = "halted" /\ magic' = FALSE /\ locked' = TRUE
  /\ UNCHANGED flash

MassErased == {[p \in 0 .. Pages - 1 |-> u] : u \in {Blank, Torn}}

Control ==
  /\ budget.controls > 0 /\ budget' = [budget EXCEPT !.controls = @ - 1]
  /\ ~ Busy
  /\ UNCHANGED <<sram, ld, job, run, buf, updateVars, sha, have, load, waits, held, status,
                 begun, upBegun>>

\* A session that holds the core does not keep a controller from halting, resuming or resetting it.
TargetCtrl ==
  /\ Control
  /\ \/ core' \in {Stopped, Resumed} /\ UNCHANGED <<flash, magic, locked, faults>>
     \/ Resets \/ ResetsToHalt \/ ControlFails({flash})
  /\ UNCHANGED gdb

StoreErase ==
  /\ Control /\ gdb # "halted" /\ ~ GdbOwnsImage
  /\ ErasesStore \/ ControlFails({flash}) \/ RestartFails
  /\ UNCHANGED gdb

ClearProtection ==
  /\ Control /\ gdb # "halted" /\ ~ GdbOwnsImage
  /\ ClearsProtection \/ ControlFails(MassErased \cup {flash})
  /\ UNCHANGED gdb

\* monitor reset, reset halt, clear-protection; the last is not refused to the session's own client.
Monitor ==
  /\ Control /\ Packet
  /\ \/ Resets /\ gdb' = "running"
     \/ ResetsToHalt /\ gdb' = "halted"
     \/ (ClearsProtection \/ ControlFails(MassErased \cup {flash})) /\ UNCHANGED gdb

Controls == TargetCtrl \/ StoreErase \/ ClearProtection \/ Monitor

-----------------------------------------------------------------------------
\* The job's piece of a service pass.

JobEnds(ok) ==
  /\ job' = NoJob /\ buf' = <<>>
  /\ \/ /\ load = "flashing"
        /\ load' = (IF ok THEN "ok" ELSE "failed")
        /\ UNCHANGED status
     \/ /\ load # "flashing"
        /\ status' = (IF ok THEN "booted" ELSE "failed")
        /\ UNCHANGED load

JobAdvances == Advance /\ UNCHANGED <<updateVars, serviceVars, boundVars>>
JobSucceeds ==
  /\ Succeeds /\ JobEnds(TRUE)
  /\ UNCHANGED <<updateVars, sha, have, gdb, waits, held, boundVars>>
JobFails ==
  /\ Fails /\ JobEnds(FALSE)
  /\ UNCHANGED <<updateVars, sha, have, gdb, waits, held, boundVars>>
Poll == JobAdvances \/ JobSucceeds \/ JobFails

-----------------------------------------------------------------------------
\* The bridge's own update, and resets of the bridge.

AskUpdate(u, version) ==
  /\ budget.updates > 0
  /\ budget' = [budget EXCEPT !.updates = @ - 1]
  /\ upBegun' = upBegun \cup {u}
  /\ UpdateBegin(u, version)
  /\ UNCHANGED <<flashVars, serviceVars, begun>>

OfferUpdate(u, i) ==
  LET off == i * Chunk
      data == SubSeq(BuildImage(u), off + 1, Lowest(off + Chunk, BuildLen[u]))
  IN /\ off < BuildLen[u]
     /\ UpdateChunk(off, data) \/ UpdateChunkFails(off, data) \/ ActivationFails(off, data)
     /\ UNCHANGED <<flashVars, serviceVars, boundVars>>

Idle == (EraseAhead \/ UpdateConfirm) /\ UNCHANGED <<flashVars, serviceVars, boundVars>>

\* REBOOT_GRACE after an activation, or a loss of power: the bridge forgets all it held in RAM,
\* the board's core stays as it is.
BridgeResets ==
  /\ \/ reboot /\ UNCHANGED budget
     \/ budget.resets > 0 /\ budget' = [budget EXCEPT !.resets = @ - 1]
  /\ Rollback
  /\ job' = NoJob /\ buf' = <<>>
  /\ sha' = NoImage /\ have' = {} /\ status' = "none"
  /\ load' = "idle" /\ gdb' = "none" /\ waits' = FALSE /\ held' = FALSE
  /\ UNCHANGED <<board, run, faults, begun, upBegun>>

Next ==
  \/ \E m \in Images : FlashBegin(m) \/ \E p \in 0 .. Size[m] - 1 : FlashChunk(m, p)
  \/ Gdb
  \/ Controls
  \/ Poll
  \/ \E u \in Builds : \/ \E version \in BOOLEAN : AskUpdate(u, version)
                       \/ \E i \in 0 .. BuildLen[u] - 1 : u \in upBegun /\ OfferUpdate(u, i)
  \/ Idle
  \/ Board /\ UNCHANGED <<updateVars, serviceVars, boundVars>>
  \/ BridgeResets

Spec == Init /\ [][Next]_vars

\* The service loop polls the job in every pass; a core that runs makes steps.
FairSpec ==
  /\ Spec
  /\ WF_vars(Poll)
  /\ WF_vars((Loader \/ BoardBoots) /\ UNCHANGED <<updateVars, serviceVars, boundVars>>)

-----------------------------------------------------------------------------
\* The image a controller's job programs is the one whose SHA-256 its last FLASH_BEGIN announced,
\* whole and unchanged from the first erase to the last read-back, whatever other controllers'
\* chunks and controls, late duplicates and GDB's load do with the one buffer (Service::chunk,
\* gdb_image).
ProgramsPromised == (Busy /\ job.finish = "boot") => buf = Image(sha)

\* While a job programs, the vector table is written last: page 0 takes data only when every page
\* above it holds the image (or a cell that did not take it), with the loader running beside the
\* job and every wrap of the ring (FlashJob::segment).
VectorTableLast ==
  [][(Busy /\ job.step = "program" /\ flash'[0] \notin {flash[0], Blank}) =>
       \A p \in 1 .. Len(buf) - 1 : flash[p] \in {buf[p + 1], Torn}]_vars

\* A flash that is reported done is done: every page reads the image, and a controller is told
\* "booted" only when the image that reads so is one that comes up; GDB's load leaves the core
\* halted (FlashJob::run, restart).
DoneIsTrue ==
  [][/\ (status = "receiving" /\ status' = "booted") =>
          sha \in Bootable /\ \A p \in 0 .. Size[sha] - 1 : flash[p] = <<sha, p>>
     /\ (load = "flashing" /\ load' = "ok" /\ ~ Busy') =>
          core' = "halted" /\ \A p \in 0 .. Len(buf) - 1 : flash[p] = buf[p + 1]]_vars

\* A flash cut short can be retried: whatever an earlier job, a reset of the bridge in the middle of
\* one, a control that failed half way or another failure left behind (a loader still running, torn
\* or erased pages, an unlocked controller, a halted core), a job during which nothing fails ends
\* well, if its firmware comes up at all (flash.rs, step 4).
RetrySucceeds ==
  [][(Busy /\ ((status = "receiving" /\ status' = "failed")
               \/ (load = "flashing" /\ load' = "failed"))) =>
       faults' > job.since \/ (job.finish = "boot" /\ sha \notin Bootable)]_vars

\* An update whose bytes and version are the announced ones, and no cell or erase of whose slot
\* failed, is made the next boot's: no erase ahead hits a sector already written and none is
\* written unerased, across duplicates, chunks over two sectors and updates begun before
\* (Update::take, erase_ahead, finish).
SoundUpdateActivates ==
  [][(up.len > 0 /\ up'.len = 0 /\ Len(up'.got) = up.len /\ upFaults' = 0) =>
       up'.got # up.sha \/ ~ up.version]_vars

\* Every job ends: a loader that hangs, or a board reset under it, does not hold the engine and the
\* image buffer for good (LOADER_STALL_US, BOOT_TIMEOUT_US).
FlashEnds == Busy ~> ~ Busy

\* "A flash, a store erase and a protection clear are also refused with BUSY while a GDB session
\* holds the target halted" (svc.rs).
NoFlashUnderHalt == [][(gdb = "halted" /\ ~ Busy /\ Busy') => load' = "flashing"]_vars

\* "A client leaving clears them again and resumes a halted core" (gdb.rs): a core is not left
\* halted by a load of a client that is gone.
LeavingResumes ==
  [][(load = "flashing" /\ load' = "ok" /\ ~ Busy') => gdb # "none"]_vars

\* "falls back to the other slot at the next reset" (update.rs): while the slot running waits for
\* confirmation, the other one holds a whole image.
FallbackWhole == selected = [slot |-> booted, state |-> "pending"] => Whole(1 - booted)

\* "Only then is the slot made the next boot's" (update.rs): the slot a reset would boot for the
\* first time holds a whole image.
NextBootWhole == selected.state = "new" => Whole(selected.slot)

\* "page 0 last means a flash cut short leaves an erased vector table" (flash.rs): a board that is
\* not running a job's loader never has a vector table over pages of its image that are gone.
CutLeavesErased ==
  \A m \in Images : flash[0] = <<m, 0>> => \A p \in 1 .. Size[m] - 1 : flash[p] # Blank
===============================================================================
