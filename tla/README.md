# A verification of hoverboard-firmware

TLA+ models of the firmware in this repository, TLC configurations that check them on small
instances, and theorems about them that TLAPS proves for every instance. Paths below are relative to
the repository root (`src/` in PROJECT.json).

To run it, from this directory: `tlc -config MCStore.cfg MCStore` (one line per run of the table in
section 4; the module of a `.cfg` is in PROJECT.json), `tlapm StoreProofs.tla` for the proofs.

## 1. The system

A hoverboard is one or two motor boards (GD32F1x0/F10x) that drive a wheel each, optionally a BLE
module or an ESP32-C3 bridge, and hosts (phone app, command line) that talk to them. On a two-board
machine the boards are bolted to one frame (a *rigid* pair: a leader that balances and a follower that
copies) or stand alone on their own wheel.

Each motor board runs one image, built of these parts. "Thread" is the main loop; the only preemption
is by interrupts.

| Part | State | Operations | Talks to |
|---|---|---|---|
| Flash config store, `shared/store` | two flash pages; in RAM the active page, the frontier, the page sequence number | `mount` (with auto-compaction), `append`, `erase_value`, `compact`, `find_latest` | the flash controller; called by the responder, the arm sequence (re-read), the boot, the odometer |
| Config responder and walk, `shared/net` | armed fact, own address, forwarding table, one outstanding request | `CONFIG_READ/WRITE/WRITE_MULTI/COMPACT`, `ASSIGN`, enumeration; forwards PDUs that are not its own | the store; the links; reads the armed fact that the main loop samples |
| Control pass, `motorcontroller/orchestrator` | health latches, tilt latch, link inbox, ages, published demand | `control_task` at 250 Hz from the scheduler | everything below; publishes the word that the motor ISR drives |
| Mode machine and fault latches, `motorcontroller/state` | mode (OFF, INIT, READY, RUN, SHUTDOWN), MOE grant, latch | `tick` | fault mask and request of the pass |
| Engagement machine and laws, `motorcontroller/control` | sub-state, soft-start envelope, counters, carries | `fsm_step`, `wheel_split`, `drive_turn_step` | the producer's inputs, the mode |
| Arming gate, `motorcontroller/firmware/src/arm.rs` | ARMED, CONFIRM_REFUSED | `decide`, `enact`, arm and shutdown sequences | motor timer, store (arm-time re-read of the role) |
| Control link, `shared/linkctl` and the link inbox | peer slot, remote mirror, drive slots, ages | accept a frame, age, stale tests, cyclic emission | the partner board; controllers (app, tool) |
| Task scheduler, `motorcontroller/scheduler` | four slots: callback, counter, reload, runcount | `register`, `unregister`, `tick` (SysTick handler), `dispatch` (main loop) | control task, input task, one-shots |
| Link layer, `shared/link` | framer state, reassembly buffers, packet ids | frame, fragment, reassemble | UART, BLE and mailbox byte streams |
| SWD mailbox, `shared/swd-mailbox`, `shared/swd-bridge-core` | two single-producer rings in the board's SRAM, an epoch word and its acknowledgement | board: drain, flush at a new epoch; bridge: attach, produce, consume, hold | the board's main loop on one side, the bridge's port over SWD on the other |
| Walk controller and discovery, `shared/net` | controller: map, queue, one outstanding request; node: address, routing rows, a probe in progress | HELLO, PROBE_PORTS, ASSIGN, learning and forwarding, retries | the links |
| Bridge node and services, `bridge/core` | image buffer, flash job, GDB session, update in progress | FLASH_BEGIN, FLASH_CHUNK, the job's pieces, TARGET_CTRL, STORE_ERASE, CLEAR_PROTECTION, GDB packets, UPDATE_* | controllers, a GDB client, the board over SWD |
| RAM loader, `bridge/loader/f1x.S` | registers; control words and ring in the board's SRAM | programs what the ring holds | the flash job, through the ring |
| Odometer, `firmware/src/odometer.rs` | distance since the last store | store when at rest and disarmed | the store |
| Motor period ISR, `motorcontroller/commutation` | commutation and current control, hall dwell, trip counters | 16 kHz | reads the demand word, writes fault words |
| Attitude, IMU, foot pads, battery, tones, board model, HAL | filters, debouncers, drivers | per pass | inputs of the control pass |

Outside the board image: the ESP32-C3 firmware around the bridge core, the Kotlin protocol library and
the Android app, the command-line tool, benches and emulators. PROJECT.json lists all of them with their
sources; those outside section 2 are `not_modelled`, with the reason.

**How the parts interact.** The main loop drains the links, samples the armed fact for the responder,
runs the scheduler's due callbacks (the control task among them), then the slower services. The store is
reached from the loop and from callbacks, always on the one thread and never re-entered. Interrupts share
only words with it: the runcounts of the scheduler, the demand word, the ISR's fault words. Two boards
share nothing but frames on a wire, which come late or not at all. The bridge is one service loop too: it
polls its links, serves the packets, gives the flash job one bounded piece per pass, and reaches a board only
by SWD accesses, between any two of which the board runs.

**What is hard, and what must be true.**

* *Store*: power goes at any flash operation, and any operation may be refused with the power on. A
  write must take effect wholly or not at all; an acknowledged one must never be lost; the running handle
  and the next boot must read the same; the sequence number wraps; a full page must become writable.
* *Responder*: a multi-entry write stops in the middle; a `Full` answer is retried after a compaction that
  can itself fail. A reply must say what the flash holds, and an armed board must not touch flash.
* *Control pass*: five state machines, two hysteresis latches, a tilt latch and a sticky refusal read each
  other's values of this or of the previous pass. A fault must end in an inert bridge from every mode,
  torque must start from nothing, a fallen board must stay down, and nothing may block the next arm for
  ever.
* *Two boards*: each stops for the other's fault, on frames that are late or lost. Neither must hold the
  other disarmed, drive alone, drive on an old word, or balance twice.
* *Controllers*: a request lapses when its sender goes silent and must not come back by itself.
* *Scheduler*: a tick lands between any two instructions of a dispatch. No event is lost or run twice, the
  cadence does not drift, a one-shot runs once.
* *Link layer*: frames are found again behind damaged and invented bytes; a packet is put together from
  fragments against a three-bit packet id. Nothing heard whole is dropped, nothing mixed is delivered.
* *Mailbox*: two programs share a RAM, one through single memory accesses, and either may start over at any
  point. A session must lose, double and mix nothing, and two full rings must not wait for each other.
* *Walk*: nodes wake up with any addresses, equal ones included; packets are lost and requests retried, nodes
  restart. The map must be true at the end, and nobody renumbered without need.
* *Bridge*: several clients and one image buffer, a job in pieces against a loader that runs by itself, an
  update of the bridge beside it. What is programmed is what was promised, the vector table last, a failure
  can be retried, and a job always ends.

PROJECT.json `hazards` lists these at their lines, with the properties that catch each.

## 2. The modules

| Module | What it is | Code |
|---|---|---|
| `KVStore` | abstract: a map in which one write at a time takes effect wholly or not at all | `shared/store/README.md` |
| `Store` | detailed: the flash store, one action per flash operation | `shared/store` |
| `ConfigService` | `Store` with its callers: the responder's writing handlers and the odometer | `shared/net/src/walk.rs`, `firmware/src/odometer.rs`, main.rs, over `shared/store` |
| `ControlPass` | one or two boards: the control pass, the arming gate, the main loop around them, the wire | `orchestrator`, `state`, `control`, `firmware` (arm.rs, main.rs) |
| `Scheduler` | one action per memory access of `tick` and `dispatch` | `scheduler` |
| `Link` | one direction of a link: fragmentation, frames, the line, the framer, reassembly | `shared/link` |
| `Mailbox` | board and bridge over one RAM, one action per memory access of the bridge | `shared/swd-mailbox`, `shared/swd-bridge-core`, `bridge/core/src/mailbox.rs` |
| `Walk` | the walk's controller and the discovery half of every node, over ports that lose packets | `shared/net` |
| `FlashJob` | the flash job and the board it flashes: RAM loader, flash, resets | `bridge/core/src/flash.rs`, `loader.rs`, `bridge/loader/f1x.S` |
| `Update` | the bridge's own update, its slots and the bootloader's rollback | `bridge/core/src/update.rs`, `bridge/src/platform.rs` |
| `Bridge` | composes the two: controllers, a GDB client, the controls of the board, the service loop, resets of the bridge | `bridge/core/src/svc.rs`, `gdb.rs`, `bridge/src/main.rs` |
| `StoreProofs`, `ConfigServiceProofs`, `ControlProofs`, `ControlSafety`, `SchedulerProofs`, `LinkProofs`, `MailboxProofs`, `BridgeProofs` | theorems | |
| `MC...`, one per specification that is run | definitions the configurations name | |

Some definitions stand beside the one they vary, under a comment that says "Mutant": the modelled
operation with a plausible mistake in it. No specification uses them. They are there to show that each
property can fail: with the mistake in place of the operation, TLC reports the property violated under
the same configuration (PROJECT.json `mutants`).

### Store and KVStore

`page[s]` is what the flash holds on side `s`: header (blank, torn or whole), sequence number, the chain
of records whose header CRC holds, and whether a torn record header follows the chain. A record is in the
chain once its header landed and `ok` once its value CRC did. Offsets are kept, in units of `Size`, because
the frontier in RAM and the log in flash can come apart (an append refused after its header landed), and
flash can be programmed once only. The cells, the CRC arithmetic and the 32-byte copy chunks are
abstracted to whether a program landed whole, in part, or not at all.

`pc` is the place of the one thread in the store; between two actions the power may go. Each flash
operation has three outcomes: done; cut short by power loss, having left any part of its work
(`CutShort`, `EraseTorn`, `HeaderTorn`); or refused with the power on, when its name is in `Faults`,
having left any part of its work. A failed mount is `PowerOff`: `main.rs` unwraps the result and halts until
a reset. Sequence numbers are modulo `SeqMod = 2 * SeqHalf` (65,536 in the code), the last one being the
erased reading that `NextSeq` skips.

`Atomic == KV!Spec` under the mapping `kv <- Recovered(page)`, what every key would read after a reboot
now. It is a strong reading of "newest record wins": not only reads through the handle, but the state any
crash would recover, changes only by the write in flight.

### ConfigService

The handlers run on the thread that owns the store, so a request is served by interleaving `Serve` steps
(the handler) with the store's own. `entries` and `done` are the request and how many of its entries were
acknowledged; `base` is what the store read when it came in. A reset keeps those three so that
`PrefixApplied` can still say what the interrupted request left behind. An entry that does not decode is
`Bad`. The armed fact is sampled between requests, once per pass of the loop (`SamplePass`), and the odometer
decides in that pass, by that fact, whether its total is due: disarmed, after a ride. That the wheel has moved
and is at rest is the wheel's, hence a free choice. Its write takes the same path as a request of one entry,
with the same compaction and one retry, so it is the handler `"odometer"`, and its outcome is what `settled`
is given. `ride` clears with the attempt, whatever came of it: one attempt per ride.

### ControlPass

`Pass(b)` is one dispatched control pass of board `b`, in the order of `control_task_cb` and `control_task`:
ages, IMU and period health, fault latch, fault fold, mode machine, OFF resets, engagement machine, turn
and split, freshness gate, cyclic frame, arming gate with the role re-read. Each `New...` operator is one
value of the pass, computed from the state and from the inputs `in`. The other actions are what the main
loop and the interrupts do between passes: frames drained (`Deliver`, `HearForeign`, `HearInputs`,
`HearDrive`), the button, the ISR's fault words, a configuration write, a reset.

What is abstracted: a board drives one motor; the attitude filter, balance law and throttle conditioner give
an arbitrary reference out of `Refs`; the pitch, battery and orientation tests are one input `gate`; the
wire holds one frame, since the drain keeps the newest of several; the alternate engaged arm is left out,
because its promote input has no producer; tones and the telemetry forward are left out.

Parameters that shape a run rather than the code: `Env` names the inputs that vary (the others keep their
good value), `Track` the history variables a run's properties read, `Skew` how far two boards' clocks may
drift, `Prompt` whether a frame that has arrived is drained before the next pass. `dt = 0` is a catch-up
run: `dispatch` runs one event per pass of the loop, so a delayed board runs its control task several times
within one tick.

| Constant | Code | Value in the code | In the runs |
|---|---|---|---|
| `RigidStale` | `RIGID_STALE_TICKS` | 5 | 0 to 3 |
| `CyclicTimeout` | `CYCLIC_TIMEOUT_TICKS` | 25 | 1 to 4 |
| `EmitTicks` | `CYCLIC_EMIT_TICKS` | 2 | 1 or 2 |
| `InputsTimeout` | `INPUTS_TIMEOUT_TICKS` | 375 | 1 or 2 |
| `EnvCap` | soft-start envelope, in steps | 143 | 1 to 3 |
| `HealthLoss`, `HealthRecover` | `IMU_LOSS_THRESHOLD`, `IMU_RECOVER_THRESHOLD` | 5, 25 | 1 or 2, 3 |

The runs keep the order of these constants (freshness window before the loss timeout, recovery longer than
the two passes from READY to RUN) and the off-by-one of each comparison; the theorems need only that order.

### Scheduler

Each load, store and read-modify-write of a slot's fields is a step. `tickPc` walks the slots in the SysTick
handler, `pc` and `at` in the main loop's dispatch, which repeats for ever. `Concurrent = TRUE` lets dispatch
step while a tick is half done. The hardware never does that (the handler preempts the thread and runs to
its end), the crate's threaded test does, and what holds for it holds for the hardware. The width of a
runcount is `RunMod`, 256 in the code. `first`, `due` and `ran` are history.

Registration happens before `mark_tick_source_enabled`, as in `main.rs`, and by nobody afterwards.

### Link

A cell of the line is a byte, with a tag in the first byte of an undamaged frame that says which fragment it
is; only the CRC test reads the tag, so the model says nothing of a CRC that collides. `Send`
starts a packet; `SendFrame` puts the frame of its next fragment on the line, `LoseFrame` has the carrier refuse it
or leaves noise in its place, false start bytes among it. `Read` moves up to `Pull` bytes into `rx`; the framer
works from its front, and hunting, a false length and a bad CRC each drop one byte and look again. What it finds
goes to the reassembler. `pending`,
`heard` and `delivered` are history.

### Mailbox

The board's side of the RAM is one action per call of its side, cut at the points where the bridge could see it
half done; the bridge's side is one action per access. `fw` and `br` say where each program stands, `sess` is
what the bridge remembers of the session it has. A reset of the board can come between any two steps; the RAM
keeps its content until the boot writes the header. Ring indices are free-running modulo `IdxMod`, 2^32 in the
code. `taken`, `committed`, `got` and `intact` are history, of the present session.

| Constant | Code | Value in the code | In the run |
|---|---|---|---|
| `Cap` | `RING_CAP`, bytes | 256 | 4 cells |
| `IdxMod` | width of the indices | 2^32 | 8 |
| `FrameLen` | a frame, in cells | any | 2 |
| `Pull` | `PULL_CHUNK` | 24 bytes | 3 cells: a chunk cuts a frame |
| `Budget` | `DRAIN_BUDGET` | 8 | 2 |

### Walk

`wire[end]` is the packets under way to one end of a link. The controller's step takes one packet or sends one
request; its driver sends a request again after silence, `Tries` times. A node learns a row from what passes,
forwards by it, answers HELLO, ASSIGN (persist, then adopt) and PROBE_PORTS. A probe closes its window at any
time, since the model has no clock: a walk may therefore miss a node, and no property says that it finds all.
`Faults` names the faults a run may have: a lost packet, a restart (the table and the grants are in RAM, the
address in flash), an ASSIGN refused, a request sent again while its answer is still under way (`"early"`).
`NodeOf` follows the wiring, not the tables, to say which node a record of the map is about.

| Constant | Code | Value in the code | In the runs |
|---|---|---|---|
| `Tries` | `TRIES` | 3 | 2 |
| `MaxNodes`, `MaxTasks` | `MAX_NODES`, `MAX_TASKS` | 8, 16 | 8, 16 |
| `NPorts` | `MAX_PORTS` | 4 | 2, or 3 in the star |
| `LastBoard` | below `GUEST_FIRST` | 127 | 7 |
| `Slice` | `GUEST_SLICE` | 8 | 2 |

### FlashJob, Update, Bridge

`Advance` is one piece of the job, `Loader` one unit of the loader's work; everything of the bridge is between
two pieces and the board beside it. The core is in `"fw"` or `"halted"` (its firmware), in `"loader"`,
`"stopped"` (halted in the loader) or `"hung"`. `Fails` is a piece that ends in an error, found by the job
itself (`Wrong`) or because an SWD operation failed, with what that operation may have done already
(`PartOfPiece`). The loader's code is written where the mailbox header is, so the load takes the header of the
firmware before away, and the restart clears the magic once more; the model lets a running firmware write it again
at any time (`BoardBoots`), the code only at a boot. A page has three outcomes under an erase or a program: done, torn, or refused by a controller
that a reset has locked; the last of these reports nothing. The unit of data is the ring's chunk and one verify
piece; a page takes one, as on the parts with 1 KiB pages.

`Update` is over two slots that take data only where they are erased. `selected` is otadata: a slot and its
state, `"new"`, `"pending"`, `"valid"`, `"aborted"` or `"undefined"`. The sector buffer is the tail of `got` that
is not yet `written`.

In `Bridge`, `buf` is the one image buffer that transfers, GDB's load and the job use, `sha` and `have` the
transfer's receiver, `load`, `gdb`, `waits`, `held` the GDB session. A reboot after an update may cut a running
flash: `main.rs` does not look whether a job runs. `vFlashDone` of a second client while the first one's load
is being flashed is in the model as in the code: it sets the load to done.

`Controls` are the other ways to the board, all refused while a job holds the engine: TARGET_CTRL (halt, resume,
reset, reset and halt, connect under reset), STORE_ERASE, CLEAR_PROTECTION and a client's monitor commands. A
store erase and a clear are refused while a session holds the core or its load the buffer, TARGET_CTRL and the
client's own clear are not. The store lies above `Pages`, so a store erase shows in the core, the lock and the
header; a system reset keeps the RAM and the header in it; a clear leaves a GD32 halted and mass-erases an
MM32 at once. The modelled board is not protected (a protected one refuses every flash). Each control may fail
half way (`ControlFails`, `RestartFails`); `DoneIsTrue` and `RetrySucceeds` are about a job that starts from
whatever that left. A session's view of the core (`gdb`) is not the core: a controller may resume the core a
session has halted, and `GdbContinue` does not ask whether anything reached it.

| Constant | Code | Value in the code | In the run |
|---|---|---|---|
| `Pages` | flash below the store, pages | tens | 3 |
| `RingLen` | the loader's ring, chunks of 1 KiB | 2 or 4 | 2 |
| `Chunk`, `Sector` | 48 bytes, 4096 bytes | | 2 and 3 units: a chunk crosses a sector |
| `SlotLen` | an app slot | | 6 units |

The timeouts (`LOADER_STALL` 500 ms, `BOOT_TIMEOUT` 3 s) are steps that are possible only when the core can no
longer make the progress they wait for: a chunk takes the loader 20 ms.

## 3. What is proved

Eight modules of theorems, checked to the last leaf. A theorem holds for every value of the constants that
the named `ASSUME`s allow; the runs show the same property on a small instance first.

| Theorem | Says | Assumes besides the named assumptions |
|---|---|---|
| `TypeCorrect` | `Store!TypeOK` | nothing: any faults |
| `RecoveredIsWritableHolds` | `RecoveredIsWritable` | nothing: any faults |
| `NoSplitBrainHolds` | handle and next boot read the same | `"free"` and `"late"` not in `Faults` |
| `StoreImplementsMap` | `Spec => KV!Spec` | the same |
| `ServiceRunsStore` | `ServiceSpec => Store!Spec`: the handlers drive the store by its own steps | the same |
| `PrefixAppliedHolds`, `OkIsDurableHolds`, `NoSpaceIsGenuineHolds` | the property of that name | the same |
| `ArmedWritesNothingHolds` | `ArmedWritesNothing` | nothing: any faults |
| `ControlTypeCorrect` | `ControlPass!TypeOK` | nothing |
| `FaultDisarmsHolds`, `EnergizeDisengagedHolds`, `TorqueIsFreshHolds`, `SilenceRevokesRequestHolds`, `FallenStaysOffHolds` | the property of that name | nothing |
| `SoftStartHolds` | `SoftStart` | `"since"` in `Track` (the history it reads is kept) |
| `LossIsRealHolds` | `LossIsReal` | `"quiet"` in `Track` |
| `OneBalanceLoopHolds` | `OneBalanceLoop` | no staging after the boot (`"config"` not in `Env`), no foreign peer; frames late or lost, resets |
| `LoneWheelBoundedHolds` | `LoneWheelBounded` | `RigidPair`: two rigid boards, `EmitTicks + 2 * Skew <= RigidStale + 1`; `PromptWire`: no frame lost or late |
| `SchedulerTypeCorrect`, `NoEventLostHolds`, `OnCadenceHolds`, `OneShotOnceHolds` | the property of that name | nothing: any table, width and interleaving |
| `PacketsWholeAlways` | `PacketsWhole` | nothing: any sizes, packet ids, noise |
| `FramesExactHolds`, `NothingHeardIsLostHolds` | the property of that name | nothing |
| `FrameKept` | the resync drops no byte that starts an undamaged frame | nothing |
| `AttachRace` | `FlushSparesSession` | nothing: any ring, frame and chunk size, resets and losses |
| `SessionIsFifoHolds`, `AnswersInOrderHolds` | the property of that name | the same |
| `Handshake`, `Typed` | the inductive invariant of the handshake; `Mailbox!TypeOK` | nothing |
| `JobProgramsPromised` | `ProgramsPromised` | nothing: any images, ring, flash and faults |
| `VectorTableLastHolds`, `DoneIsTrueHolds`, `RetrySucceedsHolds` | the property of that name | the same |
| `SoundUpdateActivatesHolds` | `SoundUpdateActivates` | nothing: any builds, chunk, sector and slot size |

**The store.** `NoSplitBrain` and `Atomic` are not inductive: a compaction moves the contents from one page
to the other over many steps. `Store!IInv` adds what each step relies on: `ActiveIsNewest` (until a
successor is sealed, the page in use is the one a mount would take, which needs the sequence number not
to be the erased reading, hence `GoodPage`), `CopyMatches` (the spare holds exactly the survivors among the
records already walked) and `SealMatches` (a sealed successor reads the same as what it replaces). The
lemmas of `StoreProofs` say what `Find` returns after an append, a commit and a copy (`FindAppend`,
`FindCommit`, `HoldsCopied`, `HoldsAll`) and that the successor of a sequence number is newer than it across
the wrap (`NextSeqIsNewer`); then one lemma per action shows that the step keeps `IInv` and is a step of
`KVStore` or a stutter. The two excluded faults are real ones: with `"free"` the code does split
(section 5), and `"late"` followed by a failed discard leaves the same two pages.

`RecoveredIsWritable` needs neither assumption, because it says nothing of which page is the newest. A page a
compaction hands over is the erased spare with whole records on it (`WritableInv`: no torn header follows them),
and a mount either finds such a page or compacts; both proofs are about one chain and its frontier.

**The config service.** `ServiceRunsStore` comes first: the handlers call the store and the store's own steps do the
rest, so `Store!IInv` and the refinement of the map are at hand in every state of the service. What the service
adds is `ServiceInv`: which handler may stand at which step and what it has handed to the store (`HandlerShape`,
`StoreServes`), and how many of the request's entries the map holds there (`StepApplied`). `Overwritten`, the map
with the first `n` entries of a request in effect, is the whole of the data: one lemma says what one more entry
does to it (`OverwrittenNext`), one that an entry written twice is written once (`WrittenTwice`), which is why the
retry after a compaction is harmless. A step in the middle of the store's work changes the recovered map only at
the commit of the entry in progress, and that is what `PrefixApplied` needs at a power loss.
`ArmedWritesNothing` rests on the gate alone: an armed board is between two requests (`ArmedIsIdle`).

`NoSpaceIsGenuine` is arithmetic over the whole log, and needs to know how long a compaction leaves it. `CopyPacked`
says that the new page is as long as the records of the keys copied so far; each survivor adds one key that was not
among them (`KeysCopied`), and a finished copy misses only keys that read nothing (`AllPacked`), so the sealed page
is exactly `LiveSize` long (`SealPacked`). `RoomMade` carries that to the retry's check of the frontier and
`RetryRefused` to the reply. `LiveSize` is a recursive function over sets of keys. That it exists, that it is a
natural number and that the order of its terms does not matter (`TotalSums`, `TotalType`, `TotalWith`) is induction
over data, and goes by a smallest counterexample, which the library's theorem on well-founded relations gives
(`Least`, `Smallest`) without an operator parameter. What it asks of the constants is that the keys, the rows of the
field registry, are finitely many (`KeyAssumption`).

**The control pass.** The properties of one board are proved for one board at a time. `ControlProofs!StepEffect` says what a
step of the whole system does to board `c`: it is a pass of `c`, a reset of `c`, a frame, an inbox write, or it
leaves the words in question alone; the second board never needs to be looked at. On that rest six small
inductive invariants:

* `BridgeInv`: the grant follows the mode exactly, and after `n` bad passes in a row only the last `4 - n`
  modes of the way to OFF are left. INIT and READY read neither fault nor request, so the bound is four.
* `EnergizeInv`: a board that is granted but not armed has a fault that lasts for the boot, or a period loss so
  fresh that its recovery comes only after the mode machine has left RUN. This is where
  `HealthRecover > 2` is used, and it is the reason a fault that clears under a standing grant does not
  re-arm a bridge in the middle of an engage.
* `RampInv`: the envelope never exceeds the passes since the bridge was armed; RUN stands at the cap, so the
  wind-down that sets the envelope to the cap changes nothing.
* `FreshInv`, `MirrorInv`, `SilenceInv`, `TumbledInv`: the link and tilt properties.

Two properties relate the boards, and `PairStep` splits a step by what board `c` and its wire see of it: a pass or
a reset of either board, a delivery to `c`, or nothing.

* `StagedInv`, for `OneBalanceLoop`: each frame on the wire or in the inbox names the role its sender is staged
  for, so of two leaders neither ever reads the follower it needs, and both engagement machines stay in IDLE.
  A staging between frame and engage breaks it, which is why it is excluded (section 5).
* `AloneInv`, for `LoneWheelBounded`: until the failed board's next frame is out, the other has driven on for at
  most `Lead(b)` passes, the ticks since that board's last frame plus the skew of the two clocks; from then on it
  is `Told`, and each pass takes the mode machine one step to OFF. The bound is `EmitTicks - 1 + 2 * Skew` passes
  untold and the two the mode machine takes from READY (`Spent`). The skew counts twice: while it
  waits, the board may go from `Skew` behind its partner to `Skew` ahead. What it needs of the constants is that the fault is still
  fresh when it is read; with `EmitTicks = 2` and `RigidStale = 5` that allows a skew of two ticks. The bound
  is reached with catch-up passes (`Ticks = {0, 1}`) and a turning leader (`TurnCmds = {2}`).

**The scheduler.** `AccrualInv` is `NoEventLost` without its precondition: what is due and not taken is the
runcount plus a whole number of turns of the counter, `due - taken = runcount + k * RunMod`. `CadenceInv`
relates counter, events and ticks, with the half-done tick's loaded value as one of its cases. `TableInv` says
that a periodic slot is never in the course of being cleared.

**The link.** `PacketsWhole` needs three things besides the types: a fragment on the line was sent and not yet
heard (`LineInv`), the set in progress is the fragments in sequence that its id, or a whole turn of the id
later, accounts for (`SetInv`), and all delivered packets are older than it (`DeliveredInv`).

`FramesExact` counts: a frame's place among those still to be handed over is the number of intact frames up to it
(`Rank`), and `PendingInv` says that the fragment at that place is the one the frame carries. What the framer takes
off the front moves every rank by the frames among the cells taken (`RankCut`), and those are none for a byte the
resync drops (`DropsUntagged`), one for a frame handed over, all that was read for a reset (`PendingCut`).
`NothingHeardIsLost` is not inductive, since it speaks only of packets that are complete. `HeardInv` adds, for a packet
heard from its start so far, that it is the set in progress (`LiveInv`); the fragment that comes next then continues
the set and cannot tear it (`FragmentTaken`). For this two facts about the sender are needed: no fragment is heard
twice (`HeardOnce`), and only the last of a packet lacks the more bit, also among those still on the line (`MoreInv`).

**The mailbox.** The flush cannot meet the session because the acknowledgement is the board's last step of it.
`HandshakeInv` says so through the words each side holds: the board's watch runs behind the epoch and its
acknowledgement behind the watch (`WatchBehind`), an epoch about to be written is ahead of what the board
holds (`BumpAhead`), and in a session that is up, on a board that has not booted since, they are equal
(`CaughtUp`).

`FifoInv` builds the stream of a session on that. The handshake gives it an empty start: a board that has
acknowledged the attach in progress has nothing left of an older session, in the ring or in the framer
(`FlushedInv`). From there on the two sides meet only in the ring, and each may rely on one fact about the other:
the board only makes room, so what a produce has read of the indices is still enough when it commits
(`ProduceInv`), and the bridge writes only cells beyond the head. What the board has still to handle is counted
through framer and ring as one row of cells (`UnderwayAt`), and `Carries` says that this row is, frame by frame,
the committed frames from the next one on; a chunk that cuts a frame moves cells from one end of the row's places
to the other and the row stays the same (`CarriesPull`), a frame handled is taken off its front (`CarriesTake`),
a commit adds one at its end. The indices are free-running: `WholeRings` and `SameSlot` say that a turn of them is
whole rings, which is the assumption `IdxMod % Cap = 0` of the code's `u16` and power-of-two rings. The framer's
resync never fires (`HuntedWhole`): a row that starts with the start of a frame is not hunted in.

The answers come back through the other ring, and there `AnswersInv` has more to say, because the two sides do not
start it afresh together: the ring of answers survives a boot and an attach, and the attach only moves its tail. So
the invariant is about an attach or session as soon as it has read the head (`Tracked`), and `AnswersAre` exhibits
the answers since: those given to the port are the first of them, and those staged in the framer and left in the
ring are, by the same `Carries`, the rest, to which the board adds at the end what it commits. `Ordered` relates them
to the requests: an answer to a request in the ring is to a handled one, none is to a request still queued, and
answers follow the order of the requests. It holds because requests are different frames (`RequestsInv`) and the board
handles them in the order of the stream (`HandledNext`, from `StreamInv`). An answer of an older session that comes late
stays among them, and is none to a request of this one. `RoomInv` keeps the ring apart: an answer
is written where the bridge is not reading (`CommitRoom`), what a consume has read of the indices stays true
(`ConsumeInv`), and indices that a boot and a late access of the bridge left at odds, so that the ring seems to hold
more than it has room for, meet a board with nothing to answer and no session that goes on (`AnswersFit`).

**The bridge.** `ProgramsPromised` holds because whoever writes the buffer excludes the others: `BufferInv` adds
that no job runs while a load is being collected (so a client that leaves drops nobody's image), that a piece of the
job changes neither the buffer nor whose job it is, and that no control of the board does.

The order and the outcome of a flash are properties of one job, from whatever board it finds. `JobInv` describes
the board by the step the job stands at: what an erase has blanked so far, which cells of the ring hold which part
of the image and which page the loader is at (`RingInv`), which pages are therefore done (`PagesInv`: a page the
loader has reached holds its part of the image or a torn cell, every other is blank), what a verify has read back.
Two facts had to be found. The invariant must survive a reset of the board under the job, by which the core runs
the old firmware again and nothing that was established about it holds, but the flash keeps its pages: hence
`core = "fw"` beside most conjuncts. And the ring wraps: a cell the loader has still to read is not written over
because the feed stops one cell short of it, which is what `Full` computes. `RetrySucceeds` is the same invariant
under the condition that no fault came since the job began (`Clean`): then no cell is torn, the core obeys, and
each of the job's failures contradicts it. `VectorTableLast` and `DoneIsTrue` use the unconditional half.

**The update.** `InSlot` says that while no write of the slot failed, the sectors written are the whole sectors of
what was received, they hold it, and between them and what the erase ahead has reached the slot is blank; so
no sector is written unerased and none erased once written, wherever chunks and sectors meet.

**Left to TLC.** Liveness (`RequestsAnswered`, `PairArms`, `TripStops`, `DueRuns`, `Reconnects`, `Served`,
`Completes`, `FlashEnds`), which needs fairness and ENABLED. And `MapTrue` and `KeepsAddress` of the walk: TLC
checks them on a chain, where they hold; on the star of `MCWalkMovedTwice.cfg` both fail, so neither is true of every wiring
that the constants allow, and there is no theorem to prove without assuming the wiring.

## 4. The runs

All runs are exhaustive within their bounds. Deadlock is checked in every run but `link`, `walk` and `bridge`:
these stop when all that was asked for is done.

| Run | Instance | Checks |
|---|---|---|
| `store` | two keys, one value, pages of four units, sequence numbers modulo 6; refused programs and erases of steps (0) and (3) | `NoSplitBrain` `Atomic` `RecoveredIsWritable` |
| `config_service` | the same with pages of three units, requests of one and two entries, and the odometer as a second writer of one key | `PrefixApplied` `NoSpaceIsGenuine` `OkIsDurable` `ArmedWritesNothing` `RequestsAnswered` |
| `control_board` | one board without a link, balance or throttle; every sensor, ISR fault and refusal varies, catch-up passes included | `FaultDisarms` `SoftStart` `EnergizeDisengaged` `FallenStaysOff` |
| `control_links` | one follower; an unmodelled leader that may go silent; two competing controllers; digest changes, trips, idle-in-RUN, resets of the board | `SilenceRevokesRequest` `LossIsReal` `TripStops` |
| `pair_sync` | leader and follower on a prompt, loss-free wire; IMU losses, a bridge failing for good | `LoneWheelBounded` `PairArms` |
| `pair_lossy` | two boards, every staging of the two roles; frames late or lost; symmetric in the boards | `TorqueIsFresh` `OneBalanceLoop` |
| `link` | three packets of one to three fragments, ids modulo 2, a start byte inside frames, one byte of noise per frame, one reset of the framer | `FramesExact` `NothingHeardIsLost` `PacketsWhole` |
| `mailbox` | rings of two frames, three frames, chunks that cut a frame; one board reset and one lost session anywhere | `FlushSparesSession` `SessionIsFifo` `AnswersInOrder` `Reconnects` `Served` |
| `walk` | a chain of three nodes, every pattern of missing and equal addresses, one fault of any kind | `MapTrue` `KeepsAddress` `Completes` |
| `bridge` | images of three, two and one pages (the last does not boot), a ring of two chunks, builds of four and five units; one fault of the board (a control half done included) and one of the slots | `ProgramsPromised` `VectorTableLast` `DoneIsTrue` `RetrySucceeds` `SoundUpdateActivates` `FlashEnds` |
| `scheduler` | two slots, every table that three registrations build, runcounts modulo 4, six ticks, free interleaving | `NoEventLost` `OnCadence` `OneShotOnce` `DueRuns` |
| `walk_moved_twice` | a gateway with two neighbours, no fault | violates `MapTrue`, see section 5 |

**Why the bounds are enough.** *Store*: a record takes one unit and a two-unit value's record two, so a page
of four holds live, superseded, torn and un-stored records of both keys and is sometimes exactly full, and a
run contains any number of compactions, hence several wraps of a sequence number modulo 6 (three values on
each side of the wrapping comparison, the least that fits the two steps `NextSeq` takes; section 3 proves
the rest). *Control*: `EnvCap = 3` tells apart the first step, the ramp and the cap; every timeout is passed and
met exactly, since ages saturate one above it. `IdleLimit = 0` switches the idle latch off where the run is
about something else; `control_links` has it at 2. Two boards are all a machine has. *Scheduler*: a backlog of
four events wraps a two-bit runcount within six ticks; a period of two has a tick that only counts down, and
one of one has none. *Link*: ids modulo 2 make the turn of the id, the case `PacketsWhole` is about, happen within
three packets; section 3 has it for every modulus. Noise is bounded, since garbage is dropped one byte at a time
whatever its length. *Mailbox*: the indices wrap after four frames' cells, a ring is full with two, and the
reset and the lost session fall between any two accesses; a second reset starts from a state like the first.
*Walk*: three nodes in a chain have an attached node, a relay and a node behind two; the start addresses are
every pattern of missing and equal ones, up to their names; one fault is one fewer than the tries. *Bridge*: with three pages the loader
makes two runs and the ring of two chunks wraps in the first. What is asked for in one behaviour is bounded by
`Budgets`: three transfers and a reset of the bridge, a transfer beside a GDB client, a GDB client and a reset, two
transfers and two controls of the board, a GDB client and a control, two updates and two resets. Job and update share nothing but the reset, so they are not multiplied.

`pair_lossy` assumes no fairness and uses symmetry: it checks invariants only. With resets of the two boards added
to `Env` it passes as well, at five times the states; they are left to `control_links`, where they add none, and to the
proofs of both invariants, which are for every `Env`. Its boards keep the staging they
booted with, under which two leaders never engage together (section 3); that a change of staging breaks `OneBalanceLoop` is
in `MCPairSwap.cfg`. `pair_sync` needs a wire that
does not lose frames for `PairArms` and `LoneWheelBounded`; what happens without is in `MCPairDeadPartner.cfg`.

**Fairness.** The store's and the handlers' steps are weakly fair: the thread never waits inside them, and only
a power loss takes it out. `FairSpec` of `ControlPass` is weak fairness of each board's pass and of the drain:
the loop runs for as long as the watchdog lets the board live. `PairFairSpec` is the same for two boards; it is
spelt out over `MayPass`, the guard of a served pass, because a catch-up pass that changes nothing must not
count as progress. `FairSpec` of `Scheduler` is weak fairness of the handler's steps and of dispatch; SysTick
entries themselves are bounded by `MaxTicks` and not fair. In `Mailbox` the board's loop and the bridge's loop are
fair, and so is the resumption of a paused port: both loops run for ever. In `Walk` the controller's driver
polls, nodes answer and forward what has arrived, a probe's window closes (`Progress`); nothing says that a packet
arrives. In `Bridge` the service loop polls the job in every pass, and a core that runs makes steps; a client
need never send its next chunk. No fairness is put on the environment: not on
buttons, frames, faults, nor on requests.

`PairArms` has a hypothesis that must come true for it to say anything: both requests stay up, the sensors stay
good and neither bridge has failed. It does in the run, since nothing forces an IMU loss or a hall fault.

## 5. Where the code and its words differ

Each of these refutes a sentence of the repository (PROJECT.json `findings` quotes it); each is a trace that TLC
prints under the configuration named. `walk_moved_twice` is among the runs of section 4; the other configurations
stay beside the modules to print theirs. None is a matter of bounds: the traces use nothing the real constants
exclude.

* `MCStoreFreeErase.cfg` (`shared/store/src/store.rs:537`). When the erase of the old page in step (4) of `compact`
  fails with the power on, `compact` returns before it moves the handle to the page it has committed. The
  running store goes on appending to the old page and acknowledges those writes; the next mount takes the new
  page. The README's "the newest record for a key wins" fails across the reboot.
* `MCPairUnfit.cfg` (`orchestrator/src/dispatch.rs:523`). A leader with no IMU "arms and never engages, so its torque
  and the `peer_demand` it sends stay 0" (dispatch.rs:561). The turn is slewed and split outside the engagement
  machine, so with a turn command both wheels get one.
* `MCPairSwap.cfg` (`orchestrator/src/dispatch.rs:563`). Two boards re-staged as leaders, armed within a freshness
  window of each other, both engage: each on the frame the other sent before its arm-time re-read. The gate is
  on the engage edge only, so neither stops when the leader flag arrives.
* `MCPairDeadPartner.cfg` (`orchestrator/src/dispatch.rs:459`). `peer_down` releases after `RIGID_STALE_TICKS`,
  `comms_loss` asserts after `CYCLIC_TIMEOUT_TICKS`. In between, on a wire that loses frames, a board whose
  partner's bridge is dead leaves OFF again and drives for a pass at a time, past the bound that one fault
  stopping both wheels allows.
* `MCControlGate.cfg` (`firmware/src/main.rs:3018`). The armed fact is sampled before the pass that may arm; a
  configuration write drained right after that pass still finds the gate open. "No exceptions" (walk.rs:262)
  has one, of one loop pass. `ConfigService` itself keeps the rule relative to the fact it is given
  (`ArmedWritesNothing`).
* `MCMailboxReset.cfg` (`shared/swd-bridge-core/src/lib.rs`, `produce`). The bridge checks the head of its ring
  before it writes payload and head, in separate accesses. A board that resets and writes its header in between
  takes the committed head for new bytes and handles an old frame again, although "nothing is produced on top of"
  a ring that somebody else wrote. `SessionIsFifo` speaks of sessions without such a reset.
* `MCWalkMovedTwice.cfg` (`shared/net/src/walk.rs:1424`). Nodes that wake up with equal addresses: a gateway that one
  PORTS report moves twice is sent its second ASSIGN first and the stale first one last. The map and the node
  disagree from then on. No fault is needed.
* `MCWalkLate.cfg` (`walk.rs`, `on_ports`). A request sent again while its answer was under way leaves a second
  answer, which is read against the re-probe of the same node: the controller sees a neighbour where there is
  none, and renumbers a node that nobody collides with. `KeepsAddress` is checked for retries after silence.
* `MCBridgeHalt.cfg` (`bridge/core/src/svc.rs:503`). Of a transfer, only FLASH_BEGIN is refused while a GDB session holds the core;
  the last chunk of a transfer begun before starts its job under the session.
* `MCBridgeLeave.cfg` (`gdb.rs:366`). A client that leaves while its load is flashed leaves the core halted: the
  detach resumes nothing while the job runs, and the job halts the core when it ends.
* `MCBridgeFallback.cfg` (`bridge/src/platform.rs:103`). UPDATE_BEGIN on a slot that still waits for its confirmation
  erases the slot a reset would fall back to.
* `MCBridgeNextBoot.cfg` (`update.rs:97`). UPDATE_BEGIN in the half second between an activation and its reboot
  erases the slot about to be booted.
* `MCBridgeCut.cfg` (`flash.rs:404`). Page 0 is erased last as well as programmed last: a flash cut short while it
  erases leaves the old vector table over erased pages.

Seen while modelling, and not stated as properties: `shared/link/src/lib.rs:31` says 460800 baud where line 35 has
115,200; an answer to a session's request that the board was still handling when the next session attached may
reach the new one; a refused ASSIGN of a node being moved leaves an address in the map that nobody holds; an error
in a segment can leave the loader running although `FlashJob::step` says the core stays halted.

## 6. Plan

Done, in this order: `Store`, `KVStore`, `ConfigService` and the store's theorems; `ControlPass` with its runs and
theorems; `Scheduler` with its theorems; `Mailbox` and `Link` with theirs; `Walk`; `FlashJob`, `Update` and `Bridge`
with `ProgramsPromised` proved; the odometer in `ConfigService`, the controls of the board in `Bridge`; the theorems about `ConfigService`, the
rest of those about `Bridge`, and those of two boards in `ControlSafety`.

Next, most important first:

1. **Proofs about what is checked**: `MapTrue` and `KeepsAddress` of the walk on a chain of any length.
2. **The rest of the bridge's service**: the memory windows (a MEM_WRITE may write anything), breakpoints and
   watchpoints, and the dispatch of packets between the node, its router and the service.
3. **Two-motor boards** in `ControlPass`: the second motor's latches and grant.

## 7. What is not modelled

Numeric laws (commutation, current control, attitude, balance law, throttle conditioner, battery gauge): their
outcomes are inputs of `ControlPass`, arbitrary within the ranges the pass tests. Drivers and registers: pure
I/O. The encodings of PDUs, records and frames: pure functions. Host programs, app and benches: outside the
board. Of the bridge: the operations of point 2 above, acknowledgements, SWD transfers and the detection of
parts, BLE, Wi-Fi and USB. Of the link: the payload's bytes, a CRC that collides, the overflow of a
set at its first chunk (`reasm.rs:140`: one frame's payload always fits the buffer), and `stage_fragment`, which
nothing calls. Of the walk: IDENTIFY and STATUS, port kinds, the probe window's length. The `specs/*.md` files that comments cite are not in the repository; the models follow the
code. Real time: a pass, a tick and a frame take the steps they take; deadlines appear as tick counts, and the
watchdog as the assumption that a loop which stops is a board that resets.

Not covered by a property although it is a hazard: the operation that frees space needs space itself
(`walk.rs:276`); the first page header of a virgin region torn, after which the region cannot be formatted
(`store.rs:587`; the model shows it, as appends that answer `flash` for good); and the cases of section 5,
which the listed properties exclude by a precondition or by the faults of the run.
