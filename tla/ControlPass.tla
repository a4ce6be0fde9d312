----------------------------- MODULE ControlPass -----------------------------
(***************************************************************************)
(* The 250 Hz control pass of a motor board and the main loop around it    *)
(* (motorcontroller/orchestrator, motorcontroller/firmware arm.rs and      *)
(* main.rs, motorcontroller/state, motorcontroller/control).               *)
(*                                                                         *)
(* One pass samples the sensors, ages what the links said, runs the fault  *)
(* latches, the mode machine, the engagement machine and the producer      *)
(* dispatch, and enacts the mode machine's grant on the bridge.  Between   *)
(* passes the main loop drains frames from a controller and from the peer  *)
(* board, and configuration writes.  With two boards the frames one emits  *)
(* travel over a wire of one slot to the other, and either may be late or  *)
(* lost.                                                                   *)
(*                                                                         *)
(* Torque words are small integers; the soft-start envelope climbs EnvCap  *)
(* steps (143 in the code).  Every timeout keeps its place in the order    *)
(* RigidStale < CyclicTimeout and its off-by-one.                          *)
(***************************************************************************)
EXTENDS Integers, FiniteSets

CONSTANTS
  None,           \* no board, node, frame or digest
  Boards,         \* one board, or the two boards of a machine
  Linked,         \* the boards whose inter-board link is configured
  ImuUp,          \* the boards whose IMU is configured
  Roles,          \* per board, the producers its stored configuration may resolve to
  Controllers,    \* the nodes that send INPUTS and DRIVE_CMD
  Digests,        \* the machine digests a store may have
  ForeignFrames,  \* frames of a peer that is not one of Boards
  Env,            \* which inputs vary; every other one keeps its good value
  Track,          \* the histories a run's properties read
  Refs,           \* torque words the balance law or the conditioner asks for
  TurnCmds,       \* turn commands of a rigid leader
  Ticks,          \* SysTick ticks between two passes; 0 is a catch-up run
  EnvCap, EnvDecay, PickupTrip, WinddownTrip,
  HealthLoss, HealthRecover,   \* the IMU's and the period ISR's hysteresis
  IdleLimit,      \* idle-in-RUN passes that latch; 0: beyond the horizon
  RigidStale, CyclicTimeout, InputsTimeout,
  EmitTicks,      \* ticks between two cyclic emissions
  Skew,           \* ticks one board may run ahead of the other
  Prompt          \* every arrived frame is drained before the next pass

Producers == {"throttle", "balance", "leader", "follower"}
Modes == {"Off", "Init", "Ready", "Run", "Shutdown"}
Subs == {"Idle", "Arming", "Run"}

ASSUME BoardsAssumption ==
  /\ IsFiniteSet(Boards) /\ Cardinality(Boards) \in {1, 2}
  /\ Linked \subseteq Boards /\ ImuUp \subseteq Boards
ASSUME RolesAssumption == \A b \in Boards : Roles[b] \subseteq Producers /\ Roles[b] # {}
ASSUME TimesAssumption ==
  /\ {EnvCap, EnvDecay, HealthLoss, HealthRecover, EmitTicks, Skew} \subseteq Nat \ {0}
  /\ {PickupTrip, WinddownTrip, IdleLimit} \subseteq Nat
  /\ {RigidStale, CyclicTimeout, InputsTimeout} \subseteq Nat
  /\ RigidStale < CyclicTimeout
  /\ HealthRecover > 2   \* 25 in the code
  /\ Ticks \subseteq Nat /\ Refs \subseteq Int /\ TurnCmds \subseteq Int
  /\ Digests # {} /\ Prompt \in BOOLEAN

Frames == [run : BOOLEAN, fault : BOOLEAN, role : Producers, demand : Int,
           lockdown : BOOLEAN, digest : Digests]
ASSUME FramesAssumption == ForeignFrames \subseteq Frames
ASSUME NoneAssumption == None \notin Boards \cup Controllers \cup Digests \cup Frames

VARIABLES
  mode, moe, armed, refused,     \* mode machine, MOE grant, ARMED, CONFIRM_REFUSED
  fsm, turn,                     \* engagement machine, slewed differential
  demand, peerDemand,            \* published DEMAND word, the peer's half of the split
  role, stored, digest,          \* producer in force, the stored one, machine digest
  imu, period,                   \* the two hysteresis latches
  fallen, tilt,                  \* last attitude words past the limit, tilt latch
  hall, trip, latch,             \* boot-sticky motor fault, ISR trip, fault latch
  peer, age, heard,              \* LinkInbox.peer, cyclic_age, Machine.heard
  button, mirror,                \* debounced button, LinkInbox.remote
  emit, wire,                    \* cyclic_since_tx, the frame on its way to a board
  writeGate,                     \* Responder.armed, sampled once per loop pass
  ahead, hist                    \* synchrony of the boards; history

boardVars == <<mode, moe, armed, refused, fsm, turn, demand, peerDemand, role,
               imu, period, fallen, tilt, latch, age>>
linkVars == <<peer, heard>>
vars == <<boardVars, linkVars, stored, digest, hall, trip, button, mirror, emit,
          wire, writeGate, ahead, hist>>

-----------------------------------------------------------------------------
\* Small arithmetic.

Least(a, b) == IF a < b THEN a ELSE b
Abs(n) == IF n < 0 THEN -n ELSE n
ClampSym(n, lim) == IF n > lim THEN lim ELSE IF n < -lim THEN -lim ELSE n
Sat(n, cap) == Least(n + 1, cap)

Other(b) == CHOOSE c \in Boards : c # b
Paired == Cardinality(Boards) = 2

\* What one pass samples: only the inputs named in Env vary.
Varies(name, values, good) == IF name \in Env THEN values ELSE {good}
Inputs ==
  [dt : Ticks, imu : Varies("imu", BOOLEAN, TRUE), live : Varies("period", BOOLEAN, TRUE),
   fell : Varies("tilt", BOOLEAN, FALSE), speed : Varies("speed", BOOLEAN, FALSE),
   confirm : Varies("confirm", BOOLEAN, TRUE),
   gate : Varies("gate", {"high", "low", "inverted"}, "high"),
   rider : Varies("rider", BOOLEAN, TRUE), ref : Refs, turn : TurnCmds]

FsmStart == [sub |-> "Idle", env |-> 0, pickup |-> 0, winddown |-> 0, out |-> 0]
Healthy == [fail |-> 0, ok |-> 0, loss |-> FALSE]
NoLatch == [code |-> FALSE, tripped |-> FALSE, count |-> 0]
NoMirror == [level |-> FALSE, owner |-> None, age |-> 0]
HistStart == [since |-> 0, held |-> 0, tumbled |-> FALSE, quiet |-> 0,
              gap |-> 0, broken |-> TRUE, alone |-> 0]

-----------------------------------------------------------------------------
\* The link inbox.

CommsLost(p, a) == p # None /\ a > CyclicTimeout
Fresh(p, a) == p # None /\ a <= RigidStale
MirrorStale(m) == m.owner = None \/ m.age > InputsTimeout
RemoteRequest(m) == ~MirrorStale(m) /\ m.level
Disagrees(b) == b \in Linked /\ heard[b] # digest[b]

RefreshesMirrorRevives(m, src) == m.owner = src   \* mutant: a lapsed mirror refreshed

\* A payload counts as the mirror's owner being here while the mirror lives.
RefreshesMirror(m, src) == m.owner = src /\ ~MirrorStale(m)

AcceptDrive(m, src) == IF RefreshesMirror(m, src) THEN [m EXCEPT !.age = 0] ELSE m
AcceptInputs(m, src, level) == [level |-> level, owner |-> src, age |-> 0]

AgeTickEveryCall(dt, seen, a, cap) == IF seen THEN Sat(a, cap) ELSE a   \* mutant

\* tick_ages: one count per served tick, none before the family was seen.
AgeTick(dt, seen, a, cap) == IF dt > 0 /\ seen THEN Sat(a, cap) ELSE a

-----------------------------------------------------------------------------
\* The fault producers.

\* Mutant: recovers on the first good sample.
ObserveAtOnce(h, ok) ==
  IF ok THEN [fail |-> 0, ok |-> Sat(h.ok, HealthRecover), loss |-> FALSE]
  ELSE [fail |-> Sat(h.fail, HealthLoss), ok |-> 0, loss |-> h.loss \/ h.fail + 1 >= HealthLoss]

\* ImuHealth::update and PeriodHealth::update.
Observe(h, ok) ==
  IF ok
  THEN LET n == Sat(h.ok, HealthRecover)
       IN [fail |-> 0, ok |-> n, loss |-> h.loss /\ n < HealthRecover]
  ELSE LET n == Sat(h.fail, HealthLoss)
       IN [fail |-> n, ok |-> 0, loss |-> h.loss \/ n >= HealthLoss]

\* Mutant: an inert pass drains the code mailbox unread.
LatchTickDrains(l, running, sub, moving) ==
  IF running THEN [code |-> FALSE, tripped |-> l.tripped \/ l.code, count |-> 0]
  ELSE [l EXCEPT !.code = FALSE]

\* FaultLatch::tick.  An inert pass keeps the code mailbox for a later one.
LatchTick(l, running, sub, moving) ==
  LET healthy == (sub # "Idle" \/ moving) /\ (sub = "Run" \/ ~moving)
      n == IF healthy \/ IdleLimit = 0 THEN 0 ELSE Sat(l.count, IdleLimit)
  IN IF ~running THEN l
     ELSE [code |-> FALSE, count |-> n,
           tripped |-> l.tripped \/ l.code \/ (IdleLimit > 0 /\ n >= IdleLimit)]

\* Mutant: RUN left only when a fault and a released request come together.
NextModeBoth(m, fault, request, inhibit) ==
  CASE m = "Off"      -> IF request /\ ~fault /\ ~inhibit THEN "Init" ELSE "Off"
    [] m = "Init"     -> "Ready"
    [] m = "Ready"    -> "Run"
    [] m = "Run"      -> IF fault /\ ~request THEN "Shutdown" ELSE "Run"
    [] m = "Shutdown" -> "Off"

\* ModeMachine::tick.
NextMode(m, fault, request, inhibit) ==
  CASE m = "Off"      -> IF request /\ ~fault /\ ~inhibit THEN "Init" ELSE "Off"
    [] m = "Init"     -> "Ready"
    [] m = "Ready"    -> "Run"
    [] m = "Run"      -> IF fault \/ ~request THEN "Shutdown" ELSE "Run"
    [] m = "Shutdown" -> "Off"

MoeAfter(m, granted) == IF m = "Init" THEN TRUE ELSE IF m = "Shutdown" THEN FALSE ELSE granted

-----------------------------------------------------------------------------
\* The engagement machine: fsm_step with orientation 0, its only reachable arm.

\* x: the machine's inputs of this pass.
IdleArm(f, x) ==
  IF x.engage /\ ~x.stop /\ x.power
  THEN [f EXCEPT !.sub = "Arming", !.env = 0, !.out = 0]
  ELSE [f EXCEPT !.env = IF @ > EnvDecay THEN @ - EnvDecay ELSE 0, !.out = 0]

ArmingArm(f, x) ==
  LET ramping == f.env < EnvCap
      e == IF ramping THEN f.env + 1 ELSE EnvCap
  IN [f EXCEPT !.sub = IF ramping THEN "Arming" ELSE "Run", !.env = e,
               !.out = ClampSym(x.ref, e)]

RunArm(f, x) ==
  LET p == IF x.inverted THEN Sat(f.pickup, PickupTrip + 1) ELSE 0
      w == IF x.leaving THEN Sat(f.winddown, WinddownTrip + 1) ELSE 0
      e == IF w > WinddownTrip THEN EnvCap ELSE f.env
  IN [sub |-> IF p > PickupTrip \/ w > WinddownTrip \/ x.stop THEN "Idle" ELSE "Run",
      env |-> e, pickup |-> p, winddown |-> w, out |-> ClampSym(x.ref, e)]

FsmStep(f, x) ==
  CASE f.sub = "Idle"   -> IdleArm(f, x)
    [] f.sub = "Arming" -> ArmingArm(f, x)
    [] f.sub = "Run"    -> RunArm(f, x)

EngagementAtKept(off, f) == f   \* mutant: the OFF pass resets nothing

\* reset_engagement, on every pass that resolves to OFF.
EngagementAt(off, f) == IF off THEN FsmStart ELSE f
TurnAt(off, t) == IF off THEN 0 ELSE t
LatchAt(off, l) == IF off THEN NoLatch ELSE l

DriveTurnStep(t, cmd) == t + ClampSym(cmd - t, 1)

\* wheel_split: the turn takes what the common torque leaves of the scale.
Split(t, turned) == LET d == ClampSym(turned, EnvCap - Abs(t)) IN [own |-> t + d, peer |-> t - d]

-----------------------------------------------------------------------------
(***************************************************************************)
(* The values one pass computes for board b from its inputs in, in the     *)
(* order of control_task_cb and control_task.                              *)
(***************************************************************************)

Served(in) == in.dt > 0

NewImu(b, in) == IF Served(in) /\ b \in ImuUp THEN Observe(imu[b], in.imu) ELSE imu[b]
NewFallen(b, in) == IF Served(in) /\ b \in ImuUp /\ in.imu THEN in.fell ELSE fallen[b]
NewPeriod(b, in) == IF Served(in) THEN Observe(period[b], in.live) ELSE period[b]
NewAge(b, in) == AgeTick(in.dt, peer[b] # None, age[b], CyclicTimeout + 1)
NewMirror(b, in) ==
  [mirror[b] EXCEPT !.age = AgeTick(in.dt, mirror[b].owner # None, @, InputsTimeout + 1)]

\* motor_fault_level: hall dwell or refused calibration, period loss, refused arm.
MotorFault(b, in) == hall[b] \/ NewPeriod(b, in).loss \/ refused[b]

\* off_inhibit: the wheel turns, or nothing says whether it does.
Moving(b, in) == in.speed \/ NewPeriod(b, in).ok = 0

\* raise_over_current, then the latch task under the mode and sub-state before the pass.
Latched(b, in) ==
  LatchTick([latch[b] EXCEPT !.code = @ \/ trip[b]], mode[b] = "Run", fsm[b].sub, in.speed)

TiltSeen(b, in) == tilt[b] \/ (b \in ImuUp /\ NewFallen(b, in))

Rigid(b) == role[b] \in {"leader", "follower"}
FreshPeer(b, in) == Fresh(peer[b], NewAge(b, in))

PeerDownNever(b, in) == FALSE   \* mutant: one board's fault is its own

\* peer_down_level: rigid boards only, through the freshness window.
PeerDown(b, in) == Rigid(b) /\ FreshPeer(b, in) /\ peer[b].fault

\* Mutant: the peer's fault reflected back at it.
OwnFaultEchoes(b, in) ==
  \/ CommsLost(peer[b], NewAge(b, in)) \/ NewImu(b, in).loss \/ MotorFault(b, in)
  \/ Latched(b, in).tripped \/ TiltSeen(b, in) \/ PeerDown(b, in)

\* Levels::own_mask under FAULT_A_BITS: what the peer reads off the wire.
OwnFault(b, in) ==
  \/ CommsLost(peer[b], NewAge(b, in))
  \/ NewImu(b, in).loss
  \/ MotorFault(b, in)
  \/ Latched(b, in).tripped
  \/ TiltSeen(b, in)

\* Levels::fault_a: what the mode machine reads.
FaultA(b, in) == OwnFault(b, in) \/ PeerDown(b, in)

Request(b, in) == button[b] \/ RemoteRequest(NewMirror(b, in))

NewMode(b, in) ==
  NextMode(mode[b], FaultA(b, in), Request(b, in), Moving(b, in) \/ Disagrees(b))
OffPass(b, in) == NewMode(b, in) = "Off"
NewMoe(b, in) == MoeAfter(mode[b], moe[b])
NewLatch(b, in) == LatchAt(OffPass(b, in), Latched(b, in))

NewTiltPerOff(b, in) == TiltSeen(b, in) /\ ~OffPass(b, in)   \* mutant

\* The tilt latch releases where an engage ends, not on every OFF pass.
NewTilt(b, in) == TiltSeen(b, in) /\ ~(OffPass(b, in) /\ ~Request(b, in))

PartnerOkAnyPeer(b, in) == role[b] = "leader" => b \in ImuUp /\ FreshPeer(b, in)   \* mutant

\* The leader engages only beside a fresh follower, and only with its IMU up.
PartnerOk(b, in) ==
  role[b] = "leader" =>
    /\ b \in ImuUp
    /\ FreshPeer(b, in) /\ peer[b].role = "follower"

FreshLeader(b, in) == FreshPeer(b, in) /\ peer[b].role = "leader"

\* The producer's inputs to the shared engagement shell.
ShellInputs(b, in) ==
  LET balancing == role[b] \in {"balance", "leader"}
  IN [engage   |-> CASE balancing             -> in.gate = "high" /\ in.rider /\ PartnerOk(b, in)
                     [] role[b] = "throttle"  -> in.ref # 0
                     [] role[b] = "follower"  -> FreshLeader(b, in) /\ peer[b].run,
      inverted |-> balancing /\ in.gate = "inverted" /\ PartnerOk(b, in),
      leaving  |-> balancing /\ ~in.rider,
      ref      |-> IF role[b] # "follower" THEN in.ref
                   ELSE IF FreshLeader(b, in) THEN peer[b].demand ELSE 0,
      stop     |-> \/ CommsLost(peer[b], NewAge(b, in))
                   \/ NewLatch(b, in).tripped
                   \/ (peer[b] # None /\ peer[b].lockdown)
                   \/ NewTilt(b, in),
      power    |-> NewMode(b, in) = "Run"]

Stepped(b, in) == FsmStep(EngagementAt(OffPass(b, in), fsm[b]), ShellInputs(b, in))
TurnStepped(b, in) ==
  LET t == TurnAt(OffPass(b, in), turn[b])
  IN IF role[b] = "leader" THEN DriveTurnStep(t, in.turn) ELSE t

\* control_dispatch_step: the split, then the freshness gate on both halves.
Gated(b, in, word) == IF Rigid(b) /\ ~FreshPeer(b, in) THEN 0 ELSE word
\* Mutant: the gate before the split.
WheelDemandGatedFirst(b, in) ==
  IF role[b] = "leader" THEN Split(Gated(b, in, Stepped(b, in).out), TurnStepped(b, in)).own
                        ELSE Gated(b, in, Stepped(b, in).out)
WheelDemand(b, in) ==
  Gated(b, in, IF role[b] = "leader" THEN Split(Stepped(b, in).out, TurnStepped(b, in)).own
                                     ELSE Stepped(b, in).out)
PeerDemand(b, in) ==
  IF role[b] = "leader" THEN Gated(b, in, Split(Stepped(b, in).out, TurnStepped(b, in)).peer)
                        ELSE 0

\* arm::decide and the arm and shutdown sequences.
ArmAttempt(b, in) == ~armed[b] /\ NewMoe(b, in) /\ ~MotorFault(b, in)
NewArmed(b, in) ==
  IF armed[b] THEN NewMoe(b, in) /\ ~MotorFault(b, in) ELSE ArmAttempt(b, in) /\ in.confirm
NewRefused(b, in) == refused[b] \/ (ArmAttempt(b, in) /\ ~in.confirm)
Published(b, in) ==
  IF ArmAttempt(b, in) \/ (armed[b] /\ ~NewArmed(b, in)) THEN 0 ELSE WheelDemand(b, in)

\* re_read_arm_values is the arm sequence's first step, refused or not.
NewRole(b, in) == IF ArmAttempt(b, in) THEN stored[b] ELSE role[b]
NewFsm(b, in) == IF NewRole(b, in) = role[b] THEN Stepped(b, in) ELSE FsmStart
NewTurn(b, in) == IF NewRole(b, in) = role[b] THEN TurnStepped(b, in) ELSE 0

\* cyclic_state: built before the bridge is enacted.
Cyclic(b, in) ==
  [run |-> NewMode(b, in) = "Run", fault |-> OwnFault(b, in), role |-> role[b],
   demand |-> PeerDemand(b, in), lockdown |-> FALSE, digest |-> digest[b]]
Due(b, in) == emit[b] + in.dt >= EmitTicks

-----------------------------------------------------------------------------
\* What happened so far, for the properties.

\* Passes beyond the first envelope step counted for a wheel whose partner's bridge
\* failed; the freshness window and the frames under way come well inside it.
AloneCap == 2 * RigidStale + 4

\* Only what Track names is recorded.
Tracked(name, old, new) == IF name \in Track THEN new ELSE old

NewHist(b, in) ==
  LET h == hist[b]
      gap == AgeTick(in.dt, mirror[b].owner # None, h.gap, InputsTimeout + 1)
      down == FaultA(b, in) \/ ~Request(b, in)
      alone == /\ Paired /\ hall[Other(b)] /\ Served(in)
               /\ NewArmed(b, in) /\ Abs(Published(b, in)) > 1
  IN [since   |-> Tracked("since", h.since,
                    IF NewArmed(b, in) /\ armed[b] THEN Sat(h.since, EnvCap) ELSE 0),
      held    |-> Tracked("held", h.held, IF down THEN Sat(h.held, 4) ELSE 0),
      tumbled |-> Tracked("tumbled", h.tumbled,
                    Request(b, in) /\ (h.tumbled \/ (b \in ImuUp /\ NewFallen(b, in)))),
      quiet   |-> Tracked("quiet", h.quiet, Least(h.quiet + in.dt, CyclicTimeout + 1)),
      gap     |-> Tracked("mirror", h.gap, gap),
      broken  |-> Tracked("mirror", h.broken, h.broken \/ gap > InputsTimeout),
      alone   |-> Tracked("alone", h.alone, IF alone THEN Sat(h.alone, AloneCap + 1) ELSE h.alone)]

-----------------------------------------------------------------------------
Init ==
  /\ mode = [b \in Boards |-> "Off"]
  /\ moe = [b \in Boards |-> FALSE]
  /\ armed = [b \in Boards |-> FALSE]
  /\ refused = [b \in Boards |-> FALSE]
  /\ fsm = [b \in Boards |-> FsmStart]
  /\ turn = [b \in Boards |-> 0]
  /\ demand = [b \in Boards |-> 0]
  /\ peerDemand = [b \in Boards |-> 0]
  /\ stored \in {f \in [Boards -> Producers] : \A b \in Boards : f[b] \in Roles[b]}
  /\ role = stored   \* the boot calls the arm-row function once
  /\ digest \in [Boards -> Digests]
  /\ imu = [b \in Boards |-> Healthy]
  /\ period = [b \in Boards |-> Healthy]
  /\ fallen = [b \in Boards |-> FALSE]
  /\ tilt = [b \in Boards |-> FALSE]
  /\ hall = [b \in Boards |-> FALSE]
  /\ trip = [b \in Boards |-> FALSE]
  /\ latch = [b \in Boards |-> NoLatch]
  /\ peer = [b \in Boards |-> None]
  /\ age = [b \in Boards |-> 0]
  /\ heard = [b \in Boards |-> None]
  /\ button = [b \in Boards |-> FALSE]
  /\ mirror = [b \in Boards |-> NoMirror]
  /\ emit = [b \in Boards |-> 0]
  /\ wire = [b \in Boards |-> None]
  /\ writeGate = [b \in Boards |-> FALSE]
  /\ ahead = [b \in Boards |-> 0]
  /\ hist = [b \in Boards |-> HistStart]

\* Two boards run off their own SysTicks at one rate: neither gets Skew ticks ahead.
MayPass(b, dt) ==
  /\ Paired => ahead[b] + dt <= Skew
  /\ Prompt => wire[b] = None

InStep(b, dt) ==
  /\ MayPass(b, dt)
  /\ ahead' = [c \in Boards |->
                 IF ~Paired THEN 0
                 ELSE LET raised(d) == ahead[d] + (IF d = b THEN dt ELSE 0)
                      IN raised(c) - Least(raised(c), raised(Other(c)))]

\* A due frame leaves on the wire, behind the one still there if there is one:
\* the drain would take both and keep the newer.
Transmit(b, in) ==
  /\ emit' = [emit EXCEPT ![b] = IF Due(b, in) THEN 0 ELSE @ + in.dt]
  /\ wire' = IF Due(b, in) /\ Paired THEN [wire EXCEPT ![Other(b)] = Cyclic(b, in)] ELSE wire

\* responder.set_armed, which only the next drain's ConfigWrite reads.
SampleGate(b) ==
  writeGate' = IF "config" \in Env THEN [writeGate EXCEPT ![b] = moe[b]] ELSE writeGate

\* Sample the write gate, then one dispatched control pass, then its frame.
PassWith(b, in) ==
  /\ InStep(b, in.dt)
  /\ SampleGate(b)
  /\ mode' = [mode EXCEPT ![b] = NewMode(b, in)]
  /\ moe' = [moe EXCEPT ![b] = NewMoe(b, in)]
  /\ armed' = [armed EXCEPT ![b] = NewArmed(b, in)]
  /\ refused' = [refused EXCEPT ![b] = NewRefused(b, in)]
  /\ fsm' = [fsm EXCEPT ![b] = NewFsm(b, in)]
  /\ turn' = [turn EXCEPT ![b] = NewTurn(b, in)]
  /\ demand' = [demand EXCEPT ![b] = Published(b, in)]
  /\ peerDemand' = [peerDemand EXCEPT ![b] = PeerDemand(b, in)]
  /\ role' = [role EXCEPT ![b] = NewRole(b, in)]
  /\ imu' = [imu EXCEPT ![b] = NewImu(b, in)]
  /\ period' = [period EXCEPT ![b] = NewPeriod(b, in)]
  /\ fallen' = [fallen EXCEPT ![b] = NewFallen(b, in)]
  /\ tilt' = [tilt EXCEPT ![b] = NewTilt(b, in)]
  /\ trip' = [trip EXCEPT ![b] = FALSE]
  /\ latch' = [latch EXCEPT ![b] = NewLatch(b, in)]
  /\ age' = [age EXCEPT ![b] = NewAge(b, in)]
  /\ mirror' = [mirror EXCEPT ![b] = NewMirror(b, in)]
  /\ hist' = [hist EXCEPT ![b] = NewHist(b, in)]
  /\ Transmit(b, in)
  /\ UNCHANGED <<stored, digest, hall, peer, heard, button>>

Pass(b) == \E in \in Inputs : PassWith(b, in)

\* A loop pass with no task due still samples the write gate.
IdleLoop(b) ==
  /\ "config" \in Env
  /\ writeGate[b] # moe[b]
  /\ SampleGate(b)
  /\ UNCHANGED <<boardVars, linkVars, stored, digest, hall, trip, button, mirror,
                 emit, wire, ahead, hist>>

\* route_handback of a CYCLIC_STATE that came in on the configured link.
Hear(b, f) ==
  /\ peer' = [peer EXCEPT ![b] = f]
  /\ age' = [age EXCEPT ![b] = 0]
  /\ heard' = [heard EXCEPT ![b] = f.digest]
  /\ hist' = [hist EXCEPT ![b].quiet = 0]
  /\ UNCHANGED <<mode, moe, armed, refused, fsm, turn, demand, peerDemand, role,
                 imu, period, fallen, tilt, latch, stored, digest, hall, trip,
                 button, mirror, emit, writeGate, ahead>>

Deliver(b) ==
  /\ b \in Linked /\ wire[b] # None
  /\ Hear(b, wire[b])
  /\ wire' = [wire EXCEPT ![b] = None]

HearForeign(b) ==
  /\ b \in Linked
  /\ \E f \in ForeignFrames : Hear(b, f)
  /\ UNCHANGED wire

LoseFrame(b) ==
  /\ "loss" \in Env /\ wire[b] # None
  /\ wire' = [wire EXCEPT ![b] = None]
  /\ UNCHANGED <<boardVars, linkVars, stored, digest, hall, trip, button, mirror,
                 emit, writeGate, ahead, hist>>

Inbox(b, m, h) ==
  /\ mirror' = [mirror EXCEPT ![b] = m]
  /\ hist' = [hist EXCEPT ![b] = h]
  /\ UNCHANGED <<boardVars, linkVars, stored, digest, hall, trip, button, emit,
                 wire, writeGate, ahead>>

\* A controller states its levels (INPUTS), or streams its demand (DRIVE_CMD).
HearInputs(b, c) ==
  \E level \in BOOLEAN :
    Inbox(b, AcceptInputs(mirror[b], c, level), [hist[b] EXCEPT !.gap = 0, !.broken = FALSE])

HearDrive(b, c) ==
  /\ mirror[b].owner # None
  /\ Inbox(b, AcceptDrive(mirror[b], c),
           IF c = mirror[b].owner THEN [hist[b] EXCEPT !.gap = 0] ELSE hist[b])

\* input_task: the debounced button changes.
Press(b) ==
  /\ "button" \in Env \/ ("press" \in Env /\ ~button[b])
  /\ button' = [button EXCEPT ![b] = ~@]
  /\ UNCHANGED <<boardVars, linkVars, stored, digest, hall, trip, mirror, emit,
                 wire, writeGate, ahead, hist>>

\* The period ISR: a hall dwell fault sticks for the boot; a hard over-current
\* trip is counted only while the bridge is armed.
HallFault(b) ==
  /\ "hall" \in Env /\ ~hall[b]
  /\ hall' = [hall EXCEPT ![b] = TRUE]
  /\ UNCHANGED <<boardVars, linkVars, stored, digest, trip, button, mirror, emit,
                 wire, writeGate, ahead, hist>>

OverCurrent(b) ==
  /\ "trip" \in Env /\ armed[b] /\ ~trip[b]
  /\ trip' = [trip EXCEPT ![b] = TRUE]
  /\ UNCHANGED <<boardVars, linkVars, stored, digest, hall, button, mirror, emit,
                 wire, writeGate, ahead, hist>>

\* A CONFIG_WRITE the drain accepted: the store, and the digests with it.
ConfigWrite(b) ==
  /\ "config" \in Env /\ ~writeGate[b]
  /\ \E r \in Roles[b], d \in Digests :
       /\ <<r, d>> # <<stored[b], digest[b]>>
       /\ stored' = [stored EXCEPT ![b] = r]
       /\ digest' = [digest EXCEPT ![b] = d]
  /\ UNCHANGED <<boardVars, linkVars, hall, trip, button, mirror, emit, wire,
                 writeGate, ahead, hist>>

\* A reset of one board: the store survives it, the other board does not see it.
Reboot(b) ==
  /\ "reboot" \in Env
  /\ mode' = [mode EXCEPT ![b] = "Off"]
  /\ moe' = [moe EXCEPT ![b] = FALSE]
  /\ armed' = [armed EXCEPT ![b] = FALSE]
  /\ refused' = [refused EXCEPT ![b] = FALSE]
  /\ fsm' = [fsm EXCEPT ![b] = FsmStart]
  /\ turn' = [turn EXCEPT ![b] = 0]
  /\ demand' = [demand EXCEPT ![b] = 0]
  /\ peerDemand' = [peerDemand EXCEPT ![b] = 0]
  /\ role' = [role EXCEPT ![b] = stored[b]]
  /\ imu' = [imu EXCEPT ![b] = Healthy]
  /\ period' = [period EXCEPT ![b] = Healthy]
  /\ fallen' = [fallen EXCEPT ![b] = FALSE]
  /\ tilt' = [tilt EXCEPT ![b] = FALSE]
  /\ latch' = [latch EXCEPT ![b] = NoLatch]
  /\ age' = [age EXCEPT ![b] = 0]
  /\ peer' = [peer EXCEPT ![b] = None]
  /\ heard' = [heard EXCEPT ![b] = None]
  /\ hall' = [hall EXCEPT ![b] = FALSE]
  /\ trip' = [trip EXCEPT ![b] = FALSE]
  /\ button' = [button EXCEPT ![b] = FALSE]
  /\ mirror' = [mirror EXCEPT ![b] = NoMirror]
  /\ emit' = [emit EXCEPT ![b] = 0]
  /\ writeGate' = [writeGate EXCEPT ![b] = FALSE]
  /\ hist' = [c \in Boards |-> IF c = b THEN HistStart ELSE [hist[c] EXCEPT !.alone = 0]]
  /\ UNCHANGED <<stored, digest, wire, ahead>>

Next == \E b \in Boards :
  \/ Pass(b) \/ IdleLoop(b)
  \/ Deliver(b) \/ HearForeign(b) \/ LoseFrame(b)
  \/ \E c \in Controllers : HearInputs(b, c) \/ HearDrive(b, c)
  \/ Press(b) \/ HallFault(b) \/ OverCurrent(b) \/ ConfigWrite(b) \/ Reboot(b)

Spec == Init /\ [][Next]_vars
\* The main loop of each board keeps running, and drains what has arrived.
FairSpec == Spec /\ \A b \in Boards : WF_vars(Pass(b)) /\ WF_vars(Deliver(b))

\* The same for two boards, where every served pass moves ahead: weak fairness of
\* Pass(b) spelt out over its guard, which TLC evaluates faster than ENABLED.
PairFairSpec == Spec /\ \A b \in Boards :
  /\ []<>~(\E dt \in Ticks : dt > 0 /\ MayPass(b, dt)) \/ []<><<Pass(b)>>_vars
  /\ WF_vars(Deliver(b))

-----------------------------------------------------------------------------
\* Types.  Words and turns are bounded by the envelope and the commands.

Words == -EnvCap .. EnvCap
Fsms == [sub : Subs, env : 0 .. EnvCap, pickup : 0 .. PickupTrip + 1,
         winddown : 0 .. WinddownTrip + 1, out : Words]
Healths == [fail : 0 .. HealthLoss, ok : 0 .. HealthRecover, loss : BOOLEAN]
Latches == [code : BOOLEAN, tripped : BOOLEAN, count : 0 .. IdleLimit]
Mirrors == [level : BOOLEAN, owner : Controllers \cup {None}, age : 0 .. InputsTimeout + 1]
Hists == [since : 0 .. EnvCap, held : 0 .. 4, tumbled : BOOLEAN,
          quiet : 0 .. CyclicTimeout + 1, gap : 0 .. InputsTimeout + 1,
          broken : BOOLEAN, alone : 0 .. AloneCap + 1]

TypeOK ==
  /\ mode \in [Boards -> Modes]
  /\ {moe, armed, refused, fallen, tilt, hall, trip, button, writeGate}
       \subseteq [Boards -> BOOLEAN]
  /\ fsm \in [Boards -> Fsms]
  /\ {turn, demand, peerDemand} \subseteq [Boards -> Int]
  /\ {role, stored} \subseteq [Boards -> Producers]
  /\ digest \in [Boards -> Digests]
  /\ {imu, period} \subseteq [Boards -> Healths]
  /\ latch \in [Boards -> Latches]
  /\ {peer, wire} \subseteq [Boards -> Frames \cup {None}]
  /\ age \in [Boards -> 0 .. CyclicTimeout + 1]
  /\ heard \in [Boards -> Digests \cup {None}]
  /\ mirror \in [Boards -> Mirrors]
  /\ emit \in [Boards -> Nat]
  /\ ahead \in [Boards -> Nat]
  /\ hist \in [Boards -> Hists]

-----------------------------------------------------------------------------
(***************************************************************************)
(* Safety of one board.                                                    *)
(***************************************************************************)

\* The arm sequence energizes a bridge only from a disengaged machine with an
\* empty envelope and a zero word: arm.rs "commutation starts from a cleared
\* command", which the OFF reset and the two hysteresis latches arrange.
EnergizeDisengaged ==
  [][ \A b \in Boards :
        ~armed[b] /\ armed'[b] =>
          /\ mode[b] = "Init"
          /\ fsm'[b].sub = "Idle" /\ fsm'[b].env = 0 /\ fsm'[b].out = 0
          /\ demand'[b] = 0 ]_vars

\* The soft start holds from the bridge's point of view: the common torque never
\* exceeds one envelope step per pass since the bridge was armed.
SoftStart == \A b \in Boards : armed[b] => Abs(fsm[b].out) <= hist[b].since

\* A bridge is armed only under the mode machine's grant, and four passes in a row
\* with a fault or without a request always find it inert, wherever they start.
FaultDisarms ==
  \A b \in Boards :
    /\ armed[b] => moe[b] /\ ~refused[b] /\ mode[b] \in {"Ready", "Run", "Shutdown"}
    /\ hist[b].held = 4 => ~armed[b] /\ mode[b] = "Off"

\* A board that fell over does not get up by itself: it leaves OFF only under a
\* request raised after the fall (the tilt latch releases where an engage ends).
FallenStaysOff ==
  [][ \A b \in Boards :
        mode[b] = "Off" /\ mode'[b] # "Off" => ~hist'[b].tumbled ]_vars

\* A controller that went silent for longer than its levels live has to state them
\* again: its power level never comes back with a demand frame (LinkInbox::accept,
\* "a gap must not be closed by the frame that ends it").
SilenceRevokesRequest ==
  \A b \in Boards : RemoteRequest(mirror[b]) => ~hist[b].broken

\* No phantom communication loss: a board declares its peer lost only after that
\* many ticks of real silence, however many catch-up passes it ran.
LossIsReal ==
  \A b \in Boards : CommsLost(peer[b], age[b]) => hist[b].quiet > CyclicTimeout

-----------------------------------------------------------------------------
(***************************************************************************)
(* Safety of a board with a link, and of two boards on a rigid frame.      *)
(***************************************************************************)

\* A board told to have a peer stays OFF until it has heard it, and a rigid wheel
\* turns only on a peer's word that is still fresh: one wheel of a welded frame
\* never drives beside a silent one.
TorqueIsFresh ==
  \A b \in Boards :
    /\ b \in Linked /\ mode[b] # "Off" => heard[b] # None
    /\ Rigid(b) /\ demand[b] # 0 => Fresh(peer[b], age[b])

\* Two leaders are two balance loops on one welded frame: both never engage
\* together (mode_fault_level: the cleared gate "keeps both boards from engaging").
OneBalanceLoop ==
  \A b, c \in Boards :
    b # c /\ role[b] = "leader" /\ role[c] = "leader" =>
      ~(armed[b] /\ armed[c] /\ fsm[b].sub # "Idle" /\ fsm[c].sub # "Idle")

\* When one bridge of a rigid pair fails for good and no frame is lost, the other
\* wheel drives on (past the first envelope step) for the passes its frame takes and
\* the two its mode machine takes after it.
LoneWheelBounded == \A b \in Boards : hist[b].alone <= EmitTicks + 2 * Skew + 1

-----------------------------------------------------------------------------
(***************************************************************************)
(* Liveness.                                                               *)
(***************************************************************************)

\* Two boards never hold each other disarmed: once both requests stay up, the
\* sensors stay good and neither bridge has failed, both boards reach RUN and stay
\* there.  own_mask carries no peer_down, so a fault is never reflected back at the
\* board that raised it.
PairArms ==
  <>[](\A b \in Boards : button[b] /\ imu[b].fail = 0 /\ ~hall[b])
    => <>[](\A b \in Boards : mode[b] = "Run")

\* A hard over-current trip ends in an inert bridge even when it comes before RUN,
\* where the latch does not yet look at its mailbox.
TripStops == \A b \in Boards : trip[b] ~> ~armed[b]

-----------------------------------------------------------------------------
(***************************************************************************)
(* What the source says of itself and this model refutes.                  *)
(***************************************************************************)

\* dispatch.rs on the leader with no IMU up: "it arms and never engages, so its
\* torque and the `peer_demand` it sends stay 0".
UnfitLeaderIsQuiet ==
  \A b \in Boards :
    armed[b] /\ role[b] = "leader" /\ b \notin ImuUp => demand[b] = 0 /\ peerDemand[b] = 0

\* walk.rs R4: "no flash program or erase while armed, no exceptions".
ArmedStoreIsQuiet ==
  [][ \A b \in Boards : moe[b] => stored'[b] = stored[b] /\ digest'[b] = digest[b] ]_vars

\* dispatch.rs on peer_down: "a one-wheel fault stops both wheels", whatever frames
\* are lost: once the window and the frames under way are past, the lone wheel stays
\* within its first envelope step.
OneFaultStopsBoth == \A b \in Boards : hist[b].alone <= AloneCap
=============================================================================
