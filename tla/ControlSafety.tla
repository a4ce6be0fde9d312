---------------------------- MODULE ControlSafety ----------------------------
(***************************************************************************)
(* The safety theorems of the control pass: those of one board, each from  *)
(* an inductive invariant of one board at a time and the effects that      *)
(* ControlProofs gives of a step on one board, then those of two boards.   *)
(***************************************************************************)
EXTENDS ControlProofs

-----------------------------------------------------------------------------
(***************************************************************************)
(* The mode machine and the bridge.  The grant follows the mode exactly;   *)
(* every pass with a fault or without a request leaves one mode fewer to   *)
(* be in, until OFF.                                                       *)
(***************************************************************************)
GrantedModes == {"Ready", "Run", "Shutdown"}

BridgeInv(c) ==
  /\ moe[c] <=> mode[c] \in GrantedModes
  /\ armed[c] => moe[c] /\ ~refused[c] /\ ~period[c].loss
  /\ hist[c].held # 0 => "held" \in Track
  /\ hist[c].held = 1 => mode[c] # "Init"
  /\ hist[c].held = 2 => mode[c] \in {"Off", "Run", "Shutdown"}
  /\ hist[c].held = 3 => mode[c] \in {"Off", "Shutdown"}
  /\ hist[c].held = 4 => mode[c] = "Off"

\* The mode after a pass, by the mode before it.
LEMMA NewModeArms ==
  ASSUME TypeOK, NEW b \in Boards, NEW in \in Inputs
  PROVE  /\ mode[b] = "Off" => NewMode(b, in) \in {"Off", "Init"}
         /\ mode[b] = "Off" /\ NewMode(b, in) = "Init" =>
              Request(b, in) /\ ~FaultA(b, in) /\ ~Disagrees(b)
         /\ mode[b] = "Init" => NewMode(b, in) = "Ready"
         /\ mode[b] = "Ready" => NewMode(b, in) = "Run"
         /\ mode[b] = "Run" => NewMode(b, in) = IF FaultA(b, in) \/ ~Request(b, in)
                                                THEN "Shutdown" ELSE "Run"
         /\ mode[b] = "Shutdown" => NewMode(b, in) = "Off"
<1> DEFINE inhibit == Moving(b, in) \/ Disagrees(b)
<1>1. FaultA(b, in) \in BOOLEAN /\ Request(b, in) \in BOOLEAN /\ inhibit \in BOOLEAN
  BY FaultTypes
<1>2. NewMode(b, in) = NextMode(mode[b], FaultA(b, in), Request(b, in), inhibit)
  BY DEF NewMode
<1>3. ~inhibit => ~Disagrees(b)
  OBVIOUS
<1> HIDE DEF inhibit
<1> QED
  BY <1>1, <1>2, <1>3, NextModeArms

LEMMA HeldNext ==
  ASSUME TypeOK, NEW b \in Boards, NEW in \in Inputs
  PROVE  NewHist(b, in).held =
           IF "held" \in Track
           THEN IF FaultA(b, in) \/ ~Request(b, in) THEN Sat(hist[b].held, 4) ELSE 0
           ELSE hist[b].held
BY DEF NewHist, Tracked

LEMMA NoMotorFaultArmed ==
  ASSUME TypeOK, NEW b \in Boards, NEW in \in Inputs, NewArmed(b, in), BridgeInv(b)
  PROVE  NewMoe(b, in) /\ ~NewRefused(b, in) /\ ~NewPeriod(b, in).loss
BY DEF NewArmed, NewRefused, ArmAttempt, MotorFault, BridgeInv

LEMMA BridgePass ==
  ASSUME TypeOK, NEW b \in Boards, NEW in \in Inputs, PassWith(b, in), BridgeInv(b)
  PROVE  BridgeInv(b)'
<1>1. /\ mode'[b] = NewMode(b, in) /\ moe'[b] = NewMoe(b, in) /\ armed'[b] = NewArmed(b, in)
      /\ refused'[b] = NewRefused(b, in) /\ period'[b] = NewPeriod(b, in)
      /\ hist'[b] = NewHist(b, in)
  BY PassEffect
<1>2. moe'[b] <=> mode'[b] \in GrantedModes
  <2>1. mode[b] \in Modes
    BY BoardFacts
  <2> QED
    BY <1>1, <2>1, NewModeArms DEF NewMoe, MoeAfter, BridgeInv, GrantedModes, Modes
<1>3. armed'[b] => moe'[b] /\ ~refused'[b] /\ ~period'[b].loss
  BY <1>1, NoMotorFaultArmed
<1>4. hist'[b].held # 0 => "held" \in Track
  BY <1>1, HeldNext DEF BridgeInv
<1>5. ASSUME hist'[b].held # 0
      PROVE  /\ FaultA(b, in) \/ ~Request(b, in)
             /\ hist'[b].held = 1 => hist[b].held = 0
             /\ hist'[b].held = 2 => hist[b].held = 1
             /\ hist'[b].held = 3 => hist[b].held = 2
             /\ hist'[b].held = 4 => hist[b].held \in {3, 4}
  <2>1. hist'[b].held = Sat(hist[b].held, 4) /\ (FaultA(b, in) \/ ~Request(b, in))
    BY <1>1, <1>4, <1>5, HeldNext
  <2>2. hist[b].held \in 0 .. 4
    BY HistFacts
  <2> QED
    BY <2>1, <2>2 DEF Sat, Least
<1>6. /\ hist'[b].held = 1 => mode'[b] # "Init"
      /\ hist'[b].held = 2 => mode'[b] \in {"Off", "Run", "Shutdown"}
      /\ hist'[b].held = 3 => mode'[b] \in {"Off", "Shutdown"}
      /\ hist'[b].held = 4 => mode'[b] = "Off"
  <2>1. mode[b] \in Modes
    BY BoardFacts
  <2> QED
    BY <1>1, <1>5, <2>1, NewModeArms DEF BridgeInv, Modes
<1> QED
  BY <1>2, <1>3, <1>4, <1>6 DEF BridgeInv

LEMMA BridgeStep ==
  ASSUME TypeOK, [Next]_vars, NEW c \in Boards, BridgeInv(c)
  PROVE  BridgeInv(c)'
<1>1. CASE \E in \in Inputs : PassWith(c, in)
  BY <1>1, BridgePass
<1>2. CASE Reboot(c)
  <2>1. mode'[c] = "Off" /\ moe'[c] = FALSE /\ armed'[c] = FALSE /\ hist'[c] = HistStart
    BY <1>2, RebootEffect
  <2> QED
    BY <2>1 DEF BridgeInv, GrantedModes, HistStart
<1>3. CASE StateKept(c)
  BY <1>3 DEF StateKept, BridgeInv
<1> QED
  BY <1>1, <1>2, <1>3, StepEffect

LEMMA BridgeInit == Init => \A c \in Boards : BridgeInv(c)
BY DEF Init, BridgeInv, GrantedModes, HistStart

Bridges == TypeOK /\ \A c \in Boards : BridgeInv(c)

LEMMA BridgeInvariant == Spec => []Bridges
<1>1. Init => Bridges
  BY InitType, BridgeInit DEF Bridges
<1>2. Bridges /\ [Next]_vars => Bridges'
  BY NextType, BridgeStep DEF Bridges
<1> QED
  BY <1>1, <1>2, PTL DEF Spec

\* A bridge is armed only under the mode machine's grant, after a confirmed arm
\* sequence and outside SHUTDOWN's inert pass, and four passes in a row with a fault
\* or without a request always find it inert in OFF, wherever they start.
THEOREM FaultDisarmsHolds == Spec => []FaultDisarms
<1>1. Bridges => FaultDisarms
  BY DEF Bridges, BridgeInv, FaultDisarms, GrantedModes
<1> QED
  BY <1>1, BridgeInvariant, PTL

-----------------------------------------------------------------------------
(***************************************************************************)
(* The energize edge.  The grant stays up from INIT to SHUTDOWN, so a      *)
(* fault that clears in between could arm a bridge in the middle of an     *)
(* engage.  It does not: a disarmed bridge under the grant has a fault     *)
(* that is for the boot, or a period loss so fresh that its recovery       *)
(* (HealthRecover good samples) comes after the mode machine has left RUN. *)
(***************************************************************************)
Disengaged(f) == f.sub = "Idle" /\ f.env = 0 /\ f.out = 0

Inert(c, good) == hall[c] \/ refused[c] \/ (period[c].loss /\ period[c].ok <= good)

EnergizeInv(c) ==
  /\ mode[c] \in {"Off", "Init"} => Disengaged(fsm[c])
  /\ mode[c] = "Init" => ~period[c].loss
  /\ mode[c] = "Ready" /\ ~armed[c] => Inert(c, 0)
  /\ mode[c] = "Run" /\ ~armed[c] => Inert(c, 1)

\* One good sample of an ill period ISR counts one, and a new loss counts none.
LEMMA ObserveStep ==
  ASSUME NEW h \in Healths, NEW ok \in BOOLEAN
  PROVE  /\ ~h.loss /\ Observe(h, ok).loss => Observe(h, ok).ok = 0
         /\ h.loss /\ h.ok <= 1 => Observe(h, ok).loss /\ Observe(h, ok).ok <= h.ok + 1
<1>1. h.fail \in 0 .. HealthLoss /\ h.ok \in 0 .. HealthRecover /\ h.loss \in BOOLEAN
  BY DEF Healths
<1> QED
  BY <1>1, TimesFacts DEF Observe, Sat, Least

LEMMA PeriodStep ==
  ASSUME TypeOK, NEW b \in Boards, NEW in \in Inputs
  PROVE  /\ ~period[b].loss /\ NewPeriod(b, in).loss => NewPeriod(b, in).ok = 0
         /\ period[b].loss /\ period[b].ok <= 1 =>
              NewPeriod(b, in).loss /\ NewPeriod(b, in).ok <= period[b].ok + 1
<1>1. period[b] \in Healths /\ in.live \in BOOLEAN
  BY BoardFacts, InputFacts
<1>2. period[b].ok \in Int
  BY <1>1, TimesFacts DEF Healths
<1>3. CASE Served(in)
  <2>1. NewPeriod(b, in) = Observe(period[b], in.live)
    BY <1>3 DEF NewPeriod
  <2> QED
    BY <1>1, <2>1, ObserveStep
<1>4. CASE ~Served(in)
  <2>1. NewPeriod(b, in) = period[b]
    BY <1>4 DEF NewPeriod
  <2> QED
    BY <1>2, <2>1
<1> QED
  BY <1>3, <1>4

\* A bridge that is inert under the grant stays so for one more pass.
LEMMA InertStays ==
  ASSUME TypeOK, NEW b \in Boards, NEW in \in Inputs, NEW good \in {0, 1}, Inert(b, good)
  PROVE  /\ MotorFault(b, in)
         /\ hall[b] \/ refused[b] \/ (NewPeriod(b, in).loss /\ NewPeriod(b, in).ok <= good + 1)
<1>1. period[b].ok \in Int /\ NewPeriod(b, in).ok \in Int
  <2>1. period[b] \in Healths /\ NewPeriod(b, in) \in Healths
    BY BoardFacts, SensedTypes
  <2> QED
    BY <2>1, TimesFacts DEF Healths
<1> QED
  BY <1>1, PeriodStep DEF Inert, MotorFault

\* A machine without power stays disengaged, and a reset one is.
LEMMA UnpoweredIdle ==
  ASSUME NEW f \in Fsms, Disengaged(f), NEW x, x.power = FALSE
  PROVE  Disengaged(FsmStep(f, x))
<1>1. FsmStep(f, x) = [f EXCEPT !.env = IF @ > EnvDecay THEN @ - EnvDecay ELSE 0, !.out = 0]
  BY DEF FsmStep, IdleArm, Disengaged
<1>2. f.env = 0 /\ ~(f.env > EnvDecay)
  BY TimesFacts DEF Disengaged
<1>3. FsmStep(f, x) = [f EXCEPT !.env = 0, !.out = 0]
  BY <1>1, <1>2
<1> QED
  BY <1>3 DEF Disengaged, Fsms

LEMMA StartDisengaged == Disengaged(FsmStart)
BY DEF Disengaged, FsmStart

LEMMA UnpoweredPass ==
  ASSUME TypeOK, NEW b \in Boards, NEW in \in Inputs, EnergizeInv(b),
         NewMode(b, in) = "Off" \/ (mode[b] \in {"Off", "Init"} /\ NewMode(b, in) # "Run")
  PROVE  Disengaged(NewFsm(b, in))
<1> DEFINE f == EngagementAt(OffPass(b, in), fsm[b])
           x == ShellInputs(b, in)
<1>1. f \in Fsms /\ Disengaged(f)
  BY BoardFacts, FsmStartType, StartDisengaged DEF EngagementAt, OffPass, EnergizeInv
<1>2. x.power = FALSE
  BY DEF ShellInputs
<1>3. Disengaged(Stepped(b, in))
  <2>1. Stepped(b, in) = FsmStep(f, x)
    BY DEF Stepped
  <2> HIDE DEF f, x
  <2> QED
    BY <1>1, <1>2, <2>1, UnpoweredIdle
<1> QED
  BY <1>3, StartDisengaged DEF NewFsm

\* Only the pass that leaves INIT arms a bridge.
LEMMA ArmsFromInit ==
  ASSUME TypeOK, NEW b \in Boards, NEW in \in Inputs, BridgeInv(b), EnergizeInv(b),
         ~armed[b], NewArmed(b, in)
  PROVE  mode[b] = "Init" /\ ArmAttempt(b, in)
<1>1. ArmAttempt(b, in) /\ NewMoe(b, in) /\ ~MotorFault(b, in)
  BY DEF NewArmed, ArmAttempt
<1>2. mode[b] # "Off" /\ mode[b] # "Shutdown"
  BY <1>1 DEF NewMoe, MoeAfter, BridgeInv, GrantedModes
<1>3. mode[b] # "Ready" /\ mode[b] # "Run"
  BY <1>1, InertStays DEF EnergizeInv
<1> QED
  BY <1>1, <1>2, <1>3, BoardFacts DEF Modes

LEMMA EnergizePass ==
  ASSUME TypeOK, NEW b \in Boards, NEW in \in Inputs, PassWith(b, in),
         BridgeInv(b), EnergizeInv(b)
  PROVE  EnergizeInv(b)'
<1>1. /\ mode'[b] = NewMode(b, in) /\ armed'[b] = NewArmed(b, in) /\ hall'[b] = hall[b]
      /\ refused'[b] = NewRefused(b, in) /\ period'[b] = NewPeriod(b, in)
      /\ fsm'[b] = NewFsm(b, in)
  BY PassEffect
<1>2. mode[b] \in Modes
  BY BoardFacts
<1>2a. ASSUME NEW good \in {0, 1}, hall[b] \/ refused[b] \/ NewRefused(b, in)
             \/ (NewPeriod(b, in).loss /\ NewPeriod(b, in).ok <= good)
      PROVE  Inert(b, good)'
  <2>1. NewRefused(b, in) \in BOOLEAN /\ refused[b] \in BOOLEAN
    BY ModeTypes, BoardFacts
  <2>2. refused[b] => NewRefused(b, in)
    BY DEF NewRefused
  <2> QED
    BY <1>1, <1>2a, <2>1, <2>2 DEF Inert
<1>3. mode'[b] \in {"Off", "Init"} => Disengaged(fsm'[b])
  BY <1>1, <1>2, NewModeArms, UnpoweredPass DEF Modes
<1>4. mode'[b] = "Init" => ~period'[b].loss
  <2> SUFFICES ASSUME mode'[b] = "Init" PROVE ~period'[b].loss
    OBVIOUS
  <2>1. ~FaultA(b, in)
    BY <1>1, <1>2, NewModeArms DEF Modes
  <2> QED
    BY <1>1, <2>1 DEF FaultA, OwnFault, MotorFault
<1>5. mode'[b] = "Ready" /\ ~armed'[b] => Inert(b, 0)'
  <2> SUFFICES ASSUME mode'[b] = "Ready", ~armed'[b] PROVE Inert(b, 0)'
    OBVIOUS
  <2>1. mode[b] = "Init" /\ ~armed[b] /\ NewMoe(b, in)
    BY <1>1, <1>2, NewModeArms DEF Modes, NewMoe, MoeAfter, BridgeInv, GrantedModes
  <2>2. MotorFault(b, in) \/ NewRefused(b, in)
    BY <1>1, <2>1 DEF NewArmed, ArmAttempt, NewRefused
  <2>3. NewPeriod(b, in).loss => NewPeriod(b, in).ok = 0
    BY <2>1, PeriodStep DEF EnergizeInv
  <2> QED
    BY <1>2a, <2>2, <2>3 DEF MotorFault
<1>6. mode'[b] = "Run" /\ ~armed'[b] => Inert(b, 1)'
  <2> SUFFICES ASSUME mode'[b] = "Run", ~armed'[b] PROVE Inert(b, 1)'
    OBVIOUS
  <2>1. mode[b] = "Ready" \/ (mode[b] = "Run" /\ ~FaultA(b, in))
    BY <1>1, <1>2, NewModeArms DEF Modes
  <2>2. NewMoe(b, in)
    BY <2>1 DEF NewMoe, MoeAfter, BridgeInv, GrantedModes
  <2>3. CASE armed[b]
    <3>1. MotorFault(b, in)
      BY <1>1, <2>2, <2>3 DEF NewArmed
    <3>2. NewPeriod(b, in).loss => NewPeriod(b, in).ok = 0
      BY <2>3, PeriodStep DEF BridgeInv
    <3> QED
      BY <1>2a, <3>1, <3>2 DEF MotorFault
  <2>4. CASE ~armed[b]
    <3>1. mode[b] = "Run" => MotorFault(b, in)
      BY <2>4, InertStays DEF EnergizeInv
    <3>2. mode[b] = "Ready"
      BY <2>1, <3>1 DEF FaultA, OwnFault
    <3>3. hall[b] \/ refused[b] \/ (NewPeriod(b, in).loss /\ NewPeriod(b, in).ok <= 0 + 1)
      BY <2>4, <3>2, InertStays DEF EnergizeInv
    <3> QED
      BY <1>2a, <3>3
  <2> QED
    BY <2>3, <2>4
<1> QED
  BY <1>3, <1>4, <1>5, <1>6 DEF EnergizeInv

LEMMA EnergizeStep ==
  ASSUME TypeOK, [Next]_vars, NEW c \in Boards, BridgeInv(c), EnergizeInv(c)
  PROVE  EnergizeInv(c)'
<1>1. CASE \E in \in Inputs : PassWith(c, in)
  BY <1>1, EnergizePass
<1>2. CASE Reboot(c)
  <2>1. mode'[c] = "Off" /\ fsm'[c] = FsmStart
    BY <1>2, RebootEffect
  <2> QED
    BY <2>1, StartDisengaged DEF EnergizeInv
<1>3. CASE StateKept(c)
  BY <1>3 DEF StateKept, EnergizeInv, Inert
<1> QED
  BY <1>1, <1>2, <1>3, StepEffect

Energy == Bridges /\ \A c \in Boards : EnergizeInv(c)

LEMMA EnergyInvariant == Spec => []Energy
<1>1. Init => Energy
  <2>1. Init => \A c \in Boards : EnergizeInv(c)
    BY StartDisengaged DEF Init, EnergizeInv
  <2> QED
    BY <2>1, InitType, BridgeInit DEF Energy, Bridges
<1>2. Energy /\ [Next]_vars => Energy'
  BY NextType, BridgeStep, EnergizeStep DEF Energy, Bridges
<1> QED
  BY <1>1, <1>2, PTL DEF Spec

LEMMA EnergizeEdge ==
  ASSUME Energy, [Next]_vars, NEW c \in Boards, ~armed[c], armed'[c]
  PROVE  /\ mode[c] = "Init" /\ Disengaged(fsm'[c]) /\ demand'[c] = 0
         /\ hist'[c].since = 0 \/ "since" \notin Track
<1>1. TypeOK /\ BridgeInv(c) /\ EnergizeInv(c)
  BY DEF Energy, Bridges
<1>2. CASE \E in \in Inputs : PassWith(c, in)
  <2>1. PICK in \in Inputs : PassWith(c, in)
    BY <1>2
  <2>2. /\ armed'[c] = NewArmed(c, in) /\ fsm'[c] = NewFsm(c, in)
        /\ demand'[c] = Published(c, in) /\ hist'[c] = NewHist(c, in)
    BY <1>1, <2>1, PassEffect
  <2>3. mode[c] = "Init" /\ ArmAttempt(c, in)
    BY <1>1, <2>2, ArmsFromInit
  <2>4. Disengaged(fsm'[c])
    BY <1>1, <2>2, <2>3, NewModeArms, UnpoweredPass
  <2>5. demand'[c] = 0
    BY <2>2, <2>3 DEF Published
  <2>6. hist'[c].since = 0 \/ "since" \notin Track
    BY <2>2 DEF NewHist, Tracked
  <2> QED
    BY <2>3, <2>4, <2>5, <2>6
<1>3. CASE Reboot(c)
  BY <1>1, <1>3, RebootEffect
<1>4. CASE StateKept(c)
  BY <1>4 DEF StateKept
<1> QED
  BY <1>1, <1>2, <1>3, <1>4, StepEffect

\* A bridge is energized only on the pass that leaves INIT, with the engagement
\* machine idle, its envelope empty and the published word zero: whatever faults
\* come and clear while the grant is up, no arm meets a machine already engaged.
THEOREM EnergizeDisengagedHolds == Spec => EnergizeDisengaged
<1>1. Energy /\ [Next]_vars =>
        [ \A b \in Boards :
            ~armed[b] /\ armed'[b] =>
              /\ mode[b] = "Init"
              /\ fsm'[b].sub = "Idle" /\ fsm'[b].env = 0 /\ fsm'[b].out = 0
              /\ demand'[b] = 0 ]_vars
  BY EnergizeEdge DEF Disengaged
<1> QED
  BY <1>1, EnergyInvariant, PTL DEF Spec, EnergizeDisengaged

-----------------------------------------------------------------------------
(***************************************************************************)
(* The soft start.  The envelope climbs one step per pass, and it is empty *)
(* when the bridge is armed, so it never outruns the passes since then;    *)
(* RUN stands at the cap, so the wind-down that sets the envelope to the   *)
(* cap sets it to what it was.                                             *)
(***************************************************************************)
RampInv(c) ==
  /\ fsm[c].sub = "Run" => fsm[c].env = EnvCap
  /\ armed[c] => fsm[c].env <= hist[c].since /\ Abs(fsm[c].out) <= hist[c].since

\* One step of the engagement machine climbs one envelope step at most, keeps the
\* word under the envelope and enters RUN at the cap only.
LEMMA FsmStepRamp ==
  ASSUME NEW f \in Fsms, NEW x, x.ref \in Int, f.sub = "Run" => f.env = EnvCap
  PROVE  /\ FsmStep(f, x).env <= f.env + 1
         /\ Abs(FsmStep(f, x).out) <= FsmStep(f, x).env
         /\ FsmStep(f, x).sub = "Run" => FsmStep(f, x).env = EnvCap
<1>1. f.sub \in Subs /\ f.env \in 0 .. EnvCap
  BY DEF Fsms
<1>2. CASE f.sub = "Idle"
  <2> DEFINE e == IF f.env > EnvDecay THEN f.env - EnvDecay ELSE 0
  <2>1. e \in 0 .. EnvCap /\ e <= f.env + 1
    BY <1>1, TimesFacts
  <2>2. FsmStep(f, x) = IF x.engage /\ ~x.stop /\ x.power
                        THEN [f EXCEPT !.sub = "Arming", !.env = 0, !.out = 0]
                        ELSE [f EXCEPT !.env = e, !.out = 0]
    BY <1>2 DEF FsmStep, IdleArm
  <2> HIDE DEF e
  <2>3. /\ FsmStep(f, x).env \in {0, e} /\ FsmStep(f, x).out = 0
        /\ FsmStep(f, x).sub \in {"Idle", "Arming"}
    BY <1>2, <2>2 DEF Fsms
  <2> QED
    BY <1>1, <2>1, <2>3 DEF Abs
<1>3. CASE f.sub = "Arming"
  <2> DEFINE e == IF f.env < EnvCap THEN f.env + 1 ELSE EnvCap
             s == IF f.env < EnvCap THEN "Arming" ELSE "Run"
  <2>1. e \in 0 .. EnvCap /\ e <= f.env + 1 /\ (s = "Run" => e = EnvCap)
    BY <1>1, TimesFacts
  <2>2. FsmStep(f, x) = [f EXCEPT !.sub = s, !.env = e, !.out = ClampSym(x.ref, e)]
    BY <1>3 DEF FsmStep, ArmingArm
  <2> HIDE DEF e, s
  <2>3. FsmStep(f, x).env = e /\ FsmStep(f, x).out = ClampSym(x.ref, e) /\ FsmStep(f, x).sub = s
    BY <2>2 DEF Fsms
  <2> QED
    BY <2>1, <2>3, ClampSymWords
<1>4. CASE f.sub = "Run"
  <2>1. FsmStep(f, x).env = EnvCap
    BY <1>4 DEF FsmStep, RunArm
  <2>2. FsmStep(f, x).out = ClampSym(x.ref, EnvCap)
    BY <1>4 DEF FsmStep, RunArm
  <2> QED
    BY <1>1, <1>4, <2>1, <2>2, ClampSymWords, TimesFacts
<1> QED
  BY <1>1, <1>2, <1>3, <1>4 DEF Subs

LEMMA RampPass ==
  ASSUME TypeOK, NEW b \in Boards, NEW in \in Inputs, PassWith(b, in), RampInv(b),
         "since" \in Track,
         ~armed[b] /\ NewArmed(b, in) => Disengaged(NewFsm(b, in))
  PROVE  RampInv(b)'
<1> DEFINE f == EngagementAt(OffPass(b, in), fsm[b])
           x == ShellInputs(b, in)
           since == IF NewArmed(b, in) /\ armed[b] THEN Sat(hist[b].since, EnvCap) ELSE 0
<1>1. armed'[b] = NewArmed(b, in) /\ fsm'[b] = NewFsm(b, in) /\ hist'[b] = NewHist(b, in)
  BY PassEffect
<1>2. f \in Fsms /\ (f.sub = "Run" => f.env = EnvCap) /\ f.env <= fsm[b].env /\ fsm[b] \in Fsms
  <2>1. fsm[b] \in Fsms /\ FsmStart \in Fsms
    BY BoardFacts, FsmStartType
  <2>2. fsm[b].env \in 0 .. EnvCap
    BY <2>1 DEF Fsms
  <2> QED
    BY <2>1, <2>2, TimesFacts DEF EngagementAt, FsmStart, RampInv
<1>3. /\ Stepped(b, in).env <= f.env + 1
      /\ Abs(Stepped(b, in).out) <= Stepped(b, in).env
      /\ Stepped(b, in).sub = "Run" => Stepped(b, in).env = EnvCap
      /\ Stepped(b, in) \in Fsms
  <2>1. Stepped(b, in) = FsmStep(f, x) /\ x.ref \in Int
    BY ShellRef DEF Stepped
  <2> HIDE DEF f, x
  <2> QED
    BY <1>2, <2>1, FsmStepRamp, FsmStepType
<1>4. hist'[b].since = since
  BY <1>1 DEF NewHist, Tracked
<1>5. fsm'[b].sub = "Run" => fsm'[b].env = EnvCap
  BY <1>1, <1>3 DEF NewFsm, FsmStart
<1>6. ASSUME armed'[b] PROVE fsm'[b].env <= since /\ Abs(fsm'[b].out) <= since
  <2>1. CASE ~armed[b]
    BY <1>1, <1>6, <2>1, TimesFacts DEF Disengaged, Abs
  <2>2. CASE armed[b]
    <3>1. fsm'[b] = Stepped(b, in)
      BY <1>1, <2>2 DEF NewFsm, NewRole, ArmAttempt
    <3>2. fsm[b].env <= hist[b].since
      BY <2>2 DEF RampInv
    <3>3. since = Sat(hist[b].since, EnvCap) /\ hist[b].since \in 0 .. EnvCap
      BY <1>1, <1>6, <2>2, HistFacts
    <3>4. /\ fsm[b].env \in 0 .. EnvCap /\ f.env \in 0 .. EnvCap
          /\ Stepped(b, in).env \in 0 .. EnvCap /\ Stepped(b, in).out \in Words
      <4> HIDE DEF f
      <4> QED BY <1>2, <1>3 DEF Fsms
    <3> HIDE DEF f, since
    <3>5. Stepped(b, in).env <= since
      BY <1>2, <1>3, <3>2, <3>3, <3>4, TimesFacts DEF Sat, Least
    <3>6. since \in Int /\ Abs(Stepped(b, in).out) \in Int
      BY <3>3, <3>4, TimesFacts DEF Sat, Least, Abs, Words
    <3> QED
      BY <1>3, <3>1, <3>4, <3>5, <3>6, TimesFacts
  <2> QED
    BY <2>1, <2>2
<1> QED
  BY <1>4, <1>5, <1>6 DEF RampInv

LEMMA RampStep ==
  ASSUME Energy, [Next]_vars, NEW c \in Boards, RampInv(c), "since" \in Track
  PROVE  RampInv(c)'
<1>1. TypeOK /\ (~armed[c] /\ armed'[c] => Disengaged(fsm'[c]))
  BY EnergizeEdge DEF Energy, Bridges
<1>2. CASE \E in \in Inputs : PassWith(c, in)
  <2>1. PICK in \in Inputs : PassWith(c, in)
    BY <1>2
  <2>2. ~armed[c] /\ NewArmed(c, in) => Disengaged(NewFsm(c, in))
    BY <1>1, <2>1, PassEffect
  <2> QED
    BY <1>1, <2>1, <2>2, RampPass
<1>3. CASE Reboot(c)
  <2>1. armed'[c] = FALSE /\ fsm'[c] = FsmStart
    BY <1>1, <1>3, RebootEffect
  <2> QED
    BY <2>1 DEF RampInv, FsmStart
<1>4. CASE StateKept(c)
  BY <1>4 DEF StateKept, RampInv
<1> QED
  BY <1>1, <1>2, <1>3, <1>4, StepEffect

\* The soft start holds from the bridge's point of view: however faults, falls,
\* wind-downs and re-engages interleave, the common torque never exceeds one
\* envelope step per pass since the bridge was armed.  (The count is a history
\* variable, kept when Track names it.)
THEOREM SoftStartHolds ==
  ASSUME "since" \in Track
  PROVE  Spec => []SoftStart
<1> DEFINE Ramps == Energy /\ \A c \in Boards : RampInv(c)
<1>1. Init => \A c \in Boards : RampInv(c)
  BY DEF Init, RampInv, FsmStart
<1>2. Energy /\ Ramps /\ [Next]_vars /\ Energy' => Ramps'
  BY RampStep
<1>3. Ramps => SoftStart
  BY DEF RampInv, SoftStart
<1>4. Init /\ Energy => Ramps
  BY <1>1
<1> HIDE DEF Ramps
<1> QED
  BY <1>2, <1>3, <1>4, EnergyInvariant, PTL DEF Spec

-----------------------------------------------------------------------------
(***************************************************************************)
(* What the links do.                                                      *)
(***************************************************************************)
FreshInv(c) ==
  /\ c \in Linked /\ mode[c] # "Off" => heard[c] # None
  /\ Rigid(c) /\ demand[c] # 0 => Fresh(peer[c], age[c])

LEMMA FreshPass ==
  ASSUME TypeOK, NEW b \in Boards, NEW in \in Inputs, PassWith(b, in), FreshInv(b)
  PROVE  FreshInv(b)'
<1>1. /\ mode'[b] = NewMode(b, in) /\ heard'[b] = heard[b] /\ role'[b] = NewRole(b, in)
      /\ demand'[b] = Published(b, in) /\ peer'[b] = peer[b] /\ age'[b] = NewAge(b, in)
  BY PassEffect
<1>2. b \in Linked /\ mode'[b] # "Off" => heard'[b] # None
  <2> SUFFICES ASSUME b \in Linked, mode'[b] # "Off", mode[b] = "Off" PROVE heard[b] # None
    BY <1>1 DEF FreshInv
  <2>1. ~Disagrees(b)
    BY <1>1, NewModeArms
  <2>2. digest[b] # None
    BY BoardFacts, NoneAssumption
  <2> QED
    BY <2>1, <2>2 DEF Disagrees
<1>3. Rigid(b)' /\ demand'[b] # 0 => Fresh(peer[b], age[b])'
  <2> SUFFICES ASSUME Rigid(b)', demand'[b] # 0 PROVE Fresh(peer[b], age[b])'
    OBVIOUS
  <2>1. demand'[b] = WheelDemand(b, in) /\ ~ArmAttempt(b, in)
    BY <1>1 DEF Published
  <2>2. Rigid(b)
    BY <1>1, <2>1 DEF NewRole, Rigid
  <2>3. FreshPeer(b, in)
    BY <2>1, <2>2 DEF WheelDemand, Gated
  <2> QED
    BY <1>1, <2>3 DEF FreshPeer, Fresh
<1> QED
  BY <1>2, <1>3 DEF FreshInv

LEMMA FreshStep ==
  ASSUME TypeOK, [Next]_vars, NEW c \in Boards, FreshInv(c)
  PROVE  FreshInv(c)'
<1>1. CASE \E in \in Inputs : PassWith(c, in)
  BY <1>1, FreshPass
<1>2. CASE Reboot(c)
  <2>1. mode'[c] = "Off" /\ demand'[c] = 0
    BY <1>2, RebootEffect
  <2> QED
    BY <2>1 DEF FreshInv
<1>3. CASE StateKept(c) /\ LinkKept(c)
  BY <1>3 DEF StateKept, LinkKept, FreshInv, Rigid, Fresh
<1>4. CASE StateKept(c) /\ PeerHeard(c)
  BY <1>4, TimesFacts DEF StateKept, PeerHeard, FreshInv, Fresh
<1> QED
  BY <1>1, <1>2, <1>3, <1>4, StepEffect

\* A board told to have a peer leaves OFF only once it has heard it, and a rigid
\* wheel holds torque only on a frame of its peer inside the freshness window: the
\* gate comes after the wheel split, and an arm-time role change publishes zero.
THEOREM TorqueIsFreshHolds == Spec => []TorqueIsFresh
<1> DEFINE Linkage == TypeOK /\ \A c \in Boards : FreshInv(c)
<1>1. Init => Linkage
  BY InitType DEF Init, FreshInv
<1>2. Linkage /\ [Next]_vars => Linkage'
  BY NextType, FreshStep
<1>3. Linkage => TorqueIsFresh
  BY DEF FreshInv, TorqueIsFresh
<1> HIDE DEF Linkage
<1> QED
  BY <1>1, <1>2, <1>3, PTL DEF Spec

\* The history gap is the silence of the mirror's owner: whatever resets the
\* mirror's age resets it too, and a lapsed mirror is refreshed by nothing.
MirrorInv(c) ==
  /\ hist[c].gap <= mirror[c].age
  /\ hist[c].broken => MirrorStale(mirror[c])

LEMMA AgeTickMonotone ==
  ASSUME NEW cap \in Nat, NEW m \in 0 .. cap, NEW n \in 0 .. cap, m <= n,
         NEW seen \in BOOLEAN, NEW dt \in Nat
  PROVE  AgeTick(dt, seen, m, cap) <= AgeTick(dt, seen, n, cap)
BY DEF AgeTick, Sat, Least

LEMMA MirrorPass ==
  ASSUME TypeOK, NEW b \in Boards, NEW in \in Inputs, PassWith(b, in), MirrorInv(b)
  PROVE  MirrorInv(b)'
<1> DEFINE seen == mirror[b].owner # None
           cap == InputsTimeout + 1
           a == AgeTick(in.dt, seen, mirror[b].age, cap)
           g == AgeTick(in.dt, seen, hist[b].gap, cap)
<1>1. mirror'[b] = NewMirror(b, in) /\ hist'[b] = NewHist(b, in)
  BY PassEffect
<1>2. /\ cap \in Nat /\ seen \in BOOLEAN /\ in.dt \in Nat
      /\ mirror[b].age \in 0 .. cap /\ hist[b].gap \in 0 .. cap
      /\ hist[b].gap <= mirror[b].age
  BY TimesFacts, InputFacts, MirrorFacts, HistFacts DEF MirrorInv
<1>3. mirror'[b].age = a /\ mirror'[b].owner = mirror[b].owner
  <2>1. mirror[b] \in Mirrors /\ mirror'[b] = [mirror[b] EXCEPT !.age = a]
    BY <1>1, BoardFacts DEF NewMirror
  <2> HIDE DEF a
  <2> QED
    BY <2>1 DEF Mirrors
<1>4. /\ hist'[b].gap = Tracked("mirror", hist[b].gap, g)
      /\ hist'[b].broken = Tracked("mirror", hist[b].broken, hist[b].broken \/ g > InputsTimeout)
  BY <1>1 DEF NewHist
<1> HIDE DEF seen, cap
<1>5. g <= a /\ a >= mirror[b].age /\ a \in 0 .. cap /\ g \in 0 .. cap
  BY <1>2, AgeTickMonotone, AgeTickType
<1> HIDE DEF a, g
<1>6. hist'[b].gap <= mirror'[b].age
  BY <1>2, <1>3, <1>4, <1>5 DEF Tracked
<1>7. hist[b].broken => MirrorStale(mirror'[b])
  BY <1>2, <1>3, <1>5, TimesFacts DEF MirrorInv, MirrorStale
<1>8. g > InputsTimeout => MirrorStale(mirror'[b])
  BY <1>3, <1>5, TimesFacts DEF MirrorStale, cap
<1>9. hist'[b].broken => MirrorStale(mirror'[b])
  BY <1>4, <1>7, <1>8 DEF Tracked
<1> QED
  BY <1>6, <1>9 DEF MirrorInv, MirrorStale

LEMMA MirrorStep ==
  ASSUME TypeOK, [Next]_vars, NEW c \in Boards, MirrorInv(c)
  PROVE  MirrorInv(c)'
<1>1. CASE \E in \in Inputs : PassWith(c, in)
  BY <1>1, MirrorPass
<1>2. CASE Reboot(c)
  <2>1. mirror'[c] = NoMirror /\ hist'[c] = HistStart
    BY <1>2, RebootEffect
  <2> QED
    BY <2>1 DEF MirrorInv, MirrorStale, NoMirror, HistStart
<1>3. CASE MirrorKept(c)
  BY <1>3 DEF MirrorKept, MirrorInv, MirrorStale
<1>4. CASE ControllerHeard(c)
  <2>1. PICK src \in Controllers :
          \/ mirror'[c].age = 0 /\ hist'[c].gap = 0 /\ ~hist'[c].broken
          \/ /\ mirror'[c] = AcceptDrive(mirror[c], src)
             /\ hist'[c].gap = IF src = mirror[c].owner THEN 0 ELSE hist[c].gap
             /\ hist'[c].broken = hist[c].broken
    BY <1>4 DEF ControllerHeard
  <2>2. mirror[c] \in Mirrors /\ mirror[c].age \in Nat /\ hist[c].gap \in Nat
    BY BoardFacts, MirrorFacts, HistFacts
  <2>3. CASE mirror'[c].age = 0 /\ hist'[c].gap = 0 /\ ~hist'[c].broken
    BY <2>3 DEF MirrorInv
  <2>4. CASE /\ mirror'[c] = AcceptDrive(mirror[c], src)
             /\ hist'[c].gap = IF src = mirror[c].owner THEN 0 ELSE hist[c].gap
             /\ hist'[c].broken = hist[c].broken
    <3>1. CASE RefreshesMirror(mirror[c], src)
      <4>1. mirror'[c] = [mirror[c] EXCEPT !.age = 0]
        BY <2>4, <3>1 DEF AcceptDrive
      <4>2. mirror'[c].age = 0 /\ hist'[c].gap = 0 /\ ~hist'[c].broken
        BY <2>2, <2>4, <3>1, <4>1 DEF RefreshesMirror, MirrorInv, Mirrors
      <4> QED
        BY <4>2 DEF MirrorInv
    <3>2. CASE ~RefreshesMirror(mirror[c], src)
      <4>1. mirror'[c] = mirror[c]
        BY <2>4, <3>2 DEF AcceptDrive
      <4> QED
        BY <2>2, <2>4, <4>1 DEF MirrorInv, MirrorStale
    <3> QED
      BY <3>1, <3>2
  <2> QED
    BY <2>1, <2>3, <2>4
<1> QED
  BY <1>1, <1>2, <1>3, <1>4, StepEffect

\* A controller that went silent for longer than its levels live has to state them
\* again: whichever controllers stream in between, no demand frame revives a power
\* request that lapsed.
THEOREM SilenceRevokesRequestHolds == Spec => []SilenceRevokesRequest
<1> DEFINE Mirrored == TypeOK /\ \A c \in Boards : MirrorInv(c)
<1>1. Init => Mirrored
  <2>1. Init => \A c \in Boards : MirrorInv(c)
    BY DEF Init, MirrorInv, MirrorStale, NoMirror, HistStart
  <2> QED
    BY <2>1, InitType
<1>2. Mirrored /\ [Next]_vars => Mirrored'
  BY NextType, MirrorStep
<1>3. Mirrored => SilenceRevokesRequest
  BY DEF MirrorInv, SilenceRevokesRequest, RemoteRequest
<1> HIDE DEF Mirrored
<1> QED
  BY <1>1, <1>2, <1>3, PTL DEF Spec

SilenceInv(c) == peer[c] # None => age[c] <= hist[c].quiet

LEMMA SilencePass ==
  ASSUME TypeOK, NEW b \in Boards, NEW in \in Inputs, PassWith(b, in), SilenceInv(b),
         "quiet" \in Track
  PROVE  SilenceInv(b)'
<1>1. age'[b] = NewAge(b, in) /\ peer'[b] = peer[b] /\ hist'[b] = NewHist(b, in)
  BY PassEffect
<1>2. hist'[b].quiet = Least(hist[b].quiet + in.dt, CyclicTimeout + 1)
  BY <1>1 DEF NewHist, Tracked
<1>3. /\ age[b] \in 0 .. CyclicTimeout + 1 /\ hist[b].quiet \in 0 .. CyclicTimeout + 1
      /\ in.dt \in Nat
  BY BoardFacts, HistFacts, InputFacts
<1>4. peer[b] # None =>
        NewAge(b, in) = IF in.dt > 0 THEN Least(age[b] + 1, CyclicTimeout + 1) ELSE age[b]
  BY DEF NewAge, AgeTick, Sat
<1> QED
  BY <1>1, <1>2, <1>3, <1>4, TimesFacts DEF SilenceInv, Least

LEMMA SilenceStep ==
  ASSUME TypeOK, [Next]_vars, NEW c \in Boards, SilenceInv(c), "quiet" \in Track
  PROVE  SilenceInv(c)'
<1>1. CASE \E in \in Inputs : PassWith(c, in)
  BY <1>1, SilencePass
<1>2. CASE Reboot(c)
  BY <1>2, RebootEffect DEF SilenceInv
<1>3. CASE LinkKept(c)
  BY <1>3 DEF LinkKept, SilenceInv
<1>4. CASE PeerHeard(c)
  <2>1. hist'[c] \in Hists
    BY NextType DEF TypeOK
  <2>2. hist'[c].quiet >= 0
    BY <2>1, TimesFacts DEF Hists
  <2> QED
    BY <1>4, <2>2 DEF PeerHeard, SilenceInv
<1> QED
  BY <1>1, <1>2, <1>3, <1>4, StepEffect

\* No phantom communication loss: a peer is declared lost only after that many ticks
\* of real silence, however many catch-up passes ran.  (The silence is a history
\* variable, kept when Track names it.)
THEOREM LossIsRealHolds ==
  ASSUME "quiet" \in Track
  PROVE  Spec => []LossIsReal
<1> DEFINE Heard == TypeOK /\ \A c \in Boards : SilenceInv(c)
<1>1. Init => Heard
  BY InitType DEF Init, SilenceInv
<1>2. Heard /\ [Next]_vars => Heard'
  BY NextType, SilenceStep
<1>3. Heard => LossIsReal
  <2> SUFFICES ASSUME Heard, NEW c \in Boards, CommsLost(peer[c], age[c])
               PROVE  hist[c].quiet > CyclicTimeout
    BY DEF LossIsReal
  <2>1. age[c] \in Nat /\ hist[c].quiet \in Nat
    BY BoardFacts, HistFacts
  <2> QED
    BY <2>1, TimesFacts DEF SilenceInv, CommsLost
<1> HIDE DEF Heard
<1> QED
  BY <1>1, <1>2, <1>3, PTL DEF Spec

-----------------------------------------------------------------------------
(* The tilt latch outlives the fall for as long as the request that met it. *)

TumbledInv(c) == hist[c].tumbled => tilt[c] /\ "tumbled" \in Track

LEMMA TumbledPass ==
  ASSUME TypeOK, NEW b \in Boards, NEW in \in Inputs, PassWith(b, in), TumbledInv(b),
         hist'[b].tumbled
  PROVE  /\ tilt'[b] /\ "tumbled" \in Track
         /\ mode[b] = "Off" => mode'[b] = "Off"
<1> DEFINE h == hist[b]
           gap == AgeTick(in.dt, mirror[b].owner # None, h.gap, InputsTimeout + 1)
           down == FaultA(b, in) \/ ~Request(b, in)
           alone == /\ Paired /\ hall[Other(b)] /\ Served(in)
                    /\ NewArmed(b, in) /\ Abs(Published(b, in)) > 1
           up == Request(b, in) /\ (h.tumbled \/ (b \in ImuUp /\ NewFallen(b, in)))
           since2 == Tracked("since", h.since,
                       IF NewArmed(b, in) /\ armed[b] THEN Sat(h.since, EnvCap) ELSE 0)
           held2 == Tracked("held", h.held, IF down THEN Sat(h.held, 4) ELSE 0)
           tumbled2 == Tracked("tumbled", h.tumbled, up)
           quiet2 == Tracked("quiet", h.quiet, Least(h.quiet + in.dt, CyclicTimeout + 1))
           gap2 == Tracked("mirror", h.gap, gap)
           broken2 == Tracked("mirror", h.broken, h.broken \/ gap > InputsTimeout)
           alone2 == Tracked("alone", h.alone,
                       IF alone THEN Sat(h.alone, AloneCap + 1) ELSE h.alone)
<1>1. mode'[b] = NewMode(b, in) /\ tilt'[b] = NewTilt(b, in) /\ hist'[b] = NewHist(b, in)
  BY PassEffect
<1>2. tumbled2
  <2>1. NewHist(b, in) = [since |-> since2, held |-> held2, tumbled |-> tumbled2,
                          quiet |-> quiet2, gap |-> gap2, broken |-> broken2,
                          alone |-> alone2]
    BY DEF NewHist
  <2> HIDE DEF since2, held2, tumbled2, quiet2, gap2, broken2, alone2
  <2> QED
    BY <1>1, <2>1
<1>3. "tumbled" \in Track
  BY <1>2, Zenon DEF Tracked, TumbledInv
<1>4. Request(b, in) /\ (hist[b].tumbled \/ (b \in ImuUp /\ NewFallen(b, in)))
  BY <1>2, <1>3, Zenon DEF Tracked
<1>5. TiltSeen(b, in)
  BY <1>4 DEF TiltSeen, TumbledInv
<1>6. tilt'[b]
  BY <1>1, <1>4, <1>5 DEF NewTilt
<1>7. mode[b] = "Off" => mode'[b] = "Off"
  BY <1>1, <1>5, NewModeArms DEF FaultA, OwnFault
<1> QED
  BY <1>3, <1>6, <1>7

LEMMA TumbledStep ==
  ASSUME TypeOK, [Next]_vars, NEW c \in Boards, TumbledInv(c)
  PROVE  /\ TumbledInv(c)'
         /\ mode[c] = "Off" /\ mode'[c] # "Off" => ~hist'[c].tumbled
<1>1. CASE \E in \in Inputs : PassWith(c, in)
  BY <1>1, TumbledPass DEF TumbledInv
<1>2. CASE Reboot(c)
  <2>1. mode'[c] = "Off" /\ hist'[c] = HistStart
    BY <1>2, RebootEffect
  <2> QED
    BY <2>1 DEF TumbledInv, HistStart
<1>3. CASE StateKept(c)
  BY <1>3 DEF StateKept, TumbledInv
<1> QED
  BY <1>1, <1>2, <1>3, StepEffect

\* A board that fell under a request does not get up by itself: it leaves OFF only
\* under a request raised after the fall.
THEOREM FallenStaysOffHolds == Spec => FallenStaysOff
<1> DEFINE Upright == TypeOK /\ \A c \in Boards : TumbledInv(c)
<1>1. Init => Upright
  <2>1. Init => \A c \in Boards : TumbledInv(c)
    BY DEF Init, TumbledInv, HistStart
  <2> QED
    BY <2>1, InitType
<1>2. Upright /\ [Next]_vars => Upright'
  BY NextType, TumbledStep
<1>3. Upright /\ [Next]_vars =>
        [ \A b \in Boards : mode[b] = "Off" /\ mode'[b] # "Off" => ~hist'[b].tumbled ]_vars
  BY TumbledStep
<1> HIDE DEF Upright
<1> QED
  BY <1>1, <1>2, <1>3, PTL DEF Spec, FallenStaysOff

-----------------------------------------------------------------------------
(***************************************************************************)
(* Two boards.  The invariants below relate a board to its partner and to  *)
(* the frame between them, so a step is split by which of the two it is    *)
(* and by what it leaves of the wire.                                      *)
(***************************************************************************)
\* One of two boards is the other of the other.
LEMMA OtherBoard ==
  ASSUME NEW b \in Boards, NEW c \in Boards, b # c
  PROVE  Paired /\ c = Other(b) /\ b = Other(c)
<1>1. IsFiniteSet(Boards) /\ Cardinality(Boards) \in {1, 2}
  BY BoardsAssumption
<1>2. Cardinality(Boards) # 1
  BY <1>1, FS_Singleton
<1>3. Paired
  BY <1>1, <1>2 DEF Paired
<1>4. ASSUME NEW d \in Boards, NEW e \in Boards, e # d PROVE e = Other(d)
  <2>1. Cardinality(Boards \ {d}) = 1 /\ IsFiniteSet(Boards \ {d})
    BY <1>1, <1>3, FS_RemoveElement DEF Paired
  <2>2. PICK x : Boards \ {d} = {x}
    BY <2>1, FS_Singleton
  <2> QED
    BY <1>3, <1>4, <2>2, OtherType
<1> QED
  BY <1>3, <1>4

\* What a step leaves of board c when it is no pass, reset or delivery that c sees.
Elsewhere(c) ==
  /\ mode'[c] = mode[c] /\ role'[c] = role[c] /\ fsm'[c] = fsm[c]
  /\ peer'[c] = peer[c] /\ age'[c] = age[c] /\ hist'[c].alone = hist[c].alone
  /\ emit' = emit /\ ahead' = ahead
  /\ wire'[c] = wire[c] \/ ("loss" \in Env /\ wire'[c] = None)
  /\ \A d \in Boards : hall[d] => hall'[d]
  /\ \A d \in Boards : stored'[d] = stored[d] \/ ("config" \in Env /\ stored'[d] \in Roles[d])

LEMMA HearElsewhere ==
  ASSUME TypeOK, NEW c \in Boards, NEW b \in Boards, b # c, NEW f, Hear(b, f),
         wire'[c] = wire[c]
  PROVE  Elsewhere(c)
<1>1. hist'[c] = hist[c]
  BY DEF Hear, TypeOK
<1> QED
  BY <1>1 DEF Hear, TypeOK, Elsewhere

LEMMA InboxElsewhere ==
  ASSUME TypeOK, NEW c \in Boards, NEW b \in Boards, NEW m, NEW h, Inbox(b, m, h),
         h.alone = hist[b].alone
  PROVE  Elsewhere(c)
<1>1. hist'[c].alone = hist[c].alone
  BY DEF Inbox, TypeOK
<1> QED
  BY <1>1 DEF Inbox, boardVars, linkVars, Elsewhere

\* The steps of Next, by what they do to one board of a pair and to its wire.
LEMMA PairStep ==
  ASSUME TypeOK, [Next]_vars, NEW c \in Boards, ForeignFrames = {}
  PROVE  \/ \E in \in Inputs : PassWith(c, in)
         \/ Paired /\ \E in \in Inputs : PassWith(Other(c), in)
         \/ Reboot(c)
         \/ Paired /\ Reboot(Other(c))
         \/ Deliver(c)
         \/ Elsewhere(c)
<1>1. CASE UNCHANGED vars
  BY <1>1 DEF vars, boardVars, linkVars, Elsewhere
<1>2. ASSUME NEW b \in Boards, Pass(b)
      PROVE  \/ \E in \in Inputs : PassWith(c, in)
             \/ Paired /\ \E in \in Inputs : PassWith(Other(c), in)
  BY <1>2, OtherBoard DEF Pass
<1>3. ASSUME NEW b \in Boards, IdleLoop(b) PROVE Elsewhere(c)
  BY <1>3 DEF IdleLoop, boardVars, linkVars, Elsewhere
<1>4. ASSUME NEW b \in Boards, Deliver(b) PROVE Deliver(c) \/ Elsewhere(c)
  <2> SUFFICES ASSUME b # c PROVE Elsewhere(c)
    BY <1>4
  <2>1. wire'[c] = wire[c]
    BY <1>4 DEF Deliver, TypeOK
  <2> QED
    BY <1>4, <2>1, HearElsewhere DEF Deliver
<1>5. ASSUME NEW b \in Boards, HearForeign(b) PROVE FALSE
  BY <1>5 DEF HearForeign
<1>6. ASSUME NEW b \in Boards, LoseFrame(b) PROVE Elsewhere(c)
  BY <1>6 DEF LoseFrame, TypeOK, boardVars, linkVars, Elsewhere
<1>7. ASSUME NEW b \in Boards, NEW src \in Controllers, HearInputs(b, src) \/ HearDrive(b, src)
      PROVE  Elsewhere(c)
  <2>1. hist[b] \in Hists
    BY BoardFacts
  <2>2. /\ [hist[b] EXCEPT !.gap = 0, !.broken = FALSE].alone = hist[b].alone
        /\ (IF src = mirror[b].owner THEN [hist[b] EXCEPT !.gap = 0] ELSE hist[b]).alone
             = hist[b].alone
    BY <2>1 DEF Hists
  <2> QED
    BY <1>7, <2>2, InboxElsewhere DEF HearInputs, HearDrive
<1>8. ASSUME NEW b \in Boards, Press(b) \/ OverCurrent(b) PROVE Elsewhere(c)
  BY <1>8 DEF Press, OverCurrent, boardVars, linkVars, Elsewhere
<1>9. ASSUME NEW b \in Boards, HallFault(b) PROVE Elsewhere(c)
  BY <1>9 DEF HallFault, TypeOK, boardVars, linkVars, Elsewhere
<1>10. ASSUME NEW b \in Boards, ConfigWrite(b) PROVE Elsewhere(c)
  BY <1>10 DEF ConfigWrite, TypeOK, boardVars, linkVars, Elsewhere
<1>11. ASSUME NEW b \in Boards, Reboot(b) PROVE Reboot(c) \/ (Paired /\ Reboot(Other(c)))
  BY <1>11, OtherBoard
<1> QED
  BY <1>1, <1>2, <1>3, <1>4, <1>5, <1>6, <1>7, <1>8, <1>9, <1>10, <1>11 DEF Next

\* What a pass does to the frames and clocks two boards share.
LEMMA WireEffect ==
  ASSUME TypeOK, NEW b \in Boards, NEW in \in Inputs, PassWith(b, in), NEW c \in Boards
  PROVE  /\ emit'[c] = IF c # b THEN emit[c] ELSE IF Due(b, in) THEN 0 ELSE emit[b] + in.dt
         /\ wire'[c] = IF Paired /\ c = Other(b) /\ Due(b, in) THEN Cyclic(b, in) ELSE wire[c]
         /\ stored'[c] = stored[c]
<1>1. emit'[c] = IF c # b THEN emit[c] ELSE IF Due(b, in) THEN 0 ELSE emit[b] + in.dt
  BY DEF PassWith, Transmit, TypeOK
<1>2. wire'[c] = IF Paired /\ c = Other(b) /\ Due(b, in) THEN Cyclic(b, in) ELSE wire[c]
  BY DEF PassWith, Transmit, TypeOK
<1> QED
  BY <1>1, <1>2 DEF PassWith

-----------------------------------------------------------------------------
(***************************************************************************)
(* One balance loop.  While the staging stands, every frame on the wire or *)
(* in the inbox says the role the other board is staged for, so a leader   *)
(* staged beside a leader never finds the follower it has to engage with.  *)
(***************************************************************************)
StagedInv(c) ==
  /\ role[c] = stored[c]
  /\ wire[c] # None => Paired /\ wire[c].role = stored[Other(c)]
  /\ peer[c] # None => Paired /\ peer[c].role = stored[Other(c)]
  /\ Paired /\ stored[c] = "leader" /\ stored[Other(c)] = "leader" => fsm[c].sub = "Idle"

\* Beside a leader the machine of a leader stays where it is.
LEMMA LeaderBesideLeader ==
  ASSUME TypeOK, NEW b \in Boards, NEW in \in Inputs, role[b] = "leader",
         fsm[b].sub = "Idle", peer[b] # None => peer[b].role = "leader"
  PROVE  NewFsm(b, in).sub = "Idle"
<1> DEFINE f == EngagementAt(OffPass(b, in), fsm[b])
           x == ShellInputs(b, in)
<1>1. f \in Fsms /\ f.sub = "Idle"
  BY BoardFacts, FsmStartType DEF EngagementAt, FsmStart
<1>2. ~PartnerOk(b, in)
  BY DEF PartnerOk, FreshPeer, Fresh
<1>3. x.engage = FALSE
  BY <1>2 DEF ShellInputs
<1>4. Stepped(b, in).sub = "Idle"
  <2>1. Stepped(b, in) = FsmStep(f, x)
    BY DEF Stepped
  <2> HIDE DEF f, x
  <2>2. FsmStep(f, x) = [f EXCEPT !.env = IF @ > EnvDecay THEN @ - EnvDecay ELSE 0, !.out = 0]
    BY <1>1, <1>3 DEF FsmStep, IdleArm
  <2> QED
    BY <1>1, <2>1, <2>2 DEF Fsms
<1> QED
  BY <1>4 DEF NewFsm, FsmStart

LEMMA StagedPass ==
  ASSUME TypeOK, NEW c \in Boards, NEW in \in Inputs, PassWith(c, in), StagedInv(c)
  PROVE  StagedInv(c)'
<1>1. /\ role'[c] = NewRole(c, in) /\ fsm'[c] = NewFsm(c, in) /\ peer'[c] = peer[c]
      /\ stored'[c] = stored[c] /\ wire'[c] = wire[c]
  BY PassEffect, WireEffect, OtherType
<1>2. role'[c] = stored'[c]
  BY <1>1 DEF NewRole, StagedInv
<1>3. Paired => stored'[Other(c)] = stored[Other(c)]
  BY WireEffect, OtherType
<1>4. Paired /\ stored'[c] = "leader" /\ stored'[Other(c)] = "leader" => fsm'[c].sub = "Idle"
  BY <1>1, <1>3, LeaderBesideLeader DEF StagedInv
<1> QED
  BY <1>1, <1>2, <1>3, <1>4 DEF StagedInv

LEMMA StagedStep ==
  ASSUME TypeOK, [Next]_vars, NEW c \in Boards, ForeignFrames = {}, "config" \notin Env,
         \A d \in Boards : StagedInv(d)
  PROVE  StagedInv(c)'
<1>1. CASE \E in \in Inputs : PassWith(c, in)
  BY <1>1, StagedPass
<1>2. CASE Paired /\ \E in \in Inputs : PassWith(Other(c), in)
  <2>1. PICK in \in Inputs : PassWith(Other(c), in)
    BY <1>2
  <2>2. Other(c) \in Boards /\ Other(c) # c /\ Other(Other(c)) = c
    BY <1>2, OtherType, OtherBoard
  <2>3. /\ role'[c] = role[c] /\ fsm'[c] = fsm[c] /\ peer'[c] = peer[c]
        /\ stored'[c] = stored[c] /\ stored'[Other(c)] = stored[Other(c)]
        /\ wire'[c] = IF Due(Other(c), in) THEN Cyclic(Other(c), in) ELSE wire[c]
    BY <1>2, <2>1, <2>2, PassEffect, WireEffect
  <2>4. Cyclic(Other(c), in).role = stored[Other(c)]
    BY <2>2 DEF Cyclic, StagedInv
  <2> QED
    BY <1>2, <2>3, <2>4 DEF StagedInv
<1>3. CASE Reboot(c)
  BY <1>3, OtherType DEF Reboot, TypeOK, StagedInv, FsmStart
<1>4. CASE Paired /\ Reboot(Other(c))
  <2>1. Other(c) \in Boards /\ Other(c) # c
    BY <1>4, OtherType
  <2> QED
    BY <1>4, <2>1 DEF Reboot, TypeOK, StagedInv
<1>5. CASE Deliver(c)
  BY <1>5 DEF Deliver, Hear, TypeOK, StagedInv
<1>6. CASE Elsewhere(c)
  <2>1. stored'[c] = stored[c] /\ (Paired => stored'[Other(c)] = stored[Other(c)])
    BY <1>6, OtherType DEF Elsewhere
  <2> QED
    BY <1>6, <2>1 DEF Elsewhere, StagedInv
<1> QED
  BY <1>1, <1>2, <1>3, <1>4, <1>5, <1>6, PairStep

\* Two boards staged as leaders never both engage, however their frames are late or
\* lost and whichever of them resets: no frame of one ever names a follower to the
\* other.  Only a change of staging between the frame and the engage breaks this.
THEOREM OneBalanceLoopHolds ==
  ASSUME "config" \notin Env, ForeignFrames = {}
  PROVE  Spec => []OneBalanceLoop
<1> DEFINE Staged == TypeOK /\ \A c \in Boards : StagedInv(c)
<1>1. Init => Staged
  <2>1. Init => \A c \in Boards : StagedInv(c)
    BY DEF Init, StagedInv, FsmStart
  <2> QED
    BY <2>1, InitType
<1>2. Staged /\ [Next]_vars => Staged'
  BY NextType, StagedStep
<1>3. Staged => OneBalanceLoop
  BY OtherBoard DEF StagedInv, OneBalanceLoop
<1> HIDE DEF Staged
<1> QED
  BY <1>1, <1>2, <1>3, PTL DEF Spec

-----------------------------------------------------------------------------
(***************************************************************************)
(* The lone wheel.  A rigid pair on a wire that loses nothing and is       *)
(* drained before every pass, with EmitTicks and Skew inside the freshness *)
(* window: the failed board's next frame is at most Lead(b) ticks of b     *)
(* away, and once b was told its mode machine has two passes under MOE     *)
(* left to take.                                                           *)
(***************************************************************************)
RigidPair ==
  /\ Paired /\ \A b \in Boards : Roles[b] \subseteq {"leader", "follower"}
  /\ EmitTicks + 2 * Skew <= RigidStale + 1
PromptWire == Prompt /\ "loss" \notin Env /\ ForeignFrames = {}

\* The most ticks board b can have passed since the other board's last frame left.
Lead(b) == emit[Other(b)] + ahead[b] - ahead[Other(b)] + Skew

\* The most passes b drives on before it is told, and those its mode machine has
\* taken of the ones after.
UntoldPasses == EmitTicks - 1 + 2 * Skew
Spent(m) == IF m \in {"Off", "Shutdown"} THEN 2 ELSE IF m = "Run" THEN 1 ELSE 0

\* The other board's failure is on its way to b, or the last b heard, and fresh.
Told(b) ==
  /\ wire[b] # None => wire[b].fault
  /\ wire[b] = None => peer[b] # None /\ peer[b].fault /\ age[b] <= Lead(b)

PaceInv(c) ==
  ahead[c] <= Skew /\ emit[c] < EmitTicks /\ role[c] \in Roles[c] /\ stored[c] \in Roles[c]

AloneInv(b) ==
  /\ hall[Other(b)] \/ hist[b].alone = 0
  /\ \/ hist[b].alone <= Lead(b)
     \/ hall[Other(b)] /\ Told(b) /\ hist[b].alone <= UntoldPasses + Spent(mode[b])

\* A pass moves its board ahead of the other by its ticks, and never past Skew.
LEMMA AheadEffect ==
  ASSUME TypeOK, Paired, NEW b \in Boards, NEW in \in Inputs, PassWith(b, in),
         \A c \in Boards : ahead[c] <= Skew
  PROVE  /\ ahead'[b] \in Nat /\ ahead'[Other(b)] \in Nat
         /\ ahead'[b] - ahead'[Other(b)] = ahead[b] + in.dt - ahead[Other(b)]
         /\ ahead'[b] <= Skew /\ ahead'[Other(b)] <= Skew
<1> DEFINE raised(d) == ahead[d] + (IF d = b THEN in.dt ELSE 0)
           o == Other(b)
<1>1. o \in Boards /\ o # b /\ Other(o) = b
  BY OtherType, OtherBoard
<1>2. ahead[b] \in Nat /\ ahead[o] \in Nat /\ in.dt \in Nat
  BY <1>1, BoardFacts, InputFacts
<1>3. ahead[b] + in.dt <= Skew /\ ahead[o] <= Skew
  BY <1>1 DEF PassWith, InStep, MayPass
<1>4. ahead' = [c \in Boards |-> raised(c) - Least(raised(c), raised(Other(c)))]
  BY DEF PassWith, InStep
<1>5. raised(b) = ahead[b] + in.dt /\ raised(o) = ahead[o]
  BY <1>1, <1>2
<1>6. /\ ahead'[b] = raised(b) - Least(raised(b), raised(o))
      /\ ahead'[o] = raised(o) - Least(raised(o), raised(b))
  <2> HIDE DEF raised, o
  <2> QED
    BY <1>1, <1>4 DEF o
<1> HIDE DEF raised, o
<1>7. /\ ahead'[b] \in Nat /\ ahead'[o] \in Nat /\ ahead'[b] <= Skew /\ ahead'[o] <= Skew
      /\ ahead'[b] - ahead'[o] = ahead[b] + in.dt - ahead[o]
  BY <1>2, <1>3, <1>5, <1>6, TimesFacts DEF Least
<1> QED
  BY <1>7 DEF o

LEMMA PaceStep ==
  ASSUME TypeOK, [Next]_vars, RigidPair, PromptWire, \A d \in Boards : PaceInv(d),
         NEW c \in Boards
  PROVE  PaceInv(c)'
<1>1. /\ Paired /\ ForeignFrames = {} /\ PaceInv(c)
      /\ Other(c) \in Boards /\ Other(c) # c /\ Other(Other(c)) = c
      /\ \A d \in Boards : ahead[d] <= Skew
  BY OtherType, OtherBoard DEF RigidPair, PromptWire, PaceInv
<1>2. CASE \E in \in Inputs : PassWith(c, in)
  <2>1. PICK in \in Inputs : PassWith(c, in)
    BY <1>2
  <2>2. ahead'[c] <= Skew
    BY <1>1, <2>1, AheadEffect
  <2>3. emit'[c] < EmitTicks
    <3>1. emit'[c] = IF Due(c, in) THEN 0 ELSE emit[c] + in.dt
      BY <2>1, WireEffect
    <3>2. emit[c] \in Nat /\ in.dt \in Nat /\ EmitTicks \in Nat /\ EmitTicks > 0
      BY BoardFacts, InputFacts, TimesAssumption
    <3> QED
      BY <3>1, <3>2 DEF Due
  <2>4. role'[c] \in Roles[c] /\ stored'[c] = stored[c]
    BY <1>1, <2>1, PassEffect, WireEffect DEF NewRole, PaceInv
  <2> QED
    BY <1>1, <2>2, <2>3, <2>4 DEF PaceInv
<1>3. CASE Paired /\ \E in \in Inputs : PassWith(Other(c), in)
  <2>1. PICK in \in Inputs : PassWith(Other(c), in)
    BY <1>3
  <2>2. ahead'[c] <= Skew
    BY <1>1, <2>1, AheadEffect
  <2>3. emit'[c] = emit[c] /\ role'[c] = role[c] /\ stored'[c] = stored[c]
    BY <1>1, <2>1, PassEffect, WireEffect
  <2> QED
    BY <1>1, <2>2, <2>3 DEF PaceInv
<1>4. CASE Reboot(c)
  <2>1. EmitTicks > 0
    BY TimesAssumption
  <2> QED
    BY <1>1, <1>4, <2>1 DEF Reboot, TypeOK, PaceInv
<1>5. CASE Paired /\ Reboot(Other(c))
  BY <1>1, <1>5 DEF Reboot, TypeOK, PaceInv
<1>6. CASE Deliver(c)
  BY <1>1, <1>6 DEF Deliver, Hear, PaceInv
<1>7. CASE Elsewhere(c)
  BY <1>1, <1>7 DEF Elsewhere, PaceInv
<1> QED
  BY <1>1, <1>2, <1>3, <1>4, <1>5, <1>6, <1>7, PairStep

\* The lead is a natural number, and no more than a failed board goes unheard for.
LEMMA LeadBounds ==
  ASSUME TypeOK, RigidPair, \A d \in Boards : PaceInv(d), NEW b \in Boards
  PROVE  Lead(b) \in 0 .. UntoldPasses /\ Lead(b) <= RigidStale
<1>1. Other(b) \in Boards
  BY OtherType DEF RigidPair
<1>2. /\ emit[Other(b)] \in Nat /\ ahead[b] \in Nat /\ ahead[Other(b)] \in Nat
      /\ emit[Other(b)] < EmitTicks /\ ahead[b] <= Skew /\ ahead[Other(b)] <= Skew
  BY <1>1, BoardFacts DEF PaceInv
<1>3. EmitTicks + 2 * Skew <= RigidStale + 1
  BY DEF RigidPair
<1> QED
  BY <1>2, <1>3, TimesFacts DEF Lead, UntoldPasses

\* The history of a pass: one more, and only for a wheel that is armed and turns.
LEMMA AlonePass ==
  ASSUME TypeOK, NEW b \in Boards, NEW in \in Inputs
  PROVE  \/ NewHist(b, in).alone = hist[b].alone
         \/ /\ NewHist(b, in).alone \in Nat /\ NewHist(b, in).alone <= hist[b].alone + 1
            /\ hall[Other(b)] /\ in.dt >= 1 /\ NewArmed(b, in) /\ Published(b, in) # 0
<1> DEFINE lone == /\ Paired /\ hall[Other(b)] /\ Served(in)
                   /\ NewArmed(b, in) /\ Abs(Published(b, in)) > 1
           n == Sat(hist[b].alone, AloneCap + 1)
<1>1. NewHist(b, in).alone = Tracked("alone", hist[b].alone, IF lone THEN n ELSE hist[b].alone)
  BY DEF NewHist
<1>2. n \in Nat /\ n <= hist[b].alone + 1
  <2>1. AloneCap + 1 \in Nat
    BY TimesFacts DEF AloneCap
  <2> QED
    BY <2>1, HistFacts DEF Sat, Least
<1>3. lone => in.dt >= 1 /\ Published(b, in) # 0
  BY InputFacts DEF Served, Abs
<1>4. lone => hall[Other(b)] /\ NewArmed(b, in)
  OBVIOUS
<1> HIDE DEF lone, n
<1> QED
  BY <1>1, <1>2, <1>3, <1>4 DEF Tracked

\* A pass that knows of the partner's fault takes its mode one step towards OFF, or
\* finds the bridge inert.
LEMMA SpentPass ==
  ASSUME TypeOK, NEW b \in Boards, NEW in \in Inputs, BridgeInv(b), FaultA(b, in)
  PROVE  /\ Spent(mode[b]) \in 0 .. 2 /\ Spent(NewMode(b, in)) \in 0 .. 2
         /\ Spent(NewMode(b, in)) >= Spent(mode[b])
         /\ \/ Spent(NewMode(b, in)) >= Spent(mode[b]) + 1
            \/ ~NewArmed(b, in) \/ Published(b, in) = 0
<1>1. mode[b] \in Modes /\ moe[b] \in BOOLEAN /\ armed[b] \in BOOLEAN
  BY BoardFacts
<1>2. mode[b] = "Off" => NewMode(b, in) = "Off" /\ ~NewArmed(b, in)
  <2>1. mode[b] = "Off" => ~NewMoe(b, in)
    BY DEF BridgeInv, GrantedModes, NewMoe, MoeAfter
  <2> QED
    BY <2>1, NewModeArms DEF NewArmed, ArmAttempt
<1>3. mode[b] = "Init" => NewMode(b, in) = "Ready" /\ (~NewArmed(b, in) \/ Published(b, in) = 0)
  <2>1. mode[b] = "Init" => ~armed[b]
    BY DEF BridgeInv, GrantedModes
  <2> QED
    BY <2>1, NewModeArms DEF NewArmed, Published
<1>4. mode[b] = "Shutdown" => NewMode(b, in) = "Off" /\ ~NewArmed(b, in)
  BY NewModeArms DEF NewArmed, ArmAttempt, NewMoe, MoeAfter
<1>5. /\ mode[b] = "Ready" => NewMode(b, in) = "Run"
      /\ mode[b] = "Run" => NewMode(b, in) = "Shutdown"
  BY NewModeArms
<1> QED
  BY <1>1, <1>2, <1>3, <1>4, <1>5 DEF Modes, Spent

\* A rigid board that was told reads the fault on its next pass.
LEMMA ToldIsPeerDown ==
  ASSUME TypeOK, NEW b \in Boards, NEW in \in Inputs, RigidPair, PaceInv(b), Told(b),
         wire[b] = None, age[b] \in Nat, Lead(b) \in Nat, Lead(b) + in.dt <= RigidStale
  PROVE  FaultA(b, in) /\ NewAge(b, in) <= Lead(b) + in.dt
<1>1. peer[b] # None /\ peer[b].fault /\ age[b] <= Lead(b)
  BY DEF Told
<1>2. NewAge(b, in) \in Nat /\ NewAge(b, in) <= age[b] + in.dt
  <2>1. NewAge(b, in) = IF in.dt > 0 THEN Sat(age[b], CyclicTimeout + 1) ELSE age[b]
    BY <1>1 DEF NewAge, AgeTick
  <2>2. in.dt \in Nat
    BY InputFacts
  <2> QED
    BY <2>1, <2>2, TimesFacts DEF Sat, Least
<1>3. NewAge(b, in) <= Lead(b) + in.dt
  BY <1>1, <1>2, InputFacts
<1>4. FreshPeer(b, in)
  BY <1>1, <1>2, <1>3, InputFacts, TimesFacts DEF FreshPeer, Fresh
<1>5. Rigid(b)
  BY DEF RigidPair, PaceInv, Rigid
<1> QED
  BY <1>1, <1>3, <1>4, <1>5 DEF FaultA, PeerDown

PairFacts == Bridges /\ RigidPair /\ PromptWire /\ \A d \in Boards : PaceInv(d)

LEMMA AloneOwnPass ==
  ASSUME PairFacts, PairFacts', NEW b \in Boards, NEW in \in Inputs, PassWith(b, in), AloneInv(b)
  PROVE  AloneInv(b)'
<1> DEFINE o == Other(b)
<1>1. /\ TypeOK /\ TypeOK' /\ BridgeInv(b) /\ RigidPair /\ Paired /\ PaceInv(b)
      /\ \A d \in Boards : PaceInv(d)
      /\ o \in Boards /\ o # b /\ Other(o) = b
  BY OtherType, OtherBoard DEF PairFacts, Bridges, RigidPair
<1>2. /\ hall'[o] = hall[o] /\ mode'[b] = NewMode(b, in) /\ peer'[b] = peer[b]
      /\ age'[b] = NewAge(b, in) /\ hist'[b] = NewHist(b, in)
      /\ emit'[o] = emit[o] /\ wire'[b] = wire[b]
  BY <1>1, PassEffect, WireEffect
<1>3. wire[b] = None
  BY DEF PairFacts, PromptWire, PassWith, InStep, MayPass
<1>4. /\ Lead(b) \in Nat /\ in.dt \in Nat /\ Lead(b)' = Lead(b) + in.dt
      /\ Lead(b)' \in Nat /\ Lead(b)' <= UntoldPasses /\ Lead(b)' <= RigidStale
      /\ UntoldPasses \in Nat
  <2>1. Lead(b) \in 0 .. UntoldPasses
    BY <1>1, LeadBounds
  <2>2. UntoldPasses \in Int
    BY TimesFacts DEF UntoldPasses
  <2>3. Lead(b)' \in 0 .. UntoldPasses /\ Lead(b)' <= RigidStale
    <3>1. TypeOK' /\ PaceInv(b)' /\ PaceInv(o)'
      BY <1>1 DEF PairFacts, Bridges
    <3>2. /\ emit'[o] \in Nat /\ ahead'[b] \in Nat /\ ahead'[o] \in Nat
          /\ emit'[o] < EmitTicks /\ ahead'[b] <= Skew /\ ahead'[o] <= Skew
      BY <1>1, <3>1 DEF TypeOK, PaceInv
    <3>3. EmitTicks + 2 * Skew <= RigidStale + 1
      BY <1>1 DEF RigidPair
    <3> QED
      BY <3>2, <3>3, TimesFacts DEF Lead, UntoldPasses
  <2>4. Lead(b)' = Lead(b) + in.dt
    <3>1. ahead'[b] - ahead'[o] = ahead[b] + in.dt - ahead[o]
      BY <1>1, AheadEffect DEF PaceInv
    <3>2. /\ ahead[b] \in Nat /\ ahead[o] \in Nat /\ in.dt \in Nat /\ emit[o] \in Nat
          /\ ahead'[b] \in Nat /\ ahead'[o] \in Nat
      BY <1>1, BoardFacts, InputFacts DEF TypeOK
    <3> QED
      BY <1>2, <3>1, <3>2, TimesFacts DEF Lead
  <2> QED
    BY <2>1, <2>2, <2>3, <2>4, InputFacts
<1>5. hall'[o] \/ hist'[b].alone = 0
  BY <1>1, <1>2, AlonePass DEF AloneInv
<1>6. hist[b].alone \in Nat /\ hist'[b].alone \in Nat
  BY <1>1, HistFacts DEF TypeOK, Hists
<1>7. CASE hist[b].alone <= Lead(b)
  <2>1. hist'[b].alone <= Lead(b)'
    BY <1>1, <1>2, <1>4, <1>6, <1>7, AlonePass
  <2> QED
    BY <1>5, <2>1 DEF AloneInv
<1>8. CASE hall[o] /\ Told(b) /\ hist[b].alone <= UntoldPasses + Spent(mode[b])
  <2>1. FaultA(b, in) /\ NewAge(b, in) <= Lead(b) + in.dt
    BY <1>1, <1>3, <1>4, <1>8, BoardFacts, ToldIsPeerDown
  <2>2. Told(b)'
    BY <1>2, <1>3, <1>4, <1>8, <2>1 DEF Told
  <2>3. hist'[b].alone <= UntoldPasses + Spent(NewMode(b, in))
    BY <1>1, <1>2, <1>4, <1>6, <1>8, <2>1, SpentPass, AlonePass
  <2>4. Spent(mode[b])' = Spent(NewMode(b, in))
    BY <1>2 DEF Spent
  <2> QED
    BY <1>2, <1>5, <1>8, <2>2, <2>3, <2>4 DEF AloneInv
<1> QED
  BY <1>7, <1>8 DEF AloneInv

\* The other board's pass leaves b's lead alone, or puts its next frame on the wire:
\* one that says the fault, if its bridge has failed.
LEMMA AloneOtherPass ==
  ASSUME PairFacts, NEW b \in Boards, NEW in \in Inputs, PassWith(Other(b), in), AloneInv(b)
  PROVE  AloneInv(b)'
<1> DEFINE o == Other(b)
<1>1. /\ TypeOK /\ RigidPair /\ Paired /\ \A d \in Boards : PaceInv(d)
      /\ o \in Boards /\ o # b /\ Other(o) = b
  BY OtherType, OtherBoard DEF PairFacts, Bridges, RigidPair
<1>2. /\ hall'[o] = hall[o] /\ mode'[b] = mode[b] /\ peer'[b] = peer[b]
      /\ age'[b] = age[b] /\ hist'[b] = hist[b]
      /\ emit'[o] = IF Due(o, in) THEN 0 ELSE emit[o] + in.dt
      /\ wire'[b] = IF Due(o, in) THEN Cyclic(o, in) ELSE wire[b]
  BY <1>1, PassEffect, WireEffect
<1>3. /\ ahead'[o] - ahead'[b] = ahead[o] + in.dt - ahead[b]
      /\ ahead'[o] \in Nat /\ ahead'[b] \in Nat /\ ahead'[o] <= Skew
      /\ ahead[b] \in Nat /\ ahead[o] \in Nat /\ in.dt \in Nat /\ emit[o] \in Nat
  BY <1>1, AheadEffect, BoardFacts, InputFacts DEF PaceInv
<1>4. Lead(b) <= UntoldPasses /\ Lead(b) \in Nat /\ UntoldPasses \in Int
  <2>1. Lead(b) \in 0 .. UntoldPasses /\ UntoldPasses \in Int
    BY <1>1, LeadBounds, TimesFacts DEF UntoldPasses
  <2> QED
    BY <2>1
<1>5. CASE ~Due(o, in)
  <2>1. Lead(b)' = Lead(b)
    BY <1>2, <1>3, <1>5, TimesFacts DEF Lead
  <2> QED
    BY <1>2, <1>5, <2>1 DEF AloneInv, Told
<1>6. CASE Due(o, in) /\ ~hall[o]
  <2>1. Lead(b)' >= 0
    BY <1>2, <1>3, <1>6, TimesFacts DEF Lead
  <2>2. hist'[b].alone = 0
    BY <1>2, <1>6 DEF AloneInv
  <2> QED
    BY <2>1, <2>2 DEF AloneInv
<1>7. CASE Due(o, in) /\ hall[o]
  <2>1. OwnFault(o, in)
    BY <1>7 DEF OwnFault, MotorFault
  <2>2. Cyclic(o, in).fault /\ Cyclic(o, in) # None
    <3>1. Cyclic(o, in) \in Frames
      BY <1>1, CyclicType
    <3> QED
      BY <2>1, <3>1, NoneAssumption DEF Cyclic
  <2>3. Told(b)'
    BY <1>2, <1>7, <2>2 DEF Told
  <2>4. hist[b].alone <= UntoldPasses + Spent(mode[b])
    <3>1. Spent(mode[b]) \in Nat /\ hist[b].alone \in Nat
      BY <1>1, HistFacts DEF Spent
    <3> QED
      BY <1>4, <3>1 DEF AloneInv
  <2>5. Spent(mode[b])' = Spent(mode[b])
    BY <1>2 DEF Spent
  <2> QED
    BY <1>2, <1>7, <2>3, <2>4, <2>5 DEF AloneInv
<1> QED
  BY <1>5, <1>6, <1>7

LEMMA AloneStep ==
  ASSUME PairFacts, PairFacts', [Next]_vars, NEW b \in Boards, AloneInv(b)
  PROVE  AloneInv(b)'
<1> DEFINE o == Other(b)
<1>1. /\ TypeOK /\ RigidPair /\ Paired /\ ForeignFrames = {} /\ "loss" \notin Env
      /\ \A d \in Boards : PaceInv(d)
      /\ o \in Boards /\ o # b /\ Other(o) = b
  BY OtherType, OtherBoard DEF PairFacts, Bridges, RigidPair, PromptWire
<1>2. Lead(b) \in Nat
  <2>1. Lead(b) \in 0 .. UntoldPasses /\ UntoldPasses \in Int
    BY <1>1, LeadBounds, TimesFacts DEF UntoldPasses
  <2> QED
    BY <2>1
<1>3. CASE \E in \in Inputs : PassWith(b, in)
  BY <1>3, AloneOwnPass
<1>4. CASE \E in \in Inputs : PassWith(o, in)
  BY <1>4, AloneOtherPass
<1>5. ASSUME hist'[b].alone = 0, ahead' = ahead, emit'[o] = emit[o] \/ emit'[o] = 0
      PROVE  AloneInv(b)'
  <2>1. /\ ahead[b] \in Nat /\ ahead[o] \in Nat /\ emit[o] \in Nat /\ ahead[o] <= Skew
    BY <1>1, BoardFacts DEF PaceInv
  <2>2. Lead(b)' >= 0
    BY <1>5, <2>1, TimesFacts DEF Lead
  <2> QED
    BY <1>5, <2>2 DEF AloneInv
<1>6. CASE Reboot(b)
  <2>1. hist'[b].alone = 0 /\ ahead' = ahead /\ emit'[o] = emit[o]
    BY <1>1, <1>6 DEF Reboot, TypeOK, HistStart
  <2> QED
    BY <1>5, <2>1
<1>7. CASE Reboot(o)
  <2>1. hist[b] \in Hists
    BY <1>1, BoardFacts
  <2>2. hist'[b].alone = 0 /\ ahead' = ahead /\ emit'[o] = 0
    BY <1>1, <1>7, <2>1 DEF Reboot, TypeOK, Hists
  <2> QED
    BY <1>5, <2>2
<1>8. CASE Deliver(b)
  <2>1. hist[b] \in Hists
    BY <1>1, BoardFacts
  <2>2. /\ wire[b] # None /\ peer'[b] = wire[b] /\ age'[b] = 0 /\ wire'[b] = None
        /\ hist'[b].alone = hist[b].alone /\ mode' = mode /\ hall' = hall
        /\ emit' = emit /\ ahead' = ahead
    BY <1>1, <1>8, <2>1 DEF Deliver, Hear, TypeOK, Hists
  <2>3. Lead(b)' = Lead(b)
    BY <2>2 DEF Lead
  <2>4. Told(b) => Told(b)'
    BY <1>2, <2>2, <2>3 DEF Told
  <2> QED
    BY <2>2, <2>3, <2>4 DEF AloneInv
<1>9. CASE Elsewhere(b)
  <2>1. Lead(b)' = Lead(b)
    BY <1>9 DEF Elsewhere, Lead
  <2>2. wire'[b] = wire[b]
    BY <1>1, <1>9 DEF Elsewhere
  <2>3. Told(b) => Told(b)'
    BY <1>9, <2>1, <2>2 DEF Elsewhere, Told
  <2> QED
    BY <1>1, <1>9, <2>1, <2>3 DEF Elsewhere, AloneInv
<1> QED
  BY <1>1, <1>3, <1>4, <1>6, <1>7, <1>8, <1>9, PairStep

LEMMA AloneInit ==
  ASSUME Init, Paired, \A b \in Boards : Roles[b] \subseteq Producers
  PROVE  \A c \in Boards : PaceInv(c) /\ AloneInv(c)
<1>1. TAKE c \in Boards
<1>2. Other(c) \in Boards
  BY OtherType
<1>3. EmitTicks \in Nat /\ EmitTicks > 0 /\ Skew \in Nat
  BY TimesAssumption
<1>4. PaceInv(c)
  BY <1>3 DEF Init, PaceInv
<1>5. Lead(c) = Skew /\ hist[c].alone = 0
  BY <1>2, <1>3 DEF Init, Lead, HistStart
<1> QED
  BY <1>3, <1>4, <1>5 DEF AloneInv

\* When one bridge of a rigid pair fails for good, the other wheel turns beyond its
\* first envelope step for at most EmitTicks + 2 * Skew + 1 passes: those until the
\* next frame of the failed board is out and heard, and the two that take the mode
\* machine from READY to an inert bridge.  Roles may be re-staged and boards reset.
THEOREM LoneWheelBoundedHolds ==
  ASSUME RigidPair, PromptWire
  PROVE  Spec => []LoneWheelBounded
<1> DEFINE LoneInv == PairFacts /\ \A c \in Boards : AloneInv(c)
<1>1. Init => LoneInv
  BY InitType, BridgeInit, AloneInit, RolesAssumption DEF PairFacts, Bridges, RigidPair
<1>2. LoneInv /\ [Next]_vars => LoneInv'
  <2> SUFFICES ASSUME LoneInv, [Next]_vars PROVE LoneInv'
    OBVIOUS
  <2>1. Bridges'
    BY NextType, BridgeStep DEF PairFacts, Bridges
  <2>2. (\A d \in Boards : PaceInv(d))'
    BY PaceStep DEF PairFacts, Bridges
  <2>3. PairFacts'
    BY <2>1, <2>2 DEF PairFacts, RigidPair, PromptWire, Paired
  <2> QED
    BY <2>3, AloneStep
<1>3. LoneInv => LoneWheelBounded
  <2> SUFFICES ASSUME LoneInv, NEW c \in Boards PROVE hist[c].alone <= EmitTicks + 2 * Skew + 1
    BY DEF LoneWheelBounded
  <2>1. TypeOK /\ Lead(c) \in 0 .. UntoldPasses
    BY LeadBounds DEF PairFacts, Bridges
  <2>2. hist[c].alone \in Nat /\ Spent(mode[c]) \in 0 .. 2
    BY <2>1, HistFacts DEF Spent
  <2> QED
    BY <2>1, <2>2, TimesFacts DEF AloneInv, UntoldPasses
<1> HIDE DEF LoneInv
<1> QED
  BY <1>1, <1>2, <1>3, PTL DEF Spec
=============================================================================
