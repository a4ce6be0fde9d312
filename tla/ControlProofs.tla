---------------------------- MODULE ControlProofs ----------------------------
(***************************************************************************)
(* Theorems about ControlPass, for one board or two, for every value of    *)
(* the timeouts and hysteresis lengths, every set of controllers, digests  *)
(* and foreign frames, and every choice of inputs.                         *)
(***************************************************************************)
EXTENDS ControlPass, FiniteSetTheorems, TLAPS

-----------------------------------------------------------------------------
(* The helpers keep their ranges. *)

LEMMA TimesFacts ==
  /\ EnvCap \in Nat /\ EnvCap >= 1 /\ EnvDecay \in Nat /\ EnvDecay >= 1
  /\ HealthLoss \in Nat /\ HealthLoss >= 1 /\ HealthRecover \in Nat /\ HealthRecover > 2
  /\ EmitTicks \in Nat /\ Skew \in Nat
  /\ PickupTrip \in Nat /\ WinddownTrip \in Nat /\ IdleLimit \in Nat
  /\ RigidStale \in Nat /\ CyclicTimeout \in Nat /\ InputsTimeout \in Nat
  /\ RigidStale < CyclicTimeout
BY TimesAssumption

LEMMA SatType ==
  ASSUME NEW cap \in Nat, NEW n \in 0 .. cap
  PROVE  Sat(n, cap) \in 0 .. cap /\ Sat(n, cap) >= n /\ (n < cap => Sat(n, cap) = n + 1)
BY DEF Sat, Least

LEMMA ClampSymWords ==
  ASSUME NEW n \in Int, NEW e \in 0 .. EnvCap
  PROVE  ClampSym(n, e) \in Words /\ Abs(ClampSym(n, e)) <= e
BY TimesFacts DEF ClampSym, Words, Abs

LEMMA AgeTickType ==
  ASSUME NEW cap \in Nat, NEW a \in 0 .. cap, NEW seen \in BOOLEAN, NEW dt \in Nat
  PROVE  AgeTick(dt, seen, a, cap) \in 0 .. cap /\ AgeTick(dt, seen, a, cap) >= a
BY SatType DEF AgeTick

LEMMA ObserveType ==
  ASSUME NEW h \in Healths, NEW ok \in BOOLEAN
  PROVE  Observe(h, ok) \in Healths
<1>1. h.fail \in 0 .. HealthLoss /\ h.ok \in 0 .. HealthRecover /\ h.loss \in BOOLEAN
  BY DEF Healths
<1>2. Sat(h.fail, HealthLoss) \in 0 .. HealthLoss /\ Sat(h.ok, HealthRecover) \in 0 .. HealthRecover
  BY <1>1, SatType, TimesFacts
<1> QED
  BY <1>1, <1>2, TimesFacts DEF Observe, Healths

LEMMA LatchTickType ==
  ASSUME NEW l \in Latches, NEW running \in BOOLEAN, NEW sub \in Subs, NEW moving \in BOOLEAN
  PROVE  LatchTick(l, running, sub, moving) \in Latches
<1>1. l.count \in 0 .. IdleLimit /\ l.code \in BOOLEAN /\ l.tripped \in BOOLEAN
  BY DEF Latches
<1>2. Sat(l.count, IdleLimit) \in 0 .. IdleLimit
  BY <1>1, SatType, TimesFacts
<1> QED
  BY <1>1, <1>2, TimesFacts DEF LatchTick, Latches

\* The engagement machine keeps the envelope under its cap and the word under the
\* envelope, whatever the producer asks for.
LEMMA FsmStepType ==
  ASSUME NEW f \in Fsms, NEW x, x.ref \in Int
  PROVE  FsmStep(f, x) \in Fsms
<1>1. /\ f.sub \in Subs /\ f.env \in 0 .. EnvCap /\ f.pickup \in 0 .. PickupTrip + 1
      /\ f.winddown \in 0 .. WinddownTrip + 1 /\ f.out \in Words
  BY DEF Fsms
<1>2. CASE f.sub = "Idle"
  <2> DEFINE e == IF f.env > EnvDecay THEN f.env - EnvDecay ELSE 0
  <2>1. e \in 0 .. EnvCap
    BY <1>1, TimesFacts
  <2>2. IdleArm(f, x) = IF x.engage /\ ~x.stop /\ x.power
                        THEN [f EXCEPT !.sub = "Arming", !.env = 0, !.out = 0]
                        ELSE [f EXCEPT !.env = e, !.out = 0]
    BY DEF IdleArm
  <2>3. "Arming" \in Subs /\ 0 \in 0 .. EnvCap /\ 0 \in Words
    BY TimesFacts DEF Subs, Words
  <2> HIDE DEF e
  <2>4. IdleArm(f, x) \in Fsms
    BY <1>1, <2>1, <2>2, <2>3 DEF Fsms
  <2> QED
    BY <1>2, <2>4 DEF FsmStep
<1>3. CASE f.sub = "Arming"
  <2> DEFINE e == IF f.env < EnvCap THEN f.env + 1 ELSE EnvCap
  <2>1. e \in 0 .. EnvCap
    BY <1>1, TimesFacts
  <2>2. ClampSym(x.ref, e) \in Words
    <3> HIDE DEF e
    <3> QED BY <2>1, ClampSymWords
  <2>3. ArmingArm(f, x) = [f EXCEPT !.sub = IF f.env < EnvCap THEN "Arming" ELSE "Run",
                                    !.env = e, !.out = ClampSym(x.ref, e)]
    BY DEF ArmingArm
  <2> HIDE DEF e
  <2>4. ArmingArm(f, x) \in Fsms
    BY <1>1, <2>1, <2>2, <2>3 DEF Fsms, Subs
  <2> QED
    BY <1>3, <2>4 DEF FsmStep
<1>4. CASE f.sub = "Run"
  <2> DEFINE p == IF x.inverted THEN Sat(f.pickup, PickupTrip + 1) ELSE 0
             w == IF x.leaving THEN Sat(f.winddown, WinddownTrip + 1) ELSE 0
             e == IF w > WinddownTrip THEN EnvCap ELSE f.env
             s == IF p > PickupTrip \/ w > WinddownTrip \/ x.stop THEN "Idle" ELSE "Run"
  <2>1. p \in 0 .. PickupTrip + 1 /\ w \in 0 .. WinddownTrip + 1
    <3>1. Sat(f.pickup, PickupTrip + 1) \in 0 .. PickupTrip + 1
      BY <1>1, SatType, TimesFacts
    <3>2. Sat(f.winddown, WinddownTrip + 1) \in 0 .. WinddownTrip + 1
      BY <1>1, SatType, TimesFacts
    <3> QED
      BY <3>1, <3>2, TimesFacts
  <2>2. e \in 0 .. EnvCap
    BY <1>1, TimesFacts
  <2>3. ClampSym(x.ref, e) \in Words
    <3> HIDE DEF e
    <3> QED BY <2>2, ClampSymWords
  <2>4. s \in Subs
    BY DEF Subs
  <2>5. RunArm(f, x) = [sub |-> s, env |-> e, pickup |-> p, winddown |-> w,
                        out |-> ClampSym(x.ref, e)]
    BY DEF RunArm
  <2> HIDE DEF p, w, e, s
  <2> QED
    BY <1>4, <2>1, <2>2, <2>3, <2>4, <2>5 DEF FsmStep, Fsms
<1> QED
  BY <1>1, <1>2, <1>3, <1>4 DEF Subs

\* The mode machine, arm by arm.
LEMMA NextModeArms ==
  ASSUME NEW m, NEW fault \in BOOLEAN, NEW request \in BOOLEAN, NEW inhibit \in BOOLEAN
  PROVE  /\ m = "Off" => NextMode(m, fault, request, inhibit)
                           = IF request /\ ~fault /\ ~inhibit THEN "Init" ELSE "Off"
         /\ m = "Init" => NextMode(m, fault, request, inhibit) = "Ready"
         /\ m = "Ready" => NextMode(m, fault, request, inhibit) = "Run"
         /\ m = "Run" => NextMode(m, fault, request, inhibit)
                           = IF fault \/ ~request THEN "Shutdown" ELSE "Run"
         /\ m = "Shutdown" => NextMode(m, fault, request, inhibit) = "Off"
<1>1. CASE m = "Off" BY <1>1 DEF NextMode
<1>2. CASE m = "Init" BY <1>2 DEF NextMode
<1>3. CASE m = "Ready" BY <1>3 DEF NextMode
<1>4. CASE m = "Run" BY <1>4 DEF NextMode
<1>5. CASE m = "Shutdown" BY <1>5 DEF NextMode
<1> QED
  BY <1>1, <1>2, <1>3, <1>4, <1>5

LEMMA NextModeType ==
  ASSUME NEW m \in Modes, NEW fault \in BOOLEAN, NEW request \in BOOLEAN, NEW inhibit \in BOOLEAN
  PROVE  NextMode(m, fault, request, inhibit) \in Modes
BY NextModeArms DEF Modes

LEMMA FsmStartType == FsmStart \in Fsms
BY TimesFacts DEF FsmStart, Fsms, Subs, Words

LEMMA SplitType ==
  ASSUME NEW t \in Int, NEW turned \in Int
  PROVE  Split(t, turned).own \in Int /\ Split(t, turned).peer \in Int
BY TimesFacts DEF Split, ClampSym, Abs

LEMMA DriveTurnStepType ==
  ASSUME NEW t \in Int, NEW cmd \in Int
  PROVE  DriveTurnStep(t, cmd) \in Int
BY DEF DriveTurnStep, ClampSym

-----------------------------------------------------------------------------
(* What one pass reads and computes, in its types. *)

LEMMA InputFacts ==
  ASSUME NEW in \in Inputs
  PROVE  /\ in.dt \in Nat /\ in.ref \in Int /\ in.turn \in Int
         /\ in.imu \in BOOLEAN /\ in.live \in BOOLEAN /\ in.fell \in BOOLEAN
         /\ in.speed \in BOOLEAN /\ in.confirm \in BOOLEAN /\ in.rider \in BOOLEAN
BY TimesAssumption DEF Inputs, Varies

LEMMA BoardFacts ==
  ASSUME TypeOK, NEW b \in Boards
  PROVE  /\ mode[b] \in Modes /\ fsm[b] \in Fsms /\ latch[b] \in Latches
         /\ moe[b] \in BOOLEAN /\ armed[b] \in BOOLEAN /\ refused[b] \in BOOLEAN
         /\ fallen[b] \in BOOLEAN /\ tilt[b] \in BOOLEAN /\ hall[b] \in BOOLEAN
         /\ trip[b] \in BOOLEAN /\ button[b] \in BOOLEAN
         /\ turn[b] \in Int /\ demand[b] \in Int /\ peerDemand[b] \in Int
         /\ role[b] \in Producers /\ stored[b] \in Producers /\ digest[b] \in Digests
         /\ imu[b] \in Healths /\ period[b] \in Healths
         /\ peer[b] \in Frames \cup {None} /\ wire[b] \in Frames \cup {None}
         /\ age[b] \in 0 .. CyclicTimeout + 1 /\ mirror[b] \in Mirrors
         /\ heard[b] \in Digests \cup {None} /\ hist[b] \in Hists
         /\ emit[b] \in Nat /\ ahead[b] \in Nat
BY DEF TypeOK

LEMMA MirrorFacts ==
  ASSUME TypeOK, NEW b \in Boards
  PROVE  /\ mirror[b].level \in BOOLEAN /\ mirror[b].owner \in Controllers \cup {None}
         /\ mirror[b].age \in 0 .. InputsTimeout + 1
BY BoardFacts DEF Mirrors

LEMMA HistFacts ==
  ASSUME TypeOK, NEW b \in Boards
  PROVE  /\ hist[b].since \in 0 .. EnvCap /\ hist[b].held \in 0 .. 4
         /\ hist[b].quiet \in 0 .. CyclicTimeout + 1 /\ hist[b].gap \in 0 .. InputsTimeout + 1
         /\ hist[b].tumbled \in BOOLEAN /\ hist[b].broken \in BOOLEAN
         /\ hist[b].alone \in 0 .. AloneCap + 1
BY BoardFacts DEF Hists

\* The fault producers and the clocks of the inbox.
LEMMA SensedTypes ==
  ASSUME TypeOK, NEW b \in Boards, NEW in \in Inputs
  PROVE  /\ NewImu(b, in) \in Healths /\ NewPeriod(b, in) \in Healths
         /\ NewFallen(b, in) \in BOOLEAN
         /\ NewAge(b, in) \in 0 .. CyclicTimeout + 1 /\ NewAge(b, in) >= age[b]
         /\ NewMirror(b, in) \in Mirrors
<1>1. NewImu(b, in) \in Healths
  BY BoardFacts, InputFacts, ObserveType DEF NewImu
<1>2. NewPeriod(b, in) \in Healths
  BY BoardFacts, InputFacts, ObserveType DEF NewPeriod
<1>3. NewFallen(b, in) \in BOOLEAN
  BY BoardFacts, InputFacts DEF NewFallen
<1>4. NewAge(b, in) \in 0 .. CyclicTimeout + 1 /\ NewAge(b, in) >= age[b]
  <2>1. (peer[b] # None) \in BOOLEAN /\ age[b] \in 0 .. CyclicTimeout + 1
        /\ in.dt \in Nat /\ CyclicTimeout + 1 \in Nat
    BY BoardFacts, InputFacts, TimesFacts
  <2> QED
    BY <2>1, AgeTickType DEF NewAge
<1>5. NewMirror(b, in) \in Mirrors
  <2> DEFINE a == AgeTick(in.dt, mirror[b].owner # None, mirror[b].age, InputsTimeout + 1)
  <2>1. a \in 0 .. InputsTimeout + 1
    <3>1. (mirror[b].owner # None) \in BOOLEAN /\ mirror[b].age \in 0 .. InputsTimeout + 1
          /\ in.dt \in Nat /\ InputsTimeout + 1 \in Nat
      BY MirrorFacts, InputFacts, TimesFacts
    <3> QED
      BY <3>1, AgeTickType
  <2>2. NewMirror(b, in) = [mirror[b] EXCEPT !.age = a]
    BY DEF NewMirror
  <2>3. mirror[b] \in Mirrors
    BY BoardFacts
  <2> HIDE DEF a
  <2> QED
    BY <2>1, <2>2, <2>3 DEF Mirrors
<1> QED
  BY <1>1, <1>2, <1>3, <1>4, <1>5

LEMMA FaultTypes ==
  ASSUME TypeOK, NEW b \in Boards, NEW in \in Inputs
  PROVE  /\ MotorFault(b, in) \in BOOLEAN /\ OwnFault(b, in) \in BOOLEAN
         /\ FaultA(b, in) \in BOOLEAN /\ TiltSeen(b, in) \in BOOLEAN
         /\ Request(b, in) \in BOOLEAN
         /\ Latched(b, in) \in Latches /\ NewLatch(b, in) \in Latches
<1>1. Latched(b, in) \in Latches
  <2> DEFINE c == latch[b].code \/ trip[b]
             l == [latch[b] EXCEPT !.code = c]
  <2>1. latch[b] \in Latches /\ c \in BOOLEAN
    BY BoardFacts
  <2>2. l \in Latches
    <3> HIDE DEF c
    <3> QED BY <2>1 DEF Latches
  <2>3. (mode[b] = "Run") \in BOOLEAN /\ fsm[b].sub \in Subs /\ in.speed \in BOOLEAN
    BY BoardFacts, InputFacts DEF Fsms
  <2>4. Latched(b, in) = LatchTick(l, mode[b] = "Run", fsm[b].sub, in.speed)
    BY DEF Latched
  <2> HIDE DEF l
  <2> QED
    BY <2>2, <2>3, <2>4, LatchTickType
<1>2. NewLatch(b, in) \in Latches
  BY <1>1, TimesFacts DEF NewLatch, LatchAt, NoLatch, Latches
<1>3. MotorFault(b, in) \in BOOLEAN /\ OwnFault(b, in) \in BOOLEAN
      /\ FaultA(b, in) \in BOOLEAN /\ TiltSeen(b, in) \in BOOLEAN
      /\ Request(b, in) \in BOOLEAN
  BY DEF MotorFault, OwnFault, FaultA, TiltSeen, Request
<1> QED
  BY <1>1, <1>2, <1>3

\* The mode machine and the bridge.
LEMMA ModeTypes ==
  ASSUME TypeOK, NEW b \in Boards, NEW in \in Inputs
  PROVE  /\ NewMode(b, in) \in Modes /\ NewMoe(b, in) \in BOOLEAN
         /\ NewArmed(b, in) \in BOOLEAN /\ NewRefused(b, in) \in BOOLEAN
         /\ NewTilt(b, in) \in BOOLEAN /\ NewRole(b, in) \in Producers
<1>1. NewMode(b, in) \in Modes
  <2>1. FaultA(b, in) \in BOOLEAN /\ Request(b, in) \in BOOLEAN
        /\ (Moving(b, in) \/ Disagrees(b)) \in BOOLEAN
    BY FaultTypes
  <2> QED
    BY <2>1, BoardFacts, NextModeType DEF NewMode
<1>2. NewMoe(b, in) \in BOOLEAN
  BY BoardFacts DEF NewMoe, MoeAfter
<1>3. NewArmed(b, in) \in BOOLEAN /\ NewRefused(b, in) \in BOOLEAN /\ NewTilt(b, in) \in BOOLEAN
  BY DEF NewArmed, NewRefused, NewTilt, ArmAttempt
<1>4. NewRole(b, in) \in Producers
  BY BoardFacts DEF NewRole
<1> QED
  BY <1>1, <1>2, <1>3, <1>4

\* A peer slot that is fresh holds a frame.
LEMMA FreshIsFrame ==
  ASSUME TypeOK, NEW b \in Boards, NEW in \in Inputs, FreshPeer(b, in)
  PROVE  peer[b] \in Frames /\ peer[b].demand \in Int
<1>1. peer[b] # None
  BY DEF FreshPeer, Fresh
<1>2. peer[b] \in Frames
  BY <1>1, BoardFacts
<1> QED
  BY <1>2 DEF Frames

LEMMA ShellRef ==
  ASSUME TypeOK, NEW b \in Boards, NEW in \in Inputs
  PROVE  ShellInputs(b, in).ref \in Int
<1>1. ShellInputs(b, in).ref = IF role[b] # "follower" THEN in.ref
                               ELSE IF FreshLeader(b, in) THEN peer[b].demand ELSE 0
  BY DEF ShellInputs
<1>2. FreshLeader(b, in) => peer[b].demand \in Int
  BY FreshIsFrame DEF FreshLeader
<1> QED
  BY <1>1, <1>2, InputFacts

\* The engagement machine and the words it leaves.
LEMMA WordTypes ==
  ASSUME TypeOK, NEW b \in Boards, NEW in \in Inputs
  PROVE  /\ Stepped(b, in) \in Fsms /\ NewFsm(b, in) \in Fsms
         /\ TurnStepped(b, in) \in Int /\ NewTurn(b, in) \in Int
         /\ WheelDemand(b, in) \in Int /\ PeerDemand(b, in) \in Int
         /\ Published(b, in) \in Int
<1>1. EngagementAt(OffPass(b, in), fsm[b]) \in Fsms
  BY BoardFacts, FsmStartType DEF EngagementAt
<1>2. Stepped(b, in) \in Fsms
  BY <1>1, ShellRef, FsmStepType DEF Stepped
<1>3. NewFsm(b, in) \in Fsms
  BY <1>2, FsmStartType DEF NewFsm
<1>4. TurnStepped(b, in) \in Int
  <2>1. TurnAt(OffPass(b, in), turn[b]) \in Int
    BY BoardFacts DEF TurnAt
  <2>2. DriveTurnStep(TurnAt(OffPass(b, in), turn[b]), in.turn) \in Int
    BY <2>1, InputFacts, DriveTurnStepType
  <2> QED
    BY <2>1, <2>2 DEF TurnStepped
<1>5. NewTurn(b, in) \in Int
  BY <1>4 DEF NewTurn
<1>6. Stepped(b, in).out \in Int
  BY <1>2, TimesFacts DEF Fsms, Words
<1>7. /\ Split(Stepped(b, in).out, TurnStepped(b, in)).own \in Int
      /\ Split(Stepped(b, in).out, TurnStepped(b, in)).peer \in Int
  BY <1>4, <1>6, SplitType
<1>8. WheelDemand(b, in) \in Int /\ PeerDemand(b, in) \in Int
  BY <1>6, <1>7 DEF WheelDemand, PeerDemand, Gated
<1>9. Published(b, in) \in Int
  BY <1>8 DEF Published
<1> QED
  BY <1>2, <1>3, <1>4, <1>5, <1>8, <1>9

LEMMA CyclicType ==
  ASSUME TypeOK, NEW b \in Boards, NEW in \in Inputs
  PROVE  Cyclic(b, in) \in Frames
<1>1. /\ (NewMode(b, in) = "Run") \in BOOLEAN /\ OwnFault(b, in) \in BOOLEAN
      /\ role[b] \in Producers /\ PeerDemand(b, in) \in Int /\ digest[b] \in Digests
  BY BoardFacts, FaultTypes, WordTypes
<1> QED
  BY <1>1 DEF Cyclic, Frames

LEMMA HistStartType == HistStart \in Hists
BY TimesFacts DEF HistStart, Hists, AloneCap

LEMMA HistType ==
  ASSUME TypeOK, NEW b \in Boards, NEW in \in Inputs
  PROVE  NewHist(b, in) \in Hists
<1> DEFINE h == hist[b]
           gap == AgeTick(in.dt, mirror[b].owner # None, h.gap, InputsTimeout + 1)
           down == FaultA(b, in) \/ ~Request(b, in)
           alone == /\ Paired /\ hall[Other(b)] /\ Served(in)
                    /\ NewArmed(b, in) /\ Abs(Published(b, in)) > 1
           since2 == Tracked("since", h.since,
                       IF NewArmed(b, in) /\ armed[b] THEN Sat(h.since, EnvCap) ELSE 0)
           held2 == Tracked("held", h.held, IF down THEN Sat(h.held, 4) ELSE 0)
           tumbled2 == Tracked("tumbled", h.tumbled,
                         Request(b, in) /\ (h.tumbled \/ (b \in ImuUp /\ NewFallen(b, in))))
           quiet2 == Tracked("quiet", h.quiet, Least(h.quiet + in.dt, CyclicTimeout + 1))
           gap2 == Tracked("mirror", h.gap, gap)
           broken2 == Tracked("mirror", h.broken, h.broken \/ gap > InputsTimeout)
           alone2 == Tracked("alone", h.alone, IF alone THEN Sat(h.alone, AloneCap + 1) ELSE h.alone)
<1>1. since2 \in 0 .. EnvCap
  <2>1. Sat(h.since, EnvCap) \in 0 .. EnvCap
    BY HistFacts, SatType, TimesFacts
  <2> QED BY <2>1, HistFacts, TimesFacts DEF Tracked
<1>2. held2 \in 0 .. 4
  <2>1. Sat(h.held, 4) \in 0 .. 4
    BY HistFacts, SatType
  <2> QED BY <2>1, HistFacts DEF Tracked
<1>3. tumbled2 \in BOOLEAN
  BY HistFacts DEF Tracked
<1>4. quiet2 \in 0 .. CyclicTimeout + 1
  <2>1. Least(h.quiet + in.dt, CyclicTimeout + 1) \in 0 .. CyclicTimeout + 1
    BY HistFacts, InputFacts, TimesFacts DEF Least
  <2> QED BY <2>1, HistFacts DEF Tracked
<1>5. gap \in 0 .. InputsTimeout + 1
  <2>1. (mirror[b].owner # None) \in BOOLEAN /\ h.gap \in 0 .. InputsTimeout + 1
        /\ in.dt \in Nat /\ InputsTimeout + 1 \in Nat
    BY HistFacts, InputFacts, TimesFacts
  <2> QED BY <2>1, AgeTickType
<1>6. gap2 \in 0 .. InputsTimeout + 1
  BY <1>5, HistFacts DEF Tracked
<1>7. broken2 \in BOOLEAN
  BY HistFacts DEF Tracked
<1>8. alone2 \in 0 .. AloneCap + 1
  <2>1. AloneCap + 1 \in Nat
    BY TimesFacts DEF AloneCap
  <2>2. Sat(h.alone, AloneCap + 1) \in 0 .. AloneCap + 1
    BY <2>1, HistFacts, SatType
  <2> QED BY <2>2, HistFacts DEF Tracked
<1>9. NewHist(b, in) = [since |-> since2, held |-> held2, tumbled |-> tumbled2, quiet |-> quiet2,
                        gap |-> gap2, broken |-> broken2, alone |-> alone2]
  BY DEF NewHist
<1> HIDE DEF since2, held2, tumbled2, quiet2, gap2, broken2, alone2
<1> QED
  BY <1>1, <1>2, <1>3, <1>4, <1>6, <1>7, <1>8, <1>9 DEF Hists

LEMMA OtherType ==
  ASSUME Paired, NEW b \in Boards
  PROVE  Other(b) \in Boards /\ Other(b) # b
<1>1. \E c \in Boards : c # b
  <2> SUFFICES ASSUME \A c \in Boards : c = b PROVE FALSE
    OBVIOUS
  <2>1. Boards = {b}
    OBVIOUS
  <2>2. Cardinality(Boards) = 1
    BY <2>1, FS_Singleton
  <2> QED
    BY <2>2 DEF Paired
<1> QED
  BY <1>1 DEF Other

-----------------------------------------------------------------------------
(* Type correctness. *)

LEMMA InitType == Init => TypeOK
<1> SUFFICES ASSUME Init PROVE TypeOK
  OBVIOUS
<1>1. mode \in [Boards -> Modes] /\ digest \in [Boards -> Digests]
  BY DEF Init, Modes
<1>2. {moe, armed, refused, fallen, tilt, hall, trip, button, writeGate} \subseteq [Boards -> BOOLEAN]
  BY DEF Init
<1>3. fsm \in [Boards -> Fsms]
  BY FsmStartType DEF Init
<1>4. {turn, demand, peerDemand} \subseteq [Boards -> Int]
  BY DEF Init
<1>5. {role, stored} \subseteq [Boards -> Producers]
  BY DEF Init
<1>6. {imu, period} \subseteq [Boards -> Healths]
  BY TimesFacts DEF Init, Healthy, Healths
<1>7. latch \in [Boards -> Latches]
  BY TimesFacts DEF Init, NoLatch, Latches
<1>8. {peer, wire} \subseteq [Boards -> Frames \cup {None}] /\ heard \in [Boards -> Digests \cup {None}]
  BY DEF Init
<1>9. age \in [Boards -> 0 .. CyclicTimeout + 1] /\ emit \in [Boards -> Nat] /\ ahead \in [Boards -> Nat]
  BY TimesFacts DEF Init
<1>10. mirror \in [Boards -> Mirrors]
  BY TimesFacts DEF Init, NoMirror, Mirrors
<1>11. hist \in [Boards -> Hists]
  BY HistStartType DEF Init
<1> QED
  BY <1>1, <1>2, <1>3, <1>4, <1>5, <1>6, <1>7, <1>8, <1>9, <1>10, <1>11 DEF TypeOK

LEMMA InStepType ==
  ASSUME TypeOK, NEW b \in Boards, NEW dt \in Nat, InStep(b, dt)
  PROVE  ahead' \in [Boards -> Nat]
<1> DEFINE raised(d) == ahead[d] + (IF d = b THEN dt ELSE 0)
<1>1. CASE ~Paired
  BY <1>1 DEF InStep
<1>2. CASE Paired
  <2>1. \A d \in Boards : raised(d) \in Nat
    BY BoardFacts
  <2>2. \A c \in Boards : raised(c) - Least(raised(c), raised(Other(c))) \in Nat
    <3> TAKE c \in Boards
    <3>1. Other(c) \in Boards
      BY <1>2, OtherType
    <3> HIDE DEF raised
    <3> QED
      BY <2>1, <3>1 DEF Least
  <2>3. ahead' = [c \in Boards |-> raised(c) - Least(raised(c), raised(Other(c)))]
    BY <1>2 DEF InStep
  <2> HIDE DEF raised
  <2> QED
    BY <2>2, <2>3
<1> QED
  BY <1>1, <1>2

LEMMA PassType ==
  ASSUME TypeOK, NEW b \in Boards, NEW in \in Inputs, PassWith(b, in)
  PROVE  TypeOK'
<1>1. mode' \in [Boards -> Modes]
  BY ModeTypes DEF TypeOK, PassWith
<1>2. moe' \in [Boards -> BOOLEAN] /\ armed' \in [Boards -> BOOLEAN] /\ refused' \in [Boards -> BOOLEAN]
  BY ModeTypes DEF TypeOK, PassWith
<1>3. fallen' \in [Boards -> BOOLEAN] /\ tilt' \in [Boards -> BOOLEAN] /\ trip' \in [Boards -> BOOLEAN]
  BY ModeTypes, SensedTypes DEF TypeOK, PassWith
<1>4. writeGate' \in [Boards -> BOOLEAN]
  BY BoardFacts DEF TypeOK, PassWith, SampleGate
<1>5. fsm' \in [Boards -> Fsms]
  BY WordTypes DEF TypeOK, PassWith
<1>6. turn' \in [Boards -> Int] /\ demand' \in [Boards -> Int] /\ peerDemand' \in [Boards -> Int]
  BY WordTypes DEF TypeOK, PassWith
<1>7. role' \in [Boards -> Producers]
  BY ModeTypes DEF TypeOK, PassWith
<1>8. imu' \in [Boards -> Healths] /\ period' \in [Boards -> Healths]
  BY SensedTypes DEF TypeOK, PassWith
<1>9. latch' \in [Boards -> Latches]
  BY FaultTypes DEF TypeOK, PassWith
<1>10. age' \in [Boards -> 0 .. CyclicTimeout + 1]
  BY SensedTypes DEF TypeOK, PassWith
<1>11. mirror' \in [Boards -> Mirrors]
  BY SensedTypes DEF TypeOK, PassWith
<1>12. hist' \in [Boards -> Hists]
  BY HistType DEF TypeOK, PassWith
<1>13. wire' \in [Boards -> Frames \cup {None}]
  BY CyclicType DEF TypeOK, PassWith, Transmit
<1>14. emit' \in [Boards -> Nat]
  BY BoardFacts, InputFacts DEF TypeOK, PassWith, Transmit
<1>15. ahead' \in [Boards -> Nat]
  BY InputFacts, InStepType DEF PassWith
<1>16. UNCHANGED <<stored, digest, hall, peer, heard, button>>
  BY DEF PassWith
<1> QED
  BY <1>1, <1>2, <1>3, <1>4, <1>5, <1>6, <1>7, <1>8, <1>9, <1>10, <1>11, <1>12, <1>13,
     <1>14, <1>15, <1>16 DEF TypeOK

\* A frame of the peer is stored and its digest heard.
LEMMA HearType ==
  ASSUME TypeOK, NEW b \in Boards, NEW f \in Frames, Hear(b, f),
         wire' \in [Boards -> Frames \cup {None}]
  PROVE  TypeOK'
<1>1. peer' \in [Boards -> Frames \cup {None}] /\ heard' \in [Boards -> Digests \cup {None}]
  BY DEF TypeOK, Hear, Frames
<1>2. age' \in [Boards -> 0 .. CyclicTimeout + 1]
  BY TimesFacts DEF TypeOK, Hear
<1>3. hist' \in [Boards -> Hists]
  <2>1. [hist[b] EXCEPT !.quiet = 0] \in Hists
    BY BoardFacts, TimesFacts DEF Hists
  <2> QED
    BY <2>1 DEF TypeOK, Hear
<1>4. UNCHANGED <<mode, moe, armed, refused, fsm, turn, demand, peerDemand, role,
                  imu, period, fallen, tilt, latch, stored, digest, hall, trip,
                  button, mirror, emit, writeGate, ahead>>
  BY DEF Hear
<1> QED
  BY <1>1, <1>2, <1>3, <1>4 DEF TypeOK

LEMMA InboxType ==
  ASSUME TypeOK, NEW b \in Boards, NEW m \in Mirrors, NEW h \in Hists, Inbox(b, m, h)
  PROVE  TypeOK'
<1>1. mirror' \in [Boards -> Mirrors] /\ hist' \in [Boards -> Hists]
  BY DEF TypeOK, Inbox
<1>2. UNCHANGED <<boardVars, linkVars, stored, digest, hall, trip, button, emit,
                  wire, writeGate, ahead>>
  BY DEF Inbox
<1> QED
  BY <1>1, <1>2 DEF TypeOK, boardVars, linkVars

LEMMA HearInputsType ==
  ASSUME TypeOK, NEW b \in Boards, NEW c \in Controllers, HearInputs(b, c)
  PROVE  TypeOK'
<1>1. PICK level \in BOOLEAN :
        Inbox(b, AcceptInputs(mirror[b], c, level), [hist[b] EXCEPT !.gap = 0, !.broken = FALSE])
  BY DEF HearInputs
<1>2. AcceptInputs(mirror[b], c, level) \in Mirrors
  BY TimesFacts DEF AcceptInputs, Mirrors
<1>3. [hist[b] EXCEPT !.gap = 0, !.broken = FALSE] \in Hists
  <2>1. hist[b] \in Hists /\ 0 \in 0 .. InputsTimeout + 1
    BY BoardFacts, TimesFacts
  <2>2. [hist[b] EXCEPT !.gap = 0] \in Hists
    BY <2>1 DEF Hists
  <2> QED
    BY <2>1, <2>2 DEF Hists
<1> QED
  BY <1>1, <1>2, <1>3, InboxType

LEMMA HearDriveType ==
  ASSUME TypeOK, NEW b \in Boards, NEW c \in Controllers, HearDrive(b, c)
  PROVE  TypeOK'
<1>1. AcceptDrive(mirror[b], c) \in Mirrors
  BY BoardFacts, TimesFacts DEF AcceptDrive, Mirrors
<1>2. [hist[b] EXCEPT !.gap = 0] \in Hists /\ hist[b] \in Hists
  BY BoardFacts, TimesFacts DEF Hists
<1> QED
  BY <1>1, <1>2, InboxType DEF HearDrive

LEMMA RebootType ==
  ASSUME TypeOK, NEW b \in Boards, Reboot(b)
  PROVE  TypeOK'
<1>1. mode' \in [Boards -> Modes]
  BY DEF TypeOK, Reboot, Modes
<1>2. /\ moe' \in [Boards -> BOOLEAN] /\ armed' \in [Boards -> BOOLEAN]
      /\ refused' \in [Boards -> BOOLEAN] /\ fallen' \in [Boards -> BOOLEAN]
      /\ tilt' \in [Boards -> BOOLEAN] /\ hall' \in [Boards -> BOOLEAN]
      /\ trip' \in [Boards -> BOOLEAN] /\ button' \in [Boards -> BOOLEAN]
      /\ writeGate' \in [Boards -> BOOLEAN]
  BY DEF TypeOK, Reboot
<1>3. fsm' \in [Boards -> Fsms]
  BY FsmStartType DEF TypeOK, Reboot
<1>4. turn' \in [Boards -> Int] /\ demand' \in [Boards -> Int] /\ peerDemand' \in [Boards -> Int]
  BY DEF TypeOK, Reboot
<1>5. role' \in [Boards -> Producers]
  BY BoardFacts DEF TypeOK, Reboot
<1>6. imu' \in [Boards -> Healths] /\ period' \in [Boards -> Healths]
  <2>1. Healthy \in Healths
    BY TimesFacts DEF Healthy, Healths
  <2> QED
    BY <2>1 DEF TypeOK, Reboot
<1>7. latch' \in [Boards -> Latches]
  <2>1. NoLatch \in Latches
    BY TimesFacts DEF NoLatch, Latches
  <2> QED
    BY <2>1 DEF TypeOK, Reboot
<1>8. peer' \in [Boards -> Frames \cup {None}] /\ heard' \in [Boards -> Digests \cup {None}]
  BY DEF TypeOK, Reboot
<1>9. age' \in [Boards -> 0 .. CyclicTimeout + 1] /\ emit' \in [Boards -> Nat]
  BY TimesFacts DEF TypeOK, Reboot
<1>10. mirror' \in [Boards -> Mirrors]
  <2>1. NoMirror \in Mirrors
    BY TimesFacts DEF NoMirror, Mirrors
  <2> QED
    BY <2>1 DEF TypeOK, Reboot
<1>11. hist' \in [Boards -> Hists]
  <2>1. \A c \in Boards : [hist[c] EXCEPT !.alone = 0] \in Hists
    <3> TAKE c \in Boards
    <3>1. hist[c] \in Hists /\ 0 \in 0 .. AloneCap + 1
      BY BoardFacts, TimesFacts DEF AloneCap
    <3> QED
      BY <3>1 DEF Hists
  <2> QED
    BY <2>1, HistStartType DEF Reboot
<1>12. UNCHANGED <<stored, digest, wire, ahead>>
  BY DEF Reboot
<1> QED
  BY <1>1, <1>2, <1>3, <1>4, <1>5, <1>6, <1>7, <1>8, <1>9, <1>10, <1>11, <1>12 DEF TypeOK

LEMMA NextType == TypeOK /\ [Next]_vars => TypeOK'
<1> SUFFICES ASSUME TypeOK, [Next]_vars PROVE TypeOK'
  OBVIOUS
<1>1. CASE UNCHANGED vars
  BY <1>1 DEF TypeOK, vars, boardVars, linkVars
<1>2. ASSUME NEW b \in Boards, Pass(b) PROVE TypeOK'
  BY <1>2, PassType DEF Pass
<1>3. ASSUME NEW b \in Boards, IdleLoop(b) PROVE TypeOK'
  <2>1. writeGate' \in [Boards -> BOOLEAN]
    BY <1>3, BoardFacts DEF TypeOK, IdleLoop, SampleGate
  <2> QED
    BY <1>3, <2>1 DEF IdleLoop, TypeOK, boardVars, linkVars
<1>4. ASSUME NEW b \in Boards, Deliver(b) PROVE TypeOK'
  <2>1. wire[b] \in Frames /\ wire' \in [Boards -> Frames \cup {None}]
    BY <1>4, BoardFacts DEF Deliver, TypeOK
  <2> QED
    BY <1>4, <2>1, HearType DEF Deliver
<1>5. ASSUME NEW b \in Boards, HearForeign(b) PROVE TypeOK'
  <2>1. PICK f \in ForeignFrames : Hear(b, f)
    BY <1>5 DEF HearForeign
  <2>2. f \in Frames /\ wire' \in [Boards -> Frames \cup {None}]
    BY <1>5, FramesAssumption DEF HearForeign, TypeOK
  <2> QED
    BY <2>1, <2>2, HearType
<1>6. ASSUME NEW b \in Boards, LoseFrame(b) PROVE TypeOK'
  BY <1>6 DEF LoseFrame, TypeOK, boardVars, linkVars
<1>7. ASSUME NEW b \in Boards, NEW c \in Controllers, HearInputs(b, c) \/ HearDrive(b, c)
      PROVE TypeOK'
  BY <1>7, HearInputsType, HearDriveType
<1>8. ASSUME NEW b \in Boards, Press(b) PROVE TypeOK'
  <2>1. button' \in [Boards -> BOOLEAN]
    BY <1>8 DEF Press, TypeOK
  <2> QED
    BY <1>8, <2>1 DEF Press, TypeOK, boardVars, linkVars
<1>9. ASSUME NEW b \in Boards, HallFault(b) PROVE TypeOK'
  BY <1>9 DEF HallFault, TypeOK, boardVars, linkVars
<1>10. ASSUME NEW b \in Boards, OverCurrent(b) PROVE TypeOK'
  BY <1>10 DEF OverCurrent, TypeOK, boardVars, linkVars
<1>11. ASSUME NEW b \in Boards, ConfigWrite(b) PROVE TypeOK'
  <2>1. stored' \in [Boards -> Producers] /\ digest' \in [Boards -> Digests]
    BY <1>11, RolesAssumption DEF ConfigWrite, TypeOK
  <2> QED
    BY <1>11, <2>1 DEF ConfigWrite, TypeOK, boardVars, linkVars
<1>12. ASSUME NEW b \in Boards, Reboot(b) PROVE TypeOK'
  BY <1>12, RebootType
<1> QED
  BY <1>1, <1>2, <1>3, <1>4, <1>5, <1>6, <1>7, <1>8, <1>9, <1>10, <1>11, <1>12 DEF Next

\* Every variable keeps its type: the counters stay within their saturation points,
\* the envelope under its cap and the word under the envelope, in every order of
\* passes, frames, writes and resets.
THEOREM ControlTypeCorrect == Spec => []TypeOK
BY InitType, NextType, PTL DEF Spec

-----------------------------------------------------------------------------
(***************************************************************************)
(* Which step changed what.  Each invariant below looks at a few variables *)
(* of one board at a time; these facts say what the board's own pass, its  *)
(* reset and every other step do to them.                                  *)
(***************************************************************************)

\* A board is passed over by its own pass, its own reset, its own inbox or a
\* step that leaves the machine's state alone.
LEMMA PassEffect ==
  ASSUME TypeOK, NEW b \in Boards, NEW in \in Inputs, PassWith(b, in), NEW c \in Boards
  PROVE  /\ mode'[c] = IF c = b THEN NewMode(b, in) ELSE mode[c]
         /\ moe'[c] = IF c = b THEN NewMoe(b, in) ELSE moe[c]
         /\ armed'[c] = IF c = b THEN NewArmed(b, in) ELSE armed[c]
         /\ refused'[c] = IF c = b THEN NewRefused(b, in) ELSE refused[c]
         /\ fsm'[c] = IF c = b THEN NewFsm(b, in) ELSE fsm[c]
         /\ demand'[c] = IF c = b THEN Published(b, in) ELSE demand[c]
         /\ role'[c] = IF c = b THEN NewRole(b, in) ELSE role[c]
         /\ period'[c] = IF c = b THEN NewPeriod(b, in) ELSE period[c]
         /\ tilt'[c] = IF c = b THEN NewTilt(b, in) ELSE tilt[c]
         /\ age'[c] = IF c = b THEN NewAge(b, in) ELSE age[c]
         /\ mirror'[c] = IF c = b THEN NewMirror(b, in) ELSE mirror[c]
         /\ hist'[c] = IF c = b THEN NewHist(b, in) ELSE hist[c]
         /\ hall'[c] = hall[c] /\ peer'[c] = peer[c] /\ heard'[c] = heard[c]
BY DEF PassWith, TypeOK

LEMMA RebootEffect ==
  ASSUME TypeOK, NEW b \in Boards, Reboot(b), NEW c \in Boards
  PROVE  IF c = b
         THEN /\ mode'[c] = "Off" /\ moe'[c] = FALSE /\ armed'[c] = FALSE /\ refused'[c] = FALSE
              /\ fsm'[c] = FsmStart /\ demand'[c] = 0 /\ peer'[c] = None /\ heard'[c] = None
              /\ mirror'[c] = NoMirror /\ hist'[c] = HistStart /\ tilt'[c] = FALSE
         ELSE /\ mode'[c] = mode[c] /\ moe'[c] = moe[c] /\ armed'[c] = armed[c]
              /\ refused'[c] = refused[c] /\ fsm'[c] = fsm[c] /\ demand'[c] = demand[c]
              /\ role'[c] = role[c] /\ period'[c] = period[c] /\ tilt'[c] = tilt[c]
              /\ age'[c] = age[c] /\ mirror'[c] = mirror[c] /\ hall'[c] = hall[c]
              /\ peer'[c] = peer[c] /\ heard'[c] = heard[c]
              /\ hist'[c] = [hist[c] EXCEPT !.alone = 0]
BY DEF Reboot, TypeOK

\* Every step but a pass and a reset leaves the machine's state alone and a hall
\* fault up; only the peer slot and the mirror move.
StateKept(c) ==
  /\ mode'[c] = mode[c] /\ moe'[c] = moe[c] /\ armed'[c] = armed[c] /\ refused'[c] = refused[c]
  /\ fsm'[c] = fsm[c] /\ demand'[c] = demand[c] /\ role'[c] = role[c] /\ period'[c] = period[c]
  /\ tilt'[c] = tilt[c] /\ (hall[c] => hall'[c])
  /\ hist'[c].since = hist[c].since /\ hist'[c].held = hist[c].held
  /\ hist'[c].tumbled = hist[c].tumbled

\* The link half of such a step: nothing, a frame heard, or a controller heard.
LinkKept(c) ==
  /\ peer'[c] = peer[c] /\ heard'[c] = heard[c] /\ age'[c] = age[c]
  /\ hist'[c].quiet = hist[c].quiet
PeerHeard(c) ==
  /\ peer'[c] # None /\ heard'[c] # None /\ age'[c] = 0
MirrorKept(c) ==
  mirror'[c] = mirror[c] /\ hist'[c].gap = hist[c].gap /\ hist'[c].broken = hist[c].broken
ControllerHeard(c) ==
  \E src \in Controllers :
    \/ mirror'[c].age = 0 /\ hist'[c].gap = 0 /\ ~hist'[c].broken
    \/ /\ mirror'[c] = AcceptDrive(mirror[c], src)
       /\ hist'[c].gap = IF src = mirror[c].owner THEN 0 ELSE hist[c].gap
       /\ hist'[c].broken = hist[c].broken

LEMMA HearEffect ==
  ASSUME TypeOK, NEW b \in Boards, NEW f \in Frames, Hear(b, f), NEW c \in Boards
  PROVE  StateKept(c) /\ (LinkKept(c) \/ PeerHeard(c)) /\ MirrorKept(c)
<1>1. f # None /\ f.digest # None
  BY NoneAssumption DEF Frames
<1>2. /\ hist'[c].since = hist[c].since /\ hist'[c].held = hist[c].held
      /\ hist'[c].tumbled = hist[c].tumbled /\ hist'[c].gap = hist[c].gap
      /\ hist'[c].broken = hist[c].broken /\ (c # b => hist'[c] = hist[c])
  <2>1. hist[b] \in Hists
    BY BoardFacts
  <2>2. hist' = [hist EXCEPT ![b].quiet = 0]
    BY DEF Hear
  <2> QED
    BY <2>1, <2>2 DEF TypeOK, Hists
<1>3. StateKept(c) /\ MirrorKept(c)
  BY <1>2 DEF Hear, StateKept, MirrorKept
<1>4. c = b => PeerHeard(c)
  BY <1>1 DEF Hear, TypeOK, PeerHeard
<1>5. c # b => LinkKept(c)
  BY <1>2 DEF Hear, TypeOK, LinkKept
<1> QED
  BY <1>3, <1>4, <1>5

LEMMA InboxEffect ==
  ASSUME TypeOK, NEW b \in Boards, NEW src \in Controllers,
         HearInputs(b, src) \/ HearDrive(b, src), NEW c \in Boards
  PROVE  StateKept(c) /\ LinkKept(c) /\ (MirrorKept(c) \/ ControllerHeard(c))
<1>1. CASE HearInputs(b, src)
  <2>1. PICK level \in BOOLEAN :
          Inbox(b, AcceptInputs(mirror[b], src, level), [hist[b] EXCEPT !.gap = 0, !.broken = FALSE])
    BY <1>1 DEF HearInputs
  <2>2. hist[b] \in Hists
    BY BoardFacts
  <2>3. /\ hist'[c].since = hist[c].since /\ hist'[c].held = hist[c].held
        /\ hist'[c].tumbled = hist[c].tumbled /\ hist'[c].quiet = hist[c].quiet
        /\ (c = b => hist'[c].gap = 0 /\ hist'[c].broken = FALSE) /\ (c # b => hist'[c] = hist[c])
    BY <2>1, <2>2 DEF Inbox, TypeOK, Hists
  <2>4. c # b => mirror'[c] = mirror[c]
    BY <2>1 DEF Inbox, TypeOK
  <2>5. c = b => mirror'[c].age = 0
    BY <2>1 DEF Inbox, TypeOK, AcceptInputs
  <2>6. StateKept(c) /\ LinkKept(c)
    BY <2>1, <2>3 DEF Inbox, StateKept, LinkKept, boardVars, linkVars
  <2> QED
    BY <2>3, <2>4, <2>5, <2>6 DEF MirrorKept, ControllerHeard
<1>2. CASE HearDrive(b, src)
  <2> DEFINE h == IF src = mirror[b].owner THEN [hist[b] EXCEPT !.gap = 0] ELSE hist[b]
  <2>1. Inbox(b, AcceptDrive(mirror[b], src), h)
    BY <1>2 DEF HearDrive
  <2>2. hist[b] \in Hists
    BY BoardFacts
  <2>3. /\ h.since = hist[b].since /\ h.held = hist[b].held /\ h.tumbled = hist[b].tumbled
        /\ h.quiet = hist[b].quiet /\ h.broken = hist[b].broken
        /\ h.gap = IF src = mirror[b].owner THEN 0 ELSE hist[b].gap
    BY <2>2 DEF Hists
  <2> HIDE DEF h
  <2>4. hist'[c] = IF c = b THEN h ELSE hist[c]
    BY <2>1 DEF Inbox, TypeOK
  <2>5. mirror'[c] = IF c = b THEN AcceptDrive(mirror[b], src) ELSE mirror[c]
    BY <2>1 DEF Inbox, TypeOK
  <2>6. StateKept(c) /\ LinkKept(c)
    BY <2>1, <2>3, <2>4 DEF Inbox, StateKept, LinkKept, boardVars, linkVars
  <2> QED
    BY <2>3, <2>4, <2>5, <2>6 DEF MirrorKept, ControllerHeard
<1> QED
  BY <1>1, <1>2

\* The steps of Next, by what they do to one board.
LEMMA StepEffect ==
  ASSUME TypeOK, [Next]_vars, NEW c \in Boards
  PROVE  \/ \E in \in Inputs : PassWith(c, in)
         \/ Reboot(c)
         \/ StateKept(c) /\ (LinkKept(c) \/ PeerHeard(c)) /\ (MirrorKept(c) \/ ControllerHeard(c))
<1> DEFINE Still == StateKept(c) /\ LinkKept(c) /\ MirrorKept(c)
<1>1. CASE UNCHANGED vars
  BY <1>1 DEF vars, boardVars, linkVars, StateKept, LinkKept, MirrorKept
<1>2. ASSUME NEW b \in Boards, Pass(b) PROVE (\E in \in Inputs : PassWith(c, in)) \/ Still
  <2>1. PICK in \in Inputs : PassWith(b, in)
    BY <1>2 DEF Pass
  <2> QED
    BY <2>1, PassEffect DEF StateKept, LinkKept, MirrorKept
<1>3. ASSUME NEW b \in Boards, IdleLoop(b) PROVE Still
  BY <1>3 DEF IdleLoop, boardVars, linkVars, StateKept, LinkKept, MirrorKept
<1>4. ASSUME NEW b \in Boards, Deliver(b)
      PROVE  StateKept(c) /\ (LinkKept(c) \/ PeerHeard(c)) /\ MirrorKept(c)
  <2>1. wire[b] \in Frames
    BY <1>4, BoardFacts DEF Deliver
  <2>2. Hear(b, wire[b])
    BY <1>4 DEF Deliver
  <2> QED
    BY <2>1, <2>2, HearEffect
<1>5. ASSUME NEW b \in Boards, HearForeign(b)
      PROVE  StateKept(c) /\ (LinkKept(c) \/ PeerHeard(c)) /\ MirrorKept(c)
  <2>1. PICK f \in ForeignFrames : Hear(b, f)
    BY <1>5 DEF HearForeign
  <2>2. f \in Frames
    BY FramesAssumption
  <2> QED
    BY <2>1, <2>2, HearEffect
<1>6. ASSUME NEW b \in Boards, LoseFrame(b) PROVE Still
  BY <1>6 DEF LoseFrame, boardVars, linkVars, StateKept, LinkKept, MirrorKept
<1>7. ASSUME NEW b \in Boards, NEW src \in Controllers, HearInputs(b, src) \/ HearDrive(b, src)
      PROVE  StateKept(c) /\ LinkKept(c) /\ (MirrorKept(c) \/ ControllerHeard(c))
  BY <1>7, InboxEffect
<1>8. ASSUME NEW b \in Boards, Press(b) PROVE Still
  BY <1>8 DEF Press, boardVars, linkVars, StateKept, LinkKept, MirrorKept
<1>9. ASSUME NEW b \in Boards, HallFault(b) PROVE Still
  <2>1. hall[c] => hall'[c]
    BY <1>9 DEF HallFault, TypeOK
  <2> QED
    BY <1>9, <2>1 DEF HallFault, boardVars, linkVars, StateKept, LinkKept, MirrorKept
<1>10. ASSUME NEW b \in Boards, OverCurrent(b) PROVE Still
  BY <1>10 DEF OverCurrent, boardVars, linkVars, StateKept, LinkKept, MirrorKept
<1>11. ASSUME NEW b \in Boards, ConfigWrite(b) PROVE Still
  BY <1>11 DEF ConfigWrite, boardVars, linkVars, StateKept, LinkKept, MirrorKept
<1>12. ASSUME NEW b \in Boards, Reboot(b), b # c PROVE Still
  <2>1. hist[c] \in Hists
    BY BoardFacts
  <2>2. hist'[c] = [hist[c] EXCEPT !.alone = 0]
    BY <1>12, RebootEffect
  <2>3. /\ hist'[c].since = hist[c].since /\ hist'[c].held = hist[c].held
        /\ hist'[c].tumbled = hist[c].tumbled /\ hist'[c].quiet = hist[c].quiet
        /\ hist'[c].gap = hist[c].gap /\ hist'[c].broken = hist[c].broken
    BY <2>1, <2>2 DEF Hists
  <2>4. /\ mode'[c] = mode[c] /\ moe'[c] = moe[c] /\ armed'[c] = armed[c]
        /\ refused'[c] = refused[c] /\ fsm'[c] = fsm[c] /\ demand'[c] = demand[c]
        /\ role'[c] = role[c] /\ period'[c] = period[c] /\ tilt'[c] = tilt[c]
        /\ hall'[c] = hall[c]
    BY <1>12, RebootEffect
  <2>5. StateKept(c)
    BY <2>3, <2>4 DEF StateKept
  <2>6. LinkKept(c) /\ MirrorKept(c)
    BY <1>12, <2>3, RebootEffect DEF LinkKept, MirrorKept
  <2> QED
    BY <2>5, <2>6
<1> QED
  BY <1>1, <1>2, <1>3, <1>4, <1>5, <1>6, <1>7, <1>8, <1>9, <1>10, <1>11, <1>12 DEF Next
=============================================================================
