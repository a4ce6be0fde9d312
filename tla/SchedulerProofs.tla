--------------------------- MODULE SchedulerProofs ---------------------------
(***************************************************************************)
(* Theorems of the scheduler: for every table, every width of the          *)
(* runcounts, every number of ticks, and both ways of interleaving tick    *)
(* with dispatch.  Each property follows from an inductive invariant of    *)
(* one slot, on top of what holds of the table.                            *)
(***************************************************************************)
EXTENDS Scheduler, TLAPS

\* What the constants' assumptions give, and the wrapping of a runcount.
LEMMA Widths ==
  /\ NSlot \in Nat \ {0} /\ RunMod \in Nat \ {0, 1} /\ MaxTicks \in Nat
  /\ \A r \in Registrations : r[1] \in Nat /\ r[2] \in Nat
BY NSlotAssumption, RunModAssumption, MaxTicksAssumption, RegistrationsAssumption

LEMMA Zeros ==
  /\ 0 \in Slots /\ 0 \in Nat /\ 0 \in 0 .. RunMod - 1
  /\ Zero \in [Slots -> Nat] /\ Zero \in [Slots -> 0 .. RunMod - 1]
<1>1. 0 \in Slots /\ 0 \in Nat /\ 0 \in 0 .. RunMod - 1
  BY Widths DEF Slots
<1> QED
  BY <1>1 DEF Zero

LEMMA WrapUp ==
  ASSUME NEW n \in 0 .. RunMod - 1
  PROVE  /\ RunAdd(n) \in 0 .. RunMod - 1
         /\ RunAdd(n) = IF n + 1 = RunMod THEN 0 ELSE n + 1
<1> DEFINE w == RunMod
<1>1. w \in Nat \ {0, 1} /\ n \in 0 .. w - 1
  BY Widths
<1> HIDE DEF w
<1>2. (n + 1) % w = IF n + 1 = w THEN 0 ELSE n + 1
  BY <1>1
<1> QED
  BY <1>1, <1>2 DEF RunAdd, w

LEMMA WrapDown ==
  ASSUME NEW s, runcount[s] \in 0 .. RunMod - 1
  PROVE  /\ Consumed(s) \in 0 .. RunMod - 1
         /\ Consumed(s) = IF runcount[s] = 0 THEN RunMod - 1 ELSE runcount[s] - 1
<1> DEFINE w == RunMod
           n == runcount[s]
<1>1. w \in Nat \ {0, 1} /\ n \in 0 .. w - 1
  BY Widths
<1> HIDE DEF w, n
<1>2. (n - 1) % w = IF n = 0 THEN w - 1 ELSE n - 1
  BY <1>1
<1> QED
  BY <1>1, <1>2 DEF Consumed, w, n

LEMMA NextSlotType == ASSUME NEW s \in Slots PROVE NextSlot(s) \in Slots
BY Widths DEF NextSlot, Slots

LEMMA TickNextSlotType ==
  ASSUME tickAt \in Slots, TickNextSlot
  PROVE  tickAt' \in Slots /\ tickPc' \in {"idle", "test"}
BY Widths DEF TickNextSlot, Slots

-----------------------------------------------------------------------------
LEMMA TypeStep == ASSUME TypeOK, [Next]_vars PROVE TypeOK'
<1> USE DEF TypeOK
<1>1. ASSUME NEW r \in Registrations, Register(r[1], r[2]) PROVE TypeOK'
  <2>1. r[1] \in Nat /\ r[2] \in Nat
    BY Widths
  <2>2. UNCHANGED <<enabled, tickVars, pc, at, due, ran>>
    BY <1>1 DEF Register
  <2>3. CASE UNCHANGED <<slotVars, first>> /\ status' = "Full"
    BY <2>2, <2>3 DEF slotVars, tickVars
  <2>4. CASE UNCHANGED status /\ \E s \in Slots :
               /\ counter' = [counter EXCEPT ![s] = r[1]]
               /\ reload' = [reload EXCEPT ![s] = r[2]]
               /\ runcount' = [runcount EXCEPT ![s] = 0]
               /\ occupied' = [occupied EXCEPT ![s] = TRUE]
               /\ first' = [first EXCEPT ![s] = r[1]]
    BY <2>1, <2>2, <2>4, Zeros DEF tickVars
  <2> QED
    BY <1>1, <2>3, <2>4 DEF Register
<1>2. ASSUME NEW s \in Slots, Unregister(s) PROVE TypeOK'
  BY <1>2, Zeros DEF Unregister, slotVars, tickVars
<1>3. CASE SystickInit
  BY <1>3, Zeros DEF SystickInit, tickVars
<1>4. CASE MarkTickSourceEnabled
  BY <1>4 DEF MarkTickSourceEnabled, slotVars, tickVars, history
<1>5. CASE SysTick
  BY <1>5, Zeros DEF SysTick, slotVars, history
<1>6. CASE TickTest
  BY <1>6, TickNextSlotType DEF TickTest, slotVars, history
<1>7. CASE TickLoad
  BY <1>7 DEF TickLoad, slotVars, history
<1>8. CASE TickCountDown
  BY <1>8, TickNextSlotType DEF TickCountDown, history
<1>9. CASE TickAccrue
  BY <1>9, WrapUp DEF TickAccrue
<1>10. CASE TickReload
  BY <1>10, TickNextSlotType DEF TickReload, Reloaded, history
<1>11. CASE DispatchTest
  BY <1>11, NextSlotType DEF DispatchTest, slotVars, tickVars, history
<1>12. CASE DispatchCall
  BY <1>12 DEF DispatchCall, slotVars, tickVars
<1>13. CASE DispatchConsume
  BY <1>13, WrapDown DEF DispatchConsume, tickVars, history
<1>14. CASE DispatchReload
  BY <1>14, NextSlotType DEF DispatchReload, slotVars, tickVars, history, ClearPcs
<1>15. CASE ClearSlot
  <2>1. UNCHANGED <<status, enabled, tickVars, history>>
    BY <1>15 DEF ClearSlot
  <2>2. pc' \in ClearPcs \cup {"test"} /\ at' \in Slots
    BY <1>15, NextSlotType DEF ClearSlot, ClearPcs
  <2>3. occupied' \in [Slots -> BOOLEAN]
    BY <1>15 DEF ClearSlot
  <2>4. counter' \in [Slots -> Nat] /\ reload' \in [Slots -> Nat]
    BY <1>15 DEF ClearSlot
  <2>5. runcount' \in [Slots -> 0 .. RunMod - 1]
    BY <1>15, Zeros DEF ClearSlot
  <2> QED
    BY <2>1, <2>2, <2>3, <2>4, <2>5 DEF tickVars, history
<1>16. CASE UNCHANGED vars
  BY <1>16 DEF vars, slotVars, tickVars, history
<1> QED
  BY <1>1, <1>2, <1>3, <1>4, <1>5, <1>6, <1>7, <1>8, <1>9, <1>10, <1>11, <1>12, <1>13,
     <1>14, <1>15, <1>16 DEF Next, TickStep, DispatchStep

\* The table's fields keep their widths, whatever the interleaving.
THEOREM SchedulerTypeCorrect == Spec => []TypeOK
<1>1. Init => TypeOK
  BY Zeros DEF Init, TypeOK
<1> QED
  BY <1>1, TypeStep, PTL DEF Spec

-----------------------------------------------------------------------------
(* What holds of the table, and before the tick source is enabled. *)

TableInv ==
  /\ \A s \in Slots : reload[s] # 0 => occupied[s]
  /\ pc \in ClearPcs => reload[at] = 0
  /\ tickPc # "idle" => ticks # 0
  /\ ~enabled => /\ ticks = 0 /\ tickPc = "idle" /\ pc = "test"
                 /\ due = Zero /\ ran = Zero /\ runcount = Zero /\ counter = first

LEMMA TableStep == ASSUME TypeOK, TableInv, [Next]_vars PROVE TableInv'
<1> USE DEF TypeOK, TableInv
<1>1. ASSUME NEW r \in Registrations, Register(r[1], r[2]) PROVE TableInv'
  <2>1. UNCHANGED <<enabled, tickVars, pc, at, due, ran>> /\ ~enabled
    BY <1>1 DEF Register
  <2>2. CASE UNCHANGED <<slotVars, first>>
    BY <2>1, <2>2 DEF slotVars, tickVars
  <2>3. CASE \E s \in Slots :
               /\ counter' = [counter EXCEPT ![s] = r[1]]
               /\ reload' = [reload EXCEPT ![s] = r[2]]
               /\ runcount' = [runcount EXCEPT ![s] = 0]
               /\ occupied' = [occupied EXCEPT ![s] = TRUE]
               /\ first' = [first EXCEPT ![s] = r[1]]
    BY <2>1, <2>3 DEF tickVars, Zero, ClearPcs
  <2> QED
    BY <1>1, <2>2, <2>3 DEF Register
<1>2. ASSUME NEW s \in Slots, Unregister(s) PROVE TableInv'
  BY <1>2 DEF Unregister, tickVars, Zero, ClearPcs
<1>3. CASE SystickInit
  BY <1>3 DEF SystickInit, tickVars, Zero, ClearPcs
<1>4. CASE MarkTickSourceEnabled
  BY <1>4 DEF MarkTickSourceEnabled, slotVars, tickVars, history
<1>5. CASE SysTick
  BY <1>5 DEF SysTick, slotVars, history
<1>6. CASE TickTest
  BY <1>6 DEF TickTest, TickNextSlot, slotVars, history
<1>7. CASE TickLoad
  BY <1>7 DEF TickLoad, slotVars, history
<1>8. CASE TickCountDown
  BY <1>8 DEF TickCountDown, TickNextSlot, history
<1>9. CASE TickAccrue
  BY <1>9 DEF TickAccrue
<1>10. CASE TickReload
  BY <1>10 DEF TickReload, TickNextSlot, history
<1>11. CASE DispatchTest
  BY <1>11 DEF DispatchTest, MayDispatch, slotVars, tickVars, history, ClearPcs
<1>12. CASE DispatchCall
  BY <1>12 DEF DispatchCall, MayDispatch, slotVars, tickVars, ClearPcs
<1>13. CASE DispatchConsume
  BY <1>13 DEF DispatchConsume, MayDispatch, tickVars, history, ClearPcs
<1>14. CASE DispatchReload
  BY <1>14 DEF DispatchReload, Removes, MayDispatch, slotVars, tickVars, history, ClearPcs
<1>15. CASE ClearSlot
  BY <1>15 DEF ClearSlot, MayDispatch, tickVars, history, ClearPcs
<1>16. CASE UNCHANGED vars
  BY <1>16 DEF vars, slotVars, tickVars, history
<1> QED
  BY <1>1, <1>2, <1>3, <1>4, <1>5, <1>6, <1>7, <1>8, <1>9, <1>10, <1>11, <1>12, <1>13,
     <1>14, <1>15, <1>16 DEF Next, TickStep, DispatchStep

\* A step of bring-up leaves the dispatcher, the tick and the counts at their start.
LEMMA BringUpStep ==
  ASSUME TypeOK, TableInv, ~enabled, NEW s \in Slots,
         \/ \E r \in Registrations : Register(r[1], r[2])
         \/ \E q \in Slots : Unregister(q)
         \/ SystickInit
         \/ MarkTickSourceEnabled
         \/ UNCHANGED vars
  PROVE  /\ ticks' = 0 /\ tickPc' = "idle" /\ pc' = "test" /\ due'[s] = 0 /\ ran'[s] = 0
         /\ runcount'[s] = 0 /\ counter'[s] = first'[s] /\ first'[s] \in Nat
<1>1. UNCHANGED <<ticks, tickPc, pc, due, ran>>
  BY DEF Register, Unregister, SystickInit, MarkTickSourceEnabled, vars, tickVars, history
<1>2. runcount'[s] = 0 /\ counter'[s] = first'[s]
  BY DEF Register, Unregister, SystickInit, MarkTickSourceEnabled, vars, slotVars, history,
         TypeOK, TableInv, Zero
<1>3. first'[s] \in Nat
  BY TypeStep DEF Next, TypeOK
<1> QED
  BY <1>1, <1>2, <1>3 DEF TableInv, Zero

-----------------------------------------------------------------------------
(* Whole turns of a counter of w values: one more or one fewer turn is w *)
(* more or w fewer.                                                       *)
LEMMA Turns ==
  ASSUME NEW k \in Nat, NEW w \in Nat
  PROVE  /\ k * w \in Nat /\ (k + 1) * w = k * w + w
         /\ k # 0 => (k - 1) * w = k * w - w
OBVIOUS

(* A count d of n and k whole turns, one more of which wraps n, is then of *)
(* k + 1 whole turns.                                                      *)
LEMMA TurnOver ==
  ASSUME NEW d \in Int, NEW n \in Nat, NEW k \in Nat, NEW w \in Nat,
         d = n + k * w, n + 1 = w
  PROVE  k + 1 \in Nat /\ d + 1 = 0 + (k + 1) * w
<1> DEFINE p == k * w
           q == (k + 1) * w
<1>1. p \in Nat /\ q = p + w
  BY Turns
<1>2. d = n + p
  OBVIOUS
<1> HIDE DEF p, q
<1>3. d + 1 = 0 + q
  BY <1>1, <1>2
<1> QED
  BY <1>3 DEF q

(* Nothing is lost: what is due and not taken is the runcount, up to whole *)
(* turns of it, and a slot being run has an event to take.                 *)

AccrualInv(s) ==
  reload[s] # 0 =>
    /\ \E k \in Nat : due[s] - Taken(s) = runcount[s] + k * RunMod
    /\ at = s /\ pc \in {"call", "consume"} => due[s] - Taken(s) >= 1

LEMMA AccrualStep ==
  ASSUME TypeOK, TableInv, [Next]_vars, NEW s \in Slots, AccrualInv(s)
  PROVE  AccrualInv(s)'
<1> DEFINE Kept == UNCHANGED <<reload, runcount, due, ran>>
<1> SUFFICES ASSUME reload'[s] # 0
             PROVE  /\ \E k \in Nat : (due[s] - Taken(s))' = runcount'[s] + k * RunMod
                    /\ at' = s /\ pc' \in {"call", "consume"} => (due[s] - Taken(s))' >= 1
  BY DEF AccrualInv
<1>0. RunMod \in Nat \ {0, 1} /\ due[s] \in Nat /\ ran[s] \in Nat /\ Taken(s) \in Int
      /\ runcount[s] \in 0 .. RunMod - 1
  BY Widths DEF TypeOK, Taken
<1>1. CASE \/ \E r \in Registrations : Register(r[1], r[2])
           \/ \E q \in Slots : Unregister(q)
           \/ SystickInit
           \/ MarkTickSourceEnabled
  <2>1. ~enabled
    BY <1>1 DEF Register, Unregister, SystickInit, MarkTickSourceEnabled
  <2>2. runcount'[s] = 0 /\ due'[s] = 0 /\ ran'[s] = 0 /\ pc' = "test"
    BY <1>1, <2>1, BringUpStep
  <2> QED
    BY <1>0, <2>2 DEF Taken
<1>2. CASE /\ UNCHANGED <<reload, runcount, due, ran, pc, at>>
  BY <1>2 DEF AccrualInv, Taken
<1>3. CASE TickAccrue
  <2>1. UNCHANGED <<reload, ran, pc, at>>
    BY <1>3 DEF TickAccrue
  <2>2. Taken(s)' = Taken(s)
    BY <2>1 DEF Taken
  <2>3. CASE tickAt # s
    <3>1. due'[s] = due[s] /\ runcount'[s] = runcount[s]
      BY <1>3, <2>3 DEF TickAccrue, TypeOK
    <3> QED
      BY <2>1, <2>2, <3>1 DEF AccrualInv
  <2>4. CASE tickAt = s
    <3>1. due'[s] = due[s] + 1 /\ runcount'[s] = RunAdd(runcount[s])
      BY <1>3, <2>4 DEF TickAccrue, TypeOK
    <3>2. PICK k \in Nat : due[s] - Taken(s) = runcount[s] + k * RunMod
      BY <2>1 DEF AccrualInv
    <3>3. (due[s] - Taken(s))' = due[s] - Taken(s) + 1
      BY <1>0, <2>2, <3>1
    <3>9. at' = s /\ pc' \in {"call", "consume"} => (due[s] - Taken(s))' >= 1
      BY <1>0, <2>1, <3>3 DEF AccrualInv
    <3>4. CASE runcount[s] + 1 = RunMod
      <4>1. runcount'[s] = 0
        BY <1>0, <3>1, <3>4, WrapUp
      <4>2. k + 1 \in Nat /\ due[s] - Taken(s) + 1 = 0 + (k + 1) * RunMod
        <5>1. /\ due[s] - Taken(s) \in Int /\ runcount[s] \in Nat
              /\ due[s] - Taken(s) = runcount[s] + k * RunMod
              /\ runcount[s] + 1 = RunMod /\ RunMod \in Nat
          BY <1>0, <3>2, <3>4
        <5> QED
          BY <5>1, <3>2, TurnOver
      <4>3. \E j \in Nat : (due[s] - Taken(s))' = runcount'[s] + j * RunMod
        BY <3>3, <4>1, <4>2
      <4> QED
        BY <3>9, <4>3
    <3>5. CASE runcount[s] + 1 # RunMod
      <4>1. runcount'[s] = runcount[s] + 1
        BY <1>0, <3>1, <3>5, WrapUp
      <4>2. due[s] - Taken(s) + 1 = (runcount[s] + 1) + k * RunMod
        BY <1>0, <3>2
      <4>3. \E j \in Nat : (due[s] - Taken(s))' = runcount'[s] + j * RunMod
        BY <3>3, <4>1, <4>2
      <4> QED
        BY <3>9, <4>3
    <3> QED
      BY <3>4, <3>5
  <2> QED
    BY <2>3, <2>4
<1>4. CASE DispatchTest
  <2>1. UNCHANGED <<reload, runcount, due, ran>> /\ pc = "test"
        /\ \/ pc' = "call" /\ at' = at /\ runcount[at] # 0
           \/ pc' = "test"
    BY <1>4 DEF DispatchTest, IsDue, slotVars, history
  <2>2. Taken(s)' = Taken(s)
    BY <2>1 DEF Taken
  <2>3. PICK k \in Nat : due[s] - Taken(s) = runcount[s] + k * RunMod
    BY <2>1 DEF AccrualInv
  <2>4. k * RunMod \in Nat
    BY <1>0
  <2>5. (due[s] - Taken(s))' = due[s] - Taken(s) /\ runcount'[s] = runcount[s]
    BY <2>1, <2>2
  <2>6. at' = s /\ pc' \in {"call", "consume"} => due[s] - Taken(s) >= 1
    BY <1>0, <2>1, <2>3, <2>4
  <2> QED
    BY <2>3, <2>5, <2>6
<1>5. CASE DispatchCall
  <2>1. UNCHANGED <<reload, runcount, due, at>> /\ pc = "call" /\ pc' = "consume"
    BY <1>5 DEF DispatchCall, slotVars
  <2>2. occupied[s]
    BY <2>1 DEF TableInv
  <2>3. ran'[s] = IF at = s THEN ran[s] + 1 ELSE ran[s]
    BY <1>5, <2>2 DEF DispatchCall, TypeOK
  <2>4. Taken(s)' = Taken(s)
    BY <1>0, <2>1, <2>3 DEF Taken
  <2> QED
    BY <2>1, <2>4 DEF AccrualInv
<1>6. CASE DispatchConsume
  <2>1. UNCHANGED <<reload, due, ran, at>> /\ pc = "consume" /\ pc' = "reload"
    BY <1>6 DEF DispatchConsume, history
  <2>2. CASE at # s
    <3>1. runcount'[s] = runcount[s] /\ Taken(s)' = Taken(s)
      BY <1>6, <2>1, <2>2 DEF DispatchConsume, TypeOK, Taken
    <3> QED
      BY <2>1, <2>2, <3>1 DEF AccrualInv
  <2>3. CASE at = s
    <3>1. runcount'[s] = Consumed(s) /\ Taken(s)' = Taken(s) + 1
      BY <1>0, <1>6, <2>1, <2>3 DEF DispatchConsume, TypeOK, Taken
    <3>2. PICK k \in Nat : due[s] - Taken(s) = runcount[s] + k * RunMod
      BY <2>1 DEF AccrualInv
    <3>3. due[s] - Taken(s) >= 1
      BY <2>1, <2>3 DEF AccrualInv
    <3>4. (due[s] - Taken(s))' = due[s] - Taken(s) - 1
      BY <1>0, <2>1, <3>1
    <3>5. CASE runcount[s] # 0
      <4>1. runcount'[s] = runcount[s] - 1
        BY <1>0, <3>1, <3>5, WrapDown
      <4>2. due[s] - Taken(s) - 1 = (runcount[s] - 1) + k * RunMod
        BY <1>0, <3>2
      <4> QED
        BY <2>1, <3>4, <4>1, <4>2
    <3>6. CASE runcount[s] = 0
      <4>1. runcount'[s] = RunMod - 1
        BY <1>0, <3>1, <3>6, WrapDown
      <4>2. k # 0
        BY <1>0, <3>2, <3>3, <3>6
      <4>3. k - 1 \in Nat /\ due[s] - Taken(s) - 1 = (RunMod - 1) + (k - 1) * RunMod
        <5>1. k * RunMod \in Nat /\ (k - 1) * RunMod = k * RunMod - RunMod
          BY <1>0, <4>2, Turns
        <5> QED
          BY <1>0, <3>2, <3>6, <4>2, <5>1
      <4> QED
        BY <2>1, <3>4, <4>1, <4>3
    <3> QED
      BY <3>5, <3>6
  <2> QED
    BY <2>2, <2>3
<1>7. CASE DispatchReload
  <2>1. UNCHANGED <<reload, runcount, due, ran>> /\ pc = "reload"
        /\ pc' \in {"clearCallback", "test"}
    BY <1>7 DEF DispatchReload, slotVars, history
  <2>2. Taken(s)' = Taken(s)
    BY <2>1 DEF Taken
  <2> QED
    BY <2>1, <2>2 DEF AccrualInv
<1>8. CASE ClearSlot
  <2>1. reload[s] # 0 /\ at # s
    BY <1>8 DEF ClearSlot, TableInv, TypeOK, ClearPcs
  <2>2. reload'[s] = reload[s] /\ runcount'[s] = runcount[s] /\ due' = due /\ ran' = ran
        /\ pc \in ClearPcs /\ pc' \in ClearPcs \cup {"test"}
    BY <1>8, <2>1 DEF ClearSlot, TypeOK, history, ClearPcs
  <2>3. Taken(s)' = Taken(s)
    BY <2>2 DEF Taken, ClearPcs
  <2> QED
    BY <2>1, <2>2, <2>3 DEF AccrualInv, ClearPcs
<1>9. CASE SysTick \/ TickTest \/ TickLoad \/ TickCountDown \/ TickReload \/ UNCHANGED vars
  BY <1>2, <1>9 DEF SysTick, TickTest, TickLoad, TickCountDown, TickReload, vars, slotVars,
                    history
<1> QED
  BY <1>1, <1>3, <1>4, <1>5, <1>6, <1>7, <1>8, <1>9 DEF Next, TickStep, DispatchStep

\* No tick is lost while the backlog of a periodic slot stays below the width of its
\* runcount (256): every event is either run or still counted, wherever a tick lands in
\* a dispatch pass.
THEOREM NoEventLostHolds == Spec => []NoEventLost
<1> DEFINE Counted == TypeOK /\ TableInv /\ \A s \in Slots : AccrualInv(s)
<1>1. Init => Counted
  <2> SUFFICES ASSUME Init PROVE Counted
    OBVIOUS
  <2>1. TypeOK
    BY Zeros DEF Init, TypeOK
  <2> QED
    BY <2>1 DEF Init, TableInv, AccrualInv, ClearPcs, Zero
<1>2. Counted /\ [Next]_vars => Counted'
  BY TypeStep, TableStep, AccrualStep
<1>3. Counted => NoEventLost
  <2> SUFFICES ASSUME Counted, NEW s \in Slots, reload[s] # 0, due[s] - Taken(s) < RunMod
               PROVE  occupied[s] /\ runcount[s] = due[s] - Taken(s)
    BY DEF NoEventLost
  <2>1. RunMod \in Nat \ {0, 1} /\ runcount[s] \in 0 .. RunMod - 1
    BY Widths DEF TypeOK
  <2>2. PICK k \in Nat : due[s] - Taken(s) = runcount[s] + k * RunMod
    BY DEF AccrualInv
  <2>3. k * RunMod = 0
    BY <2>1, <2>2
  <2> QED
    BY <2>1, <2>2, <2>3 DEF TableInv
<1> HIDE DEF Counted
<1> QED
  BY <1>1, <1>2, <1>3, PTL DEF Spec

-----------------------------------------------------------------------------
(* The cadence: a counter holds the distance to the next event, except in *)
(* the one step of tick between the accrual and the reload.               *)

CadenceInv(s) ==
  reload[s] # 0 =>
    /\ tickPc = "act" /\ tickAt = s => seen = counter[s]
    /\ IF tickPc = "reload" /\ tickAt = s
       THEN /\ counter[s] = 0 /\ due[s] # 0
            /\ Handled(s) = first[s] + (due[s] - 1) * reload[s] + 1
       ELSE /\ counter[s] + Handled(s) = first[s] + due[s] * reload[s]
            /\ due[s] # 0 => counter[s] < reload[s]

\* What moving on to the next slot does to the ticks that are done with a slot.
LEMMA HandledNext ==
  ASSUME TypeOK, NEW s \in Slots, tickPc # "idle", TickNextSlot, ticks' = ticks
  PROVE  /\ s # tickAt => Handled(s)' = Handled(s)
         /\ s = tickAt => Handled(s)' = ticks
         /\ tickPc' # "act" /\ tickPc' # "reload"
<1>1. NSlot \in Nat \ {0} /\ s \in 0 .. NSlot - 1 /\ tickAt \in 0 .. NSlot - 1
  BY Widths DEF Slots, TypeOK
<1>2. CASE tickAt + 1 \in Slots
  <2>1. tickPc' = "test" /\ tickAt' = tickAt + 1
    BY <1>2 DEF TickNextSlot
  <2> QED
    BY <1>1, <2>1 DEF Handled, TypeOK
<1>3. CASE tickAt + 1 \notin Slots
  <2>1. tickPc' = "idle" /\ s <= tickAt
    BY <1>1, <1>3 DEF TickNextSlot, Slots
  <2> QED
    BY <1>1, <2>1 DEF Handled, TypeOK
<1> QED
  BY <1>2, <1>3

LEMMA CadenceStep ==
  ASSUME TypeOK, TableInv, [Next]_vars, NEW s \in Slots, CadenceInv(s)
  PROVE  CadenceInv(s)'
<1> SUFFICES ASSUME reload'[s] # 0 PROVE CadenceInv(s)'
  BY DEF CadenceInv
<1>0. /\ ticks \in Nat /\ counter[s] \in Nat /\ reload[s] \in Nat /\ first[s] \in Nat
      /\ due[s] \in Nat /\ s \in Nat /\ tickAt \in Nat
  BY Widths DEF TypeOK, Slots
<1>1. CASE \/ \E r \in Registrations : Register(r[1], r[2])
           \/ \E q \in Slots : Unregister(q)
           \/ SystickInit
           \/ MarkTickSourceEnabled
  <2>1. ~enabled
    BY <1>1 DEF Register, Unregister, SystickInit, MarkTickSourceEnabled
  <2>2. /\ ticks' = 0 /\ tickPc' = "idle" /\ due'[s] = 0 /\ counter'[s] = first'[s]
        /\ first'[s] \in Nat
    BY <1>1, <2>1, BringUpStep
  <2>3. reload'[s] \in Nat
    BY TypeStep DEF TypeOK
  <2>4. Handled(s)' = 0
    BY <2>2 DEF Handled
  <2>5. 0 * reload'[s] = 0
    BY <2>3
  <2> QED
    BY <2>2, <2>4, <2>5 DEF CadenceInv
<1>2. ASSUME UNCHANGED <<reload, counter, due, first, ticks, tickPc, tickAt, seen>>
      PROVE  CadenceInv(s)'
  BY <1>2 DEF CadenceInv, Handled
<1>3. CASE SysTick
  <2>1. /\ UNCHANGED <<reload, counter, due, first>> /\ tickPc = "idle" /\ ticks' = ticks + 1
        /\ tickPc' = "test" /\ tickAt' = 0
    BY <1>3 DEF SysTick, slotVars, history
  <2>2. Handled(s)' = Handled(s)
    BY <1>0, <2>1 DEF Handled
  <2> QED
    BY <2>1, <2>2 DEF CadenceInv
<1>4. CASE TickTest
  <2>1. UNCHANGED <<reload, counter, due, first, ticks>> /\ tickPc = "test"
    BY <1>4 DEF TickTest, slotVars, history
  <2>2. CASE occupied[tickAt]
    <3>1. tickPc' = "load" /\ tickAt' = tickAt
      BY <1>4, <2>2 DEF TickTest
    <3>2. Handled(s)' = Handled(s)
      BY <2>1, <3>1 DEF Handled
    <3> QED
      BY <2>1, <3>1, <3>2 DEF CadenceInv
  <2>3. CASE ~occupied[tickAt]
    <3>1. TickNextSlot /\ s # tickAt
      BY <1>4, <2>1, <2>3 DEF TickTest, TableInv
    <3>2. Handled(s)' = Handled(s) /\ tickPc' # "act" /\ tickPc' # "reload"
      BY <2>1, <3>1, HandledNext
    <3> QED
      BY <2>1, <3>2 DEF CadenceInv
  <2> QED
    BY <2>2, <2>3
<1>5. CASE TickLoad
  <2>1. /\ UNCHANGED <<reload, counter, due, first, ticks, tickAt>> /\ tickPc = "load"
        /\ tickPc' = "act" /\ seen' = counter[tickAt]
    BY <1>5 DEF TickLoad, slotVars, history
  <2>2. Handled(s)' = Handled(s)
    BY <2>1 DEF Handled
  <2> QED
    BY <2>1, <2>2 DEF CadenceInv
<1>6. CASE TickCountDown
  <2>1. UNCHANGED <<reload, due, first, ticks>> /\ tickPc = "act" /\ TickNextSlot /\ seen # 0
    BY <1>6 DEF TickCountDown, history
  <2>2. tickPc' # "act" /\ tickPc' # "reload"
    BY <2>1, HandledNext
  <2>3. CASE tickAt # s
    <3>1. Handled(s)' = Handled(s) /\ counter'[s] = counter[s]
      BY <1>6, <2>1, <2>3, HandledNext DEF TickCountDown, TypeOK
    <3> QED
      BY <2>1, <2>2, <3>1 DEF CadenceInv
  <2>4. CASE tickAt = s
    <3>1. seen = counter[s] /\ counter'[s] = counter[s] - 1
      BY <1>6, <2>1, <2>4 DEF TickCountDown, TypeOK, CadenceInv
    <3>2. Handled(s) = ticks - 1 /\ Handled(s)' = ticks
      BY <2>1, <2>4, HandledNext DEF Handled
    <3>3. /\ counter[s] + (ticks - 1) = first[s] + due[s] * reload[s]
          /\ due[s] # 0 => counter[s] < reload[s]
      BY <2>1, <3>2 DEF CadenceInv
    <3>4. (counter[s] - 1) + ticks = counter[s] + (ticks - 1)
      BY <1>0
    <3>5. due[s] # 0 => counter[s] - 1 < reload[s]
      BY <1>0, <3>3
    <3> QED
      BY <2>1, <2>2, <3>1, <3>2, <3>3, <3>4, <3>5 DEF CadenceInv
  <2> QED
    BY <2>3, <2>4
<1>7. CASE TickAccrue
  <2>1. /\ UNCHANGED <<reload, counter, first, ticks, tickAt>> /\ tickPc = "act" /\ seen = 0
        /\ tickPc' = "reload"
    BY <1>7 DEF TickAccrue
  <2>2. CASE tickAt # s
    <3>1. Handled(s)' = Handled(s) /\ due'[s] = due[s]
      BY <1>7, <2>1, <2>2 DEF TickAccrue, TypeOK, Handled
    <3> QED
      BY <2>1, <2>2, <3>1 DEF CadenceInv
  <2>3. CASE tickAt = s
    <3>1. due'[s] = due[s] + 1 /\ counter[s] = 0
      BY <1>7, <2>1, <2>3 DEF TickAccrue, TypeOK, CadenceInv
    <3>2. Handled(s) = ticks - 1 /\ Handled(s)' = ticks
      BY <1>0, <2>1, <2>3 DEF Handled
    <3>3. 0 + (ticks - 1) = first[s] + due[s] * reload[s]
      BY <2>1, <3>1, <3>2 DEF CadenceInv
    <3>4. due[s] + 1 # 0 /\ (due[s] + 1) - 1 = due[s]
      BY <1>0
    <3>5. due[s] * reload[s] \in Nat
      BY <1>0
    <3>6. ticks = first[s] + due[s] * reload[s] + 1
      BY <1>0, <3>3, <3>5
    <3> QED
      BY <2>1, <2>3, <3>1, <3>2, <3>4, <3>6 DEF CadenceInv
  <2> QED
    BY <2>2, <2>3
<1>8. CASE TickReload
  <2>1. UNCHANGED <<reload, due, first, ticks>> /\ tickPc = "reload" /\ TickNextSlot
    BY <1>8 DEF TickReload, history
  <2>2. tickPc' # "act" /\ tickPc' # "reload"
    BY <2>1, HandledNext
  <2>3. CASE tickAt # s
    <3>1. Handled(s)' = Handled(s) /\ counter'[s] = counter[s]
      BY <1>8, <2>1, <2>3, HandledNext DEF TickReload, TypeOK
    <3> QED
      BY <2>1, <2>2, <2>3, <3>1 DEF CadenceInv
  <2>4. CASE tickAt = s
    <3>1. counter'[s] = reload[s] - 1
      BY <1>8, <2>1, <2>4 DEF TickReload, Reloaded, TypeOK
    <3>2. Handled(s) = ticks /\ Handled(s)' = ticks
      BY <1>0, <2>1, <2>4, HandledNext DEF Handled
    <3>3. due[s] # 0 /\ ticks = first[s] + (due[s] - 1) * reload[s] + 1
      BY <2>1, <2>4, <3>2 DEF CadenceInv
    <3>4. (due[s] - 1) * reload[s] = due[s] * reload[s] - reload[s]
          /\ due[s] * reload[s] \in Nat
      BY <1>0
    <3>5. (reload[s] - 1) + ticks = first[s] + due[s] * reload[s]
      BY <1>0, <3>3, <3>4
    <3>6. reload[s] - 1 < reload[s]
      BY <1>0
    <3> QED
      BY <2>1, <2>2, <3>1, <3>2, <3>5, <3>6 DEF CadenceInv
  <2> QED
    BY <2>3, <2>4
<1>9. CASE ClearSlot
  <2>1. reload[s] # 0 /\ at # s
    BY <1>9 DEF ClearSlot, TableInv, TypeOK, ClearPcs
  <2>2. /\ reload'[s] = reload[s] /\ counter'[s] = counter[s]
        /\ UNCHANGED <<due, first, ticks, tickPc, tickAt, seen>>
    BY <1>9, <2>1 DEF ClearSlot, TypeOK, history, tickVars
  <2> QED
    BY <2>2 DEF CadenceInv, Handled
<1>10. CASE \/ DispatchTest \/ DispatchCall \/ DispatchConsume \/ DispatchReload
            \/ UNCHANGED vars
  BY <1>2, <1>10 DEF DispatchTest, DispatchCall, DispatchConsume, DispatchReload, vars,
                     slotVars, tickVars, history
<1> QED
  BY <1>1, <1>3, <1>4, <1>5, <1>6, <1>7, <1>8, <1>9, <1>10 DEF Next, TickStep, DispatchStep

\* A periodic slot's events fall on its ticks exactly, however late dispatch runs them.
THEOREM OnCadenceHolds == Spec => []OnCadence
<1> DEFINE Timed == TypeOK /\ TableInv /\ \A s \in Slots : CadenceInv(s)
<1>1. Init => Timed
  <2> SUFFICES ASSUME Init PROVE Timed
    OBVIOUS
  <2>1. TypeOK
    BY Zeros DEF Init, TypeOK
  <2> QED
    BY <2>1 DEF Init, TableInv, CadenceInv, ClearPcs, Zero
<1>2. Timed /\ [Next]_vars => Timed'
  BY TypeStep, TableStep, CadenceStep
<1>3. Timed => OnCadence
  <2> SUFFICES ASSUME Timed, NEW s \in Slots, reload[s] # 0
               PROVE  /\ Handled(s) <= first[s] + due[s] * reload[s]
                      /\ due[s] # 0 => first[s] + (due[s] - 1) * reload[s] < Handled(s)
    BY DEF OnCadence
  <2>1. /\ ticks \in Nat /\ counter[s] \in Nat /\ reload[s] \in Nat \ {0}
        /\ first[s] \in Nat /\ due[s] \in Nat /\ Handled(s) \in Int
    BY DEF TypeOK, Handled
  <2>2. (due[s] - 1) * reload[s] = due[s] * reload[s] - reload[s] /\ due[s] * reload[s] \in Nat
    BY <2>1
  <2>3. CASE tickPc = "reload" /\ tickAt = s
    BY <2>1, <2>2, <2>3 DEF CadenceInv
  <2>4. CASE ~(tickPc = "reload" /\ tickAt = s)
    BY <2>1, <2>2, <2>4 DEF CadenceInv
  <2> QED
    BY <2>3, <2>4
<1> HIDE DEF Timed
<1> QED
  BY <1>1, <1>2, <1>3, PTL DEF Spec

-----------------------------------------------------------------------------
(* A one-shot that has run is on its way out of the table. *)

OneShotInv(s) ==
  reload[s] = 0 =>
    /\ ran[s] <= 1
    /\ \/ ran[s] = 0
       \/ ~occupied[s]
       \/ at = s /\ pc \in {"consume", "reload", "clearCallback"}

LEMMA OneShotStep ==
  ASSUME TypeOK, TableInv, [Next]_vars, NEW s \in Slots, OneShotInv(s)
  PROVE  OneShotInv(s)'
<1>1. CASE \/ \E r \in Registrations : Register(r[1], r[2])
           \/ \E q \in Slots : Unregister(q)
           \/ SystickInit
           \/ MarkTickSourceEnabled
  <2>1. ~enabled
    BY <1>1 DEF Register, Unregister, SystickInit, MarkTickSourceEnabled
  <2> QED
    BY <1>1, <2>1, BringUpStep DEF OneShotInv
<1>2. CASE UNCHANGED <<reload, ran, occupied, at, pc>>
  BY <1>2 DEF OneShotInv
<1>3. CASE DispatchTest
  BY <1>3 DEF DispatchTest, OneShotInv, slotVars, history
<1>4. CASE DispatchCall
  <2>1. UNCHANGED <<reload, occupied, at>> /\ pc = "call" /\ pc' = "consume"
    BY <1>4 DEF DispatchCall, slotVars
  <2>2. CASE at = s /\ occupied[s]
    <3>1. ran'[s] = ran[s] + 1 /\ (reload[s] = 0 => ran[s] = 0)
      BY <1>4, <2>1, <2>2 DEF DispatchCall, TypeOK, OneShotInv
    <3> QED
      BY <2>1, <2>2, <3>1 DEF OneShotInv
  <2>3. CASE ~(at = s /\ occupied[s])
    <3>1. ran'[s] = ran[s]
      BY <1>4, <2>3 DEF DispatchCall, TypeOK
    <3> QED
      BY <2>1, <2>3, <3>1 DEF OneShotInv
  <2> QED
    BY <2>2, <2>3
<1>5. CASE DispatchConsume
  BY <1>5 DEF DispatchConsume, OneShotInv, history
<1>6. CASE DispatchReload
  BY <1>6 DEF DispatchReload, Removes, OneShotInv, slotVars, history, TypeOK
<1>7. CASE ClearSlot
  <2>1. ran' = ran /\ reload[at] = 0 /\ reload'[s] = reload[s]
    BY <1>7 DEF ClearSlot, TableInv, ClearPcs, history, TypeOK
  <2>2. CASE pc = "clearCallback"
    BY <1>7, <2>1, <2>2 DEF ClearSlot, OneShotInv, TypeOK
  <2>3. CASE pc # "clearCallback"
    BY <1>7, <2>1, <2>3 DEF ClearSlot, OneShotInv
  <2> QED
    BY <2>2, <2>3
<1>8. CASE SysTick \/ TickStep \/ UNCHANGED vars
  BY <1>2, <1>8 DEF SysTick, TickStep, TickTest, TickLoad, TickCountDown, TickAccrue,
                    TickReload, vars, slotVars, history
<1> QED
  BY <1>1, <1>3, <1>4, <1>5, <1>6, <1>7, <1>8 DEF Next, DispatchStep

\* A one-shot runs at most once, however many events it accrued before its removal and
\* wherever in the removal a tick lands.
THEOREM OneShotOnceHolds == Spec => []OneShotOnce
<1> DEFINE Spent == TypeOK /\ TableInv /\ \A s \in Slots : OneShotInv(s)
<1>1. Init => Spent
  <2> SUFFICES ASSUME Init PROVE Spent
    OBVIOUS
  <2>1. TypeOK
    BY Zeros DEF Init, TypeOK
  <2> QED
    BY <2>1 DEF Init, TableInv, OneShotInv, ClearPcs, Zero
<1>2. Spent /\ [Next]_vars => Spent'
  BY TypeStep, TableStep, OneShotStep
<1>3. Spent => OneShotOnce
  BY DEF OneShotOnce, OneShotInv
<1> HIDE DEF Spent
<1> QED
  BY <1>1, <1>2, <1>3, PTL DEF Spec
=============================================================================
