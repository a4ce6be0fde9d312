------------------------------ MODULE Scheduler ------------------------------
(***************************************************************************)
(* The outer-task scheduler (motorcontroller/scheduler).  The SysTick      *)
(* handler's tick advances every occupied slot's down-counter and accrues  *)
(* due events in its runcount; the main loop's dispatch runs each due slot *)
(* at most once per pass and consumes one event, and frees a one-shot.     *)
(*                                                                         *)
(* Each load, store and read-modify-write of a slot is a step of its own,  *)
(* so tick lands anywhere in dispatch.  On the parts the tick preempts the *)
(* thread and runs to its end; with Concurrent the two contexts interleave *)
(* freely, as in the crate's threaded test.  The table is filled before    *)
(* the tick source is enabled and by nobody afterwards.                    *)
(***************************************************************************)
EXTENDS Integers

CONSTANTS
  NSlot,          \* slots of the table, 4 in the code
  RunMod,         \* the width of a runcount: 256 in the code
  Registrations,  \* the <<initial counter, reload>> pairs a caller registers; reload 0: a one-shot
  MaxTicks,       \* bound: ticks of a run
  Concurrent      \* dispatch may step while a tick is half done

ASSUME NSlotAssumption == NSlot \in Nat \ {0}
ASSUME RunModAssumption == RunMod \in Nat \ {0, 1}
ASSUME RegistrationsAssumption == Registrations \subseteq Nat \X Nat
ASSUME MaxTicksAssumption == MaxTicks \in Nat

VARIABLES
  occupied,   \* per slot: its callback is not null
  counter, reload, runcount,
  status, enabled,
  ticks,      \* SysTick entries so far
  tickPc, tickAt, seen,   \* where tick is, on which slot, and the counter it loaded
  pc, at,                 \* where dispatch is, and on which slot
  first,      \* per slot, history: the initial counter it was registered with
  due, ran    \* per slot, history: events accrued, callbacks run

slotVars == <<occupied, counter, reload, runcount>>
tickVars == <<ticks, tickPc, tickAt, seen>>
history == <<first, due, ran>>
vars == <<slotVars, status, enabled, tickVars, pc, at, history>>

Slots == 0 .. NSlot - 1
ClearPcs == {"clearCallback", "clearCounter", "clearReload", "clearRuncount"}

TypeOK ==
  /\ occupied \in [Slots -> BOOLEAN]
  /\ counter \in [Slots -> Nat] /\ reload \in [Slots -> Nat]
  /\ runcount \in [Slots -> 0 .. RunMod - 1]
  /\ status \in {"None", "Full", "UnregisterEmpty"} /\ enabled \in BOOLEAN
  /\ ticks \in Nat /\ tickPc \in {"idle", "test", "load", "act", "reload"}
  /\ tickAt \in Slots /\ seen \in Nat
  /\ pc \in {"test", "call", "consume", "reload"} \cup ClearPcs /\ at \in Slots
  /\ first \in [Slots -> Nat] /\ due \in [Slots -> Nat] /\ ran \in [Slots -> Nat]

Zero == [s \in Slots |-> 0]

Init ==
  /\ occupied = [s \in Slots |-> FALSE]
  /\ counter = Zero /\ reload = Zero /\ runcount = Zero
  /\ status = "None" /\ enabled = FALSE
  /\ ticks = 0 /\ tickPc = "idle" /\ tickAt = 0 /\ seen = 0
  /\ pc = "test" /\ at = 0
  /\ first = Zero /\ due = Zero /\ ran = Zero

-----------------------------------------------------------------------------
(* Bring-up: single-threaded, before the tick source is enabled. *)

LowestFree(s) == ~occupied[s] /\ \A r \in Slots : r < s => occupied[r]

Register(initial, period) ==
  /\ ~enabled
  /\ \/ \E s \in Slots :
          /\ LowestFree(s)
          /\ counter' = [counter EXCEPT ![s] = initial]
          /\ reload' = [reload EXCEPT ![s] = period]
          /\ runcount' = [runcount EXCEPT ![s] = 0]
          /\ occupied' = [occupied EXCEPT ![s] = TRUE]
          /\ first' = [first EXCEPT ![s] = initial]
          /\ UNCHANGED status
     \/ /\ \A s \in Slots : occupied[s]
        /\ status' = "Full"
        /\ UNCHANGED <<slotVars, first>>
  /\ UNCHANGED <<enabled, tickVars, pc, at, due, ran>>

\* Every field goes back to its free value, the status only on a slot already free.
Unregister(s) ==
  /\ ~enabled
  /\ status' = IF occupied[s] THEN status ELSE "UnregisterEmpty"
  /\ occupied' = [occupied EXCEPT ![s] = FALSE]
  /\ counter' = [counter EXCEPT ![s] = 0]
  /\ reload' = [reload EXCEPT ![s] = 0]
  /\ runcount' = [runcount EXCEPT ![s] = 0]
  /\ first' = [first EXCEPT ![s] = 0]
  /\ UNCHANGED <<enabled, tickVars, pc, at, due, ran>>

SystickInit ==
  /\ ~enabled
  /\ occupied' = [s \in Slots |-> FALSE]
  /\ counter' = Zero /\ reload' = Zero /\ runcount' = Zero /\ first' = Zero
  /\ status' = "None"
  /\ UNCHANGED <<enabled, tickVars, pc, at, due, ran>>

MarkTickSourceEnabled ==
  /\ ~enabled /\ enabled' = TRUE
  /\ UNCHANGED <<slotVars, status, tickVars, pc, at, history>>

-----------------------------------------------------------------------------
(* tick: every occupied slot counts down, or accrues an event and reloads. *)

\* Mutant: the period is one tick long.
ReloadedLate(period) == period

RunAdd(n) == (n + 1) % RunMod
Reloaded(period) == period - 1

SysTick ==
  /\ enabled /\ tickPc = "idle" /\ ticks < MaxTicks
  /\ ticks' = ticks + 1 /\ tickPc' = "test" /\ tickAt' = 0
  /\ UNCHANGED <<slotVars, status, enabled, seen, pc, at, history>>

TickNextSlot ==
  IF tickAt + 1 \in Slots THEN tickPc' = "test" /\ tickAt' = tickAt + 1
                          ELSE tickPc' = "idle" /\ tickAt' = 0

TickTest ==
  /\ tickPc = "test"
  /\ IF occupied[tickAt] THEN tickPc' = "load" /\ UNCHANGED tickAt ELSE TickNextSlot
  /\ UNCHANGED <<slotVars, status, enabled, ticks, seen, pc, at, history>>

TickLoad ==
  /\ tickPc = "load"
  /\ seen' = counter[tickAt] /\ tickPc' = "act"
  /\ UNCHANGED <<slotVars, status, enabled, ticks, tickAt, pc, at, history>>

TickCountDown ==
  /\ tickPc = "act" /\ seen # 0
  /\ counter' = [counter EXCEPT ![tickAt] = seen - 1]
  /\ TickNextSlot
  /\ UNCHANGED <<occupied, reload, runcount, status, enabled, ticks, seen, pc, at, history>>

TickAccrue ==
  /\ tickPc = "act" /\ seen = 0
  /\ runcount' = [runcount EXCEPT ![tickAt] = RunAdd(runcount[tickAt])]
  /\ due' = [due EXCEPT ![tickAt] = @ + 1]
  /\ tickPc' = "reload"
  /\ UNCHANGED <<occupied, counter, reload, status, enabled, ticks, tickAt, seen, pc, at,
                 first, ran>>

TickReload ==
  /\ tickPc = "reload"
  /\ counter' = IF reload[tickAt] = 0 THEN counter
                ELSE [counter EXCEPT ![tickAt] = Reloaded(reload[tickAt])]
  /\ TickNextSlot
  /\ UNCHANGED <<occupied, reload, runcount, status, enabled, ticks, seen, pc, at, history>>

TickStep == TickTest \/ TickLoad \/ TickCountDown \/ TickAccrue \/ TickReload

-----------------------------------------------------------------------------
(* dispatch: one pass after another over the slots, in ascending order. *)

MayDispatch == enabled /\ (Concurrent \/ tickPc = "idle")

NextSlot(s) == IF s + 1 \in Slots THEN s + 1 ELSE 0

\* Mutant: a single pending event is not enough.
IsDueTwice(s) == runcount[s] > 1
\* Mutant: one run takes all the pending events.
ConsumedAll(s) == 0
\* Mutant: a one-shot is removed once it is drained.
RemovesDrained(s) == reload[s] = 0 /\ runcount[s] = 0

IsDue(s) == runcount[s] # 0
Consumed(s) == (runcount[s] - 1) % RunMod
Removes(s) == reload[s] = 0

DispatchTest ==
  /\ MayDispatch /\ pc = "test"
  /\ IF IsDue(at) THEN pc' = "call" /\ UNCHANGED at ELSE at' = NextSlot(at) /\ UNCHANGED pc
  /\ UNCHANGED <<slotVars, status, enabled, tickVars, history>>

\* The callback of an occupied slot runs; a free slot's count is only consumed.
DispatchCall ==
  /\ MayDispatch /\ pc = "call"
  /\ ran' = IF occupied[at] THEN [ran EXCEPT ![at] = @ + 1] ELSE ran
  /\ pc' = "consume"
  /\ UNCHANGED <<slotVars, status, enabled, tickVars, at, first, due>>

DispatchConsume ==
  /\ MayDispatch /\ pc = "consume"
  /\ runcount' = [runcount EXCEPT ![at] = Consumed(at)]
  /\ pc' = "reload"
  /\ UNCHANGED <<occupied, counter, reload, status, enabled, tickVars, at, history>>

DispatchReload ==
  /\ MayDispatch /\ pc = "reload"
  /\ IF Removes(at) THEN pc' = "clearCallback" /\ UNCHANGED at
                    ELSE pc' = "test" /\ at' = NextSlot(at)
  /\ UNCHANGED <<slotVars, status, enabled, tickVars, history>>

\* clear_slot: four stores, the occupancy first.
ClearSlot ==
  /\ MayDispatch
  /\ \/ /\ pc = "clearCallback" /\ pc' = "clearCounter"
        /\ occupied' = [occupied EXCEPT ![at] = FALSE]
        /\ UNCHANGED <<counter, reload, runcount, at>>
     \/ /\ pc = "clearCounter" /\ pc' = "clearReload"
        /\ counter' = [counter EXCEPT ![at] = 0]
        /\ UNCHANGED <<occupied, reload, runcount, at>>
     \/ /\ pc = "clearReload" /\ pc' = "clearRuncount"
        /\ reload' = [reload EXCEPT ![at] = 0]
        /\ UNCHANGED <<occupied, counter, runcount, at>>
     \/ /\ pc = "clearRuncount" /\ pc' = "test" /\ at' = NextSlot(at)
        /\ runcount' = [runcount EXCEPT ![at] = 0]
        /\ UNCHANGED <<occupied, counter, reload>>
  /\ UNCHANGED <<status, enabled, tickVars, history>>

DispatchStep ==
  DispatchTest \/ DispatchCall \/ DispatchConsume \/ DispatchReload \/ ClearSlot

Next ==
  \/ \E r \in Registrations : Register(r[1], r[2])
  \/ \E s \in Slots : Unregister(s)
  \/ SystickInit
  \/ MarkTickSourceEnabled
  \/ SysTick
  \/ TickStep
  \/ DispatchStep

Spec == Init /\ [][Next]_vars

\* The handler runs to its end and the main loop calls dispatch for ever.
FairSpec == Spec /\ WF_vars(TickStep) /\ WF_vars(DispatchStep)

-----------------------------------------------------------------------------
(* Properties. *)

\* Events of a slot that a callback has been run for and consumed.
Taken(s) == IF pc = "consume" /\ at = s THEN ran[s] - 1 ELSE ran[s]

\* "No tick lost": as long as the main loop keeps a periodic slot's backlog below the
\* width of its runcount, every accrued event is either run or still pending, wherever a
\* tick lands in a dispatch pass; none is run twice.
NoEventLost ==
  \A s \in Slots :
    /\ reload[s] # 0
    /\ due[s] - Taken(s) < RunMod
    => /\ occupied[s]
       /\ runcount[s] = due[s] - Taken(s)

\* The ticks that have finished with slot s.
Handled(s) ==
  IF \/ tickPc # "idle" /\ tickAt < s
     \/ tickPc \in {"test", "load", "act"} /\ tickAt = s
  THEN ticks - 1 ELSE ticks

\* A periodic slot's events fall on ticks first + 1, first + 1 + reload, ... exactly,
\* however late dispatch is: the control pass is due on every tick without drift.
OnCadence ==
  \A s \in Slots :
    reload[s] # 0 =>
      /\ Handled(s) <= first[s] + due[s] * reload[s]
      /\ due[s] # 0 => first[s] + (due[s] - 1) * reload[s] < Handled(s)

\* A one-shot runs once, although it accrues an event on every tick until it is removed,
\* and a tick caught between two stores of the removal revives nothing.
OneShotOnce ==
  \A s \in Slots : reload[s] = 0 => ran[s] <= 1

\* Every due event is run in the end, unless the backlog outgrew the runcount.
DueRuns ==
  \A s \in Slots : \A k \in 1 .. MaxTicks :
    (due[s] = k /\ occupied[s])
      ~> (ran[s] >= k \/ ~occupied[s] \/ due[s] - ran[s] >= RunMod)
=============================================================================
