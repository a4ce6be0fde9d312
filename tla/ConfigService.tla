--------------------------- MODULE ConfigService ---------------------------
(***************************************************************************)
(* The writers of the store, on the one thread that also mounts it: the    *)
(* L3 responder's CONFIG_WRITE, CONFIG_WRITE_MULTI, CONFIG_COMPACT and     *)
(* ASSIGN handlers of shared/net, and the odometer of the service loop     *)
(* (firmware/src/odometer.rs), with the arm fact that gates them.          *)
(*                                                                         *)
(* A request is a list of entries, one for CONFIG_WRITE, for ASSIGN and    *)
(* for the odometer, which has no peer: its status is what it settles.     *)
(* Each is a value to store or, with Tomb, a key to un-store; Bad is an    *)
(* entry the responder cannot decode.  The store's own steps are Store's.  *)
(***************************************************************************)
EXTENDS Store, FiniteSets

CONSTANTS
  Requests,   \* the entry lists a peer may send
  Bad,        \* an entry that does not decode, or an unusable value
  AddrKey,    \* NODE_ADDRESS
  OdoKey      \* MOTOR_ODOMETER

ASSUME RequestAssumption ==
  /\ AddrKey \in Key /\ OdoKey \in Key
  /\ Bad \notin [key : Key, val : Value \cup {Tomb}]
  /\ Requests \subseteq Seq([key : Key, val : Value \cup {Tomb}] \cup {Bad}) \ {<<>>}

\* The keys are the rows of the field registry.
ASSUME KeyAssumption == IsFiniteSet(Key)

VARIABLES
  armed,      \* Responder::armed, sampled once per pass
  handler,    \* the writer running: "none", "write", "assign", "compact", "odometer"
  step,       \* where apply_write stands
  entries,    \* the request being served, or the last one served
  done,       \* how many of its entries have been answered CFG_OK
  base,       \* what the store read when the request came in
  status,     \* the last CONFIG_RESP or ASSIGN_ACK status
  addr,       \* the forwarder's own address
  ride        \* the odometer has seen the board armed since its last write attempt

service == <<armed, handler, step, entries, done, base, status, addr, ride>>
allVars == <<vars, service>>

Stored(k) == Find(page[active].log, k)

ServiceInit ==
  /\ Init
  /\ armed = FALSE
  /\ handler = "none" /\ step = "none"
  /\ entries = <<>> /\ done = 0
  /\ base = Recovered(page)
  /\ status = "none"
  /\ addr = Tomb
  /\ ride = FALSE

----------------------------------------------------------------------------
\* Power-up: the mount, then the boot's read of the address.
Boot ==
  /\ MountStep
  /\ addr' = IF pc' = "idle" THEN Find(page'[active'].log, AddrKey) ELSE addr
  /\ UNCHANGED <<armed, handler, step, entries, done, base, status, ride>>

\* The store runs a call of the responder's, or the mount's compaction.
StoreStep ==
  /\ AppendStep \/ CompactStep
  /\ pc' # "off"
  /\ addr' = IF mounting /\ pc' = "idle" THEN Find(page'[active'].log, AddrKey) ELSE addr
  /\ UNCHANGED <<armed, handler, step, entries, done, base, status, ride>>

Reset ==
  /\ PowerLoss \/ ((AppendStep \/ CompactStep) /\ pc' = "off")
  /\ armed' = FALSE
  /\ handler' = "none" /\ step' = "none"
  /\ status' = "none"
  /\ addr' = Tomb
  /\ ride' = FALSE
  /\ UNCHANGED <<entries, done, base>>

----------------------------------------------------------------------------
\* The attempt of the odometer counts, whatever came of it.
Settled == ride' = (ride /\ handler # "odometer")

\* The end of a handler: the one reply, or what the odometer settles.
Respond(s) ==
  /\ handler' = "none" /\ step' = "none"
  /\ status' = s
  /\ Settled

GoesOn == UNCHANGED <<handler, status, ride>>

Received(req) ==
  /\ entries' = req /\ done' = 0
  /\ base' = Recovered(page)

Starts(h, req) ==
  /\ handler' = h /\ step' = "persist" /\ status' = "none"
  /\ Received(req)

Fold == ride' = (ride \/ armed')

\* Disarmed, after a ride.  The other conditions, a wheel at rest that has moved, are the wheel's.
Due == ~ armed' /\ ride'

\* A pass samples the arm fact; the odometer may be due a write by the fact of the same pass.
SamplePass ==
  /\ pc = "idle" /\ handler = "none"
  /\ armed' \in BOOLEAN
  /\ Fold
  /\ \/ UNCHANGED <<handler, step, entries, done, base, status>>
     \/ /\ Due
        /\ \E total \in Value : Starts("odometer", <<[key |-> OdoKey, val |-> total]>>)
  /\ UNCHANGED <<vars, addr>>

\* Mutant: CONFIG_COMPACT without its own arm check.
IngestUngatedCompact(h, req) ==
  /\ pc = "idle" /\ handler = "none"
  /\ IF armed /\ h # "compact"
     THEN Respond(IF h = "assign" THEN "err" ELSE "armed") /\ Received(req)
     ELSE Starts(h, req) /\ UNCHANGED ride
  /\ UNCHANGED <<vars, armed, addr>>

\* A request arrives; an armed board refuses it before decoding any of it.
Ingest(h, req) ==
  /\ pc = "idle" /\ handler = "none"
  /\ IF armed
     THEN Respond(IF h = "assign" THEN "err" ELSE "armed") /\ Received(req)
     ELSE Starts(h, req) /\ UNCHANGED ride
  /\ UNCHANGED <<vars, armed, addr>>

ConfigWrite == \E req \in Requests : Ingest("write", req)

Assign ==
  \E v \in Value : Ingest("assign", <<[key |-> AddrKey, val |-> v]>>)

ConfigCompact == Ingest("compact", <<>>)

\* ASSIGN_ACK has one error byte for every failure.
Refuse(s) == Respond(IF handler = "assign" THEN "err" ELSE s)

CallStore(e) == IF e.val = Tomb THEN EraseValue(e.key) ELSE SetValue(e.key, e.val)

\* apply_write's first persist, and the retry after its compaction.
Persist ==
  /\ handler \in {"write", "assign", "odometer"} /\ step \in {"persist", "again"}
  /\ LET e == entries[done + 1] IN
     IF e = Bad
     THEN Refuse("bad") /\ UNCHANGED vars
     ELSE CallStore(e) /\ step' = (IF step = "again" THEN "retried" ELSE "called")
          /\ GoesOn
  /\ UNCHANGED <<armed, entries, done, base, addr>>

\* The store answered Ok: the next entry, or the reply.  ASSIGN adopts.
Persisted ==
  /\ pc = "idle" /\ reply = "ok"
  /\ step \in {"called", "retried"}
  /\ done' = done + 1
  /\ IF done + 1 = Len(entries) THEN Respond("ok")
     ELSE step' = "persist" /\ GoesOn
  /\ addr' = IF handler = "assign" THEN entries[1].val ELSE addr
  /\ UNCHANGED <<vars, armed, entries, base>>

\* Full: compact, then retry once.
MakeRoom ==
  /\ pc = "idle" /\ reply = "full" /\ step = "called"
  /\ Compact
  /\ step' = "compacting"
  /\ GoesOn
  /\ UNCHANGED <<armed, entries, done, base, addr>>

\* Mutants: the compaction's Ok taken for the write's; its failure dropped.
MadeRoomUnretried ==
  /\ pc = "idle" /\ step = "compacting"
  /\ Refuse(IF reply = "ok" THEN "ok" ELSE "store_err")
  /\ UNCHANGED <<vars, armed, entries, done, base, addr>>
MadeRoomOrNothing ==
  /\ pc = "idle" /\ step = "compacting" /\ reply = "ok"
  /\ step' = "again"
  /\ GoesOn
  /\ UNCHANGED <<vars, armed, entries, done, base, addr>>

MadeRoom ==
  /\ pc = "idle" /\ step = "compacting"
  /\ IF reply = "ok" THEN step' = "again" /\ GoesOn
     ELSE Refuse(IF reply = "commit_failed" THEN "commit_failed" ELSE "store_err")
  /\ UNCHANGED <<vars, armed, entries, done, base, addr>>

\* Mutant: the rest of the request is applied after a refused entry.
NotPersistedSkips ==
  /\ pc = "idle"
  /\ \/ step = "called" /\ reply \notin {"ok", "full"}
     \/ step = "retried" /\ reply # "ok"
  /\ done' = done + 1
  /\ IF done + 1 = Len(entries) THEN Refuse("store_err")
     ELSE step' = "persist" /\ GoesOn
  /\ UNCHANGED <<vars, armed, entries, base, addr>>

\* Any other answer ends the request at this entry.
NotPersisted ==
  /\ pc = "idle"
  /\ \/ step = "called" /\ reply \notin {"ok", "full"}
     \/ step = "retried" /\ reply # "ok"
  /\ Refuse(IF reply = "full" THEN "no_space" ELSE "store_err")
  /\ UNCHANGED <<vars, armed, entries, done, base, addr>>

\* CONFIG_COMPACT's handler.
RunCompact ==
  /\ handler = "compact" /\ step = "persist"
  /\ Compact
  /\ step' = "repacking"
  /\ GoesOn
  /\ UNCHANGED <<armed, entries, done, base, addr>>

Compacted ==
  /\ pc = "idle" /\ step = "repacking"
  /\ Respond(CASE reply = "ok" -> "ok"
               [] reply = "commit_failed" -> "commit_failed"
               [] OTHER -> "store_err")
  /\ UNCHANGED <<vars, armed, entries, done, base, addr>>

Request == ConfigWrite \/ Assign \/ ConfigCompact
Serve == Persist \/ Persisted \/ MakeRoom \/ MadeRoom \/ NotPersisted
         \/ RunCompact \/ Compacted

ServiceNext == Boot \/ StoreStep \/ Reset \/ SamplePass \/ Request \/ Serve

ServiceSpec == ServiceInit /\ [][ServiceNext]_allVars

FairService == ServiceSpec /\ WF_allVars(Boot \/ StoreStep) /\ WF_allVars(Serve)

----------------------------------------------------------------------------
ServiceTypeOK ==
  /\ TypeOK
  /\ armed \in BOOLEAN
  /\ handler \in {"none", "write", "assign", "compact", "odometer"}
  /\ step \in {"none", "persist", "called", "compacting", "again", "retried", "repacking"}
  /\ entries \in Seq([key : Key, val : Value \cup {Tomb}] \cup {Bad})
  /\ done \in 0 .. Len(entries)
  /\ base \in [Key -> Value \cup {Tomb}]
  /\ status \in {"none", "ok", "armed", "bad", "no_space", "store_err", "commit_failed", "err"}
  /\ addr \in Value \cup {Tomb}
  /\ ride \in BOOLEAN

\* Map m once the first n entries of request es have taken effect.
Overwritten(m, es, n) ==
  [k \in Key |->
     LET writes == {i \in 1 .. n : es[i].key = k} IN
     IF writes = {} THEN m[k]
     ELSE es[CHOOSE i \in writes : \A j \in writes : j <= i].val]

After(n) == Overwritten(base, entries, n)

\* A multi-write takes effect as a prefix of its entries, in order: the ones
\* acknowledged and at most the one in progress, whatever power loss, refused
\* program or compaction comes between two of them, and until the next request
\* (on_config_write_multi).
PrefixApplied ==
  \/ Recovered(page) = After(done)
  \/ done < Len(entries) /\ entries[done + 1] # Bad /\ Recovered(page) = After(done + 1)

\* A reply of ok is the whole request, durable, and an ASSIGN's is also the
\* address the board answers to from then on (on_config_write, on_assign).  The
\* same of the total that the odometer takes for recorded (Odometer::settled).
OkIsDurable ==
  [][ handler # "none" /\ status' = "ok" =>
        /\ done' = Len(entries)
        /\ Recovered(page') = After(done')
        /\ handler = "assign" => addr' = Recovered(page')[AddrKey] ]_allVars

\* The room that the records of the values stored in map m take on a page.
Room(m, k) == IF m[k] = Tomb THEN 0 ELSE Size[m[k]]
LiveTotal(m) ==
  LET total[S \in SUBSET Key] ==
        IF S = {} THEN 0
        ELSE LET k == CHOOSE x \in S : TRUE IN Room(m, k) + total[S \ {k}]
  IN total
LiveSize(m) == LiveTotal(m)[Key]

\* CFG_NO_SPACE is genuine: the live set and the refused record together do
\* not fit an empty page (apply_write, the second Full).
NoSpaceIsGenuine ==
  status = "no_space" =>
    LiveSize(Recovered(page)) + Size[entries[done + 1].val] > PageCap

\* R4: an armed board neither programs nor erases flash, whatever is asked and whatever the
\* odometer has to record (Responder::armed, Odometer::due).
ArmedWritesNothing == [][ armed /\ armed' => page' = page ]_allVars

\* Every request of a board that stays powered is answered, and every write of the odometer settled.
RequestsAnswered == handler # "none" ~> handler = "none"

----------------------------------------------------------------------------
(***************************************************************************)
(* The inductive invariant behind PrefixApplied and OkIsDurable, on the    *)
(* store invariant IInv and so for the same Faults.                        *)
(***************************************************************************)

Writing == handler \in {"write", "assign", "odometer"}

\* An armed board stands between two requests.
ArmedIsIdle == armed => pc = "idle" /\ handler = "none"

\* Which steps belong to which handler, and what each was handed.
HandlerShape ==
  /\ handler = "none" <=> step = "none"
  /\ handler = "compact" => step \in {"persist", "repacking"} /\ entries = <<>>
  /\ Writing => step # "repacking" /\ done < Len(entries)
  /\ handler = "assign" => Len(entries) = 1 /\ entries[1].key = AddrKey
  /\ step \notin {"none", "persist", "repacking"} => entries[done + 1] # Bad
  /\ handler # "none" => status = "none" /\ pc # "off" /\ ~ mounting

\* The store works on nothing but the entry in progress, or the compaction asked for.
StoreServes ==
  /\ Appending => /\ step \in {"called", "retried"}
                  /\ call = [key |-> entries[done + 1].key, val |-> entries[done + 1].val]
  /\ Compacting => mounting \/ step \in {"compacting", "repacking"}

\* How much of the request the map holds, by the step its handler stands at.
StepApplied ==
  /\ handler = "compact" \/ step = "persist" => Recovered(page) = After(done)
  /\ step \in {"called", "retried"} /\ pc = "idle" /\ reply = "ok" =>
       Recovered(page) = After(done + 1)

ServiceInv ==
  /\ IInv
  /\ ServiceTypeOK
  /\ ArmedIsIdle
  /\ HandlerShape
  /\ StoreServes
  /\ StepApplied
  /\ PrefixApplied

----------------------------------------------------------------------------
(***************************************************************************)
(* What NoSpaceIsGenuine needs besides: how long the log of a compaction's *)
(* new page is, and that nothing comes between it and the retry.           *)
(***************************************************************************)

\* The keys whose value the compaction has copied.
CopiedKeys == {k \in Key : Walked(page[active].log, cursor, k) # {}}

\* The new page holds a record for each of these, and nothing else.
CopyPacked == pc = "copy" => End(page[Spare].log) = LiveTotal(Recovered(page))[CopiedKeys]
SealPacked == pc = "free" => End(page[Spare].log) = LiveSize(Recovered(page))

\* From the compaction's Ok to the check of the retry, the log is the live set.
RoomMade ==
  \/ step = "compacting" /\ pc = "idle" /\ reply = "ok"
  \/ step = "again"
  \/ step = "retried" /\ pc = "append"
  => Valid(page, active) /\ frontier = LiveSize(Recovered(page))

RetryRefused ==
  step = "retried" /\ pc = "idle" /\ reply = "full" =>
    LiveSize(Recovered(page)) + Size[entries[done + 1].val] > PageCap

\* What was answered of a request is of a store at rest.
AnsweredAtRest == status # "none" => pc = "idle"

RoomInv ==
  /\ ServiceInv
  /\ CopyPacked /\ SealPacked
  /\ RoomMade /\ RetryRefused
  /\ AnsweredAtRest
  /\ NoSpaceIsGenuine
=============================================================================
