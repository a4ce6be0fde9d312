------------------------- MODULE ConfigServiceProofs -------------------------
(***************************************************************************)
(* Theorems about ConfigService, for every finite set of keys, all values  *)
(* and requests, every page size and every sequence-number width.          *)
(***************************************************************************)
EXTENDS ConfigService, StoreProofs, FiniteSetTheorems, WellFoundedInduction

USE DEF Side

----------------------------------------------------------------------------
(* The map a request makes of another. *)

LEMMA OverwrittenNone ==
  ASSUME NEW m \in [Key -> Value \cup {Tomb}], NEW es
  PROVE  Overwritten(m, es, 0) = m
BY DEF Overwritten

\* One more entry in effect is one more write, over whatever came before.
LEMMA OverwrittenNext ==
  ASSUME NEW m, NEW es, NEW n \in Nat
  PROVE  Overwritten(m, es, n + 1) = [Overwritten(m, es, n) EXCEPT ![es[n + 1].key] = es[n + 1].val]
<1> DEFINE old == Overwritten(m, es, n)
           new == Overwritten(m, es, n + 1)
<1>1. SUFFICES ASSUME NEW k \in Key
               PROVE  new[k] = IF k = es[n + 1].key THEN es[n + 1].val ELSE old[k]
  BY ZenonT(30) DEF Overwritten
<1> DEFINE W(j) == {i \in 1 .. j : es[i].key = k}
           last(j) == CHOOSE i \in W(j) : \A x \in W(j) : x <= i
<1>2. /\ new[k] = IF W(n + 1) = {} THEN m[k] ELSE es[last(n + 1)].val
      /\ old[k] = IF W(n) = {} THEN m[k] ELSE es[last(n)].val
  BY DEF Overwritten
<1>3. CASE k = es[n + 1].key
  <2>1. n + 1 \in W(n + 1) /\ \A x \in W(n + 1) : x <= n + 1
    BY <1>3
  <2>2. last(n + 1) \in W(n + 1) /\ \A x \in W(n + 1) : x <= last(n + 1)
    BY <2>1
  <2>3. last(n + 1) = n + 1
    BY <2>1, <2>2
  <2> QED
    BY <1>2, <1>3, <2>1, <2>3
<1>4. CASE k # es[n + 1].key
  <2>1. W(n + 1) = W(n)
    BY <1>4
  <2> QED
    BY <1>2, <1>4, <2>1
<1> QED
  BY <1>3, <1>4

\* A write repeated changes nothing.
LEMMA WrittenTwice ==
  ASSUME NEW f, NEW k, NEW v
  PROVE  [[f EXCEPT ![k] = v] EXCEPT ![k] = v] = [f EXCEPT ![k] = v]
OBVIOUS

----------------------------------------------------------------------------
(* What the store does under a handler. *)

LEMMA FindType ==
  ASSUME NEW log \in Seq(Record), HasLatest(log), NEW k \in Key
  PROVE  Find(log, k) \in Value \cup {Tomb}
<1>1. CASE Committed(log, k) = {}
  BY <1>1 DEF Find
<1>2. CASE Committed(log, k) # {}
  <2>1. PICK i \in Committed(log, k) : Find(log, k) = log[i].val
    BY <1>2, FindLatest
  <2>2. log[i] \in Record
    BY ElementOfSeq DEF Committed
  <2> QED
    BY <2>1, <2>2 DEF Record
<1> QED
  BY <1>1, <1>2

LEMMA ReadingType ==
  ASSUME NEW pg \in [Side -> GoodPage]
  PROVE  Recovered(pg) \in [Key -> Value \cup {Tomb}]
<1>1. Newest(pg) \in Side
  BY DEF Newest
<1>2. pg[Newest(pg)].log \in Seq(Record) /\ HasLatest(pg[Newest(pg)].log)
  BY <1>1 DEF GoodPage, Page
<1> QED
  BY <1>2, FindType DEF Recovered

LEMMA ReadingPrime == Recovered(page)' = Recovered(page')
BY DEF Recovered

\* An append leaves the map as it was or with its write made, and answers ok only after the latter.
LEMMA AppendRuns ==
  ASSUME IInv, AppendStep, IInv', MapStep
  PROVE  LET new == [Recovered(page) EXCEPT ![call.key] = call.val] IN
         /\ call # NoCall
         /\ ~ mounting /\ ~ mounting'
         /\ pc' \in {"append", "record", "payload", "idle", "off"}
         /\ pc' \in {"append", "record", "payload"} => call' = call
         /\ Recovered(page') \in {Recovered(page), new}
         /\ pc' = "idle" /\ reply' = "ok" => Recovered(page') = new
<1> DEFINE new == [Recovered(page) EXCEPT ![call.key] = call.val]
<1>1. Busy /\ Busy'
  BY DEF IInv, Progress
<1>2. Appending
  BY DEF AppendStep, FormatPage, CheckSpace, ProgramHeader, ProgramPayload, Appending
<1>3. call # NoCall /\ ~ mounting
  BY <1>1, <1>2 DEF Busy, Appending, Compacting
<1>4. ~ mounting' /\ pc' \in {"append", "record", "payload", "idle", "off"}
      /\ (pc' \in {"append", "record", "payload"} => call' = call)
  BY <1>2, <1>3 DEF AppendStep, FormatPage, CheckSpace, ProgramHeader, ProgramPayload, CutShort,
     PowerOff, Fail, Return, Appending
<1>5. CASE UNCHANGED KV!vars
  <2>1. call' = call /\ Recovered(page') = Recovered(page)
    BY <1>5, ReadingPrime DEF KV!vars
  <2>2. pc' # "idle"
    BY <1>1, <1>3, <2>1 DEF Busy, Appending
  <2> QED
    BY <1>3, <1>4, <2>1, <2>2
<1>6. CASE KV!Succeed
  <2>1. Recovered(page') = new
    BY <1>6, ReadingPrime DEF KV!Succeed, KV!Applied
  <2> QED
    BY <1>3, <1>4, <2>1
<1>7. CASE KV!CutShort
  <2>1. Recovered(page') \in {Recovered(page), new} /\ reply' # "ok"
    BY <1>7, ReadingPrime DEF KV!CutShort, KV!Applied, Answer
  <2> QED
    BY <1>3, <1>4, <2>1
<1> QED
  BY <1>3, <1>5, <1>6, <1>7 DEF MapStep, KV!Next, KV!Begin, KV!Housekeeping

\* A compaction leaves the map alone.
LEMMA CompactRuns ==
  ASSUME IInv, CompactStep, MapStep
  PROVE  /\ Recovered(page') = Recovered(page)
         /\ call' = NoCall
         /\ pc' \in {"spare", "copy", "discard", "free", "idle", "off"}
         /\ Compacting
         /\ pc' \in {"spare", "copy", "discard", "free"} => mounting' = mounting
         /\ mounting' => mounting
<1>1. Compacting
  BY DEF CompactStep, EraseSpare, CopyRecord, Seal, Discard, FreeOld, Compacting
<1>2. call = NoCall
  BY <1>1 DEF IInv, Progress, Busy, Appending, Compacting
<1>3. call' = NoCall /\ pc' \in {"spare", "copy", "discard", "free", "idle", "off"}
      /\ (pc' \in {"spare", "copy", "discard", "free"} => mounting' = mounting)
      /\ (mounting' => mounting)
  BY <1>2 DEF CompactStep, EraseSpare, CopyRecord, Seal, Discard, FreeOld, CutShort, PowerOff, Fail, Return
<1>4. ASSUME NEW k \in Key, NEW v \in Value \cup {Tomb} PROVE ~ KV!Begin(k, v)
  <2>1. [key |-> k, val |-> v] # NoCall
    BY ValueAssumption
  <2> QED
    BY <1>3, <2>1 DEF KV!Begin
<1>5. Recovered(page)' = Recovered(page)
  BY <1>2, <1>4 DEF MapStep, KV!vars, KV!Next, KV!Succeed, KV!CutShort, KV!Housekeeping
<1> QED
  BY <1>1, <1>3, <1>5, ReadingPrime

----------------------------------------------------------------------------
(* The handlers drive the store through its calls alone. *)

Entry == [key : Key, val : Value \cup {Tomb}]

LEMMA EntryType ==
  ASSUME ServiceInv, Writing
  PROVE  /\ done \in Nat /\ done + 1 \in 1 .. Len(entries) /\ Len(entries) \in Nat
         /\ entries[done + 1] # Bad => entries[done + 1] \in Entry
<1>1. entries \in Seq(Entry \cup {Bad}) /\ done \in 0 .. Len(entries) /\ done < Len(entries)
  BY DEF ServiceInv, ServiceTypeOK, HandlerShape, Entry
<1>2. Len(entries) \in Nat
  BY <1>1, LenProperties
<1>3. done \in Nat /\ done + 1 \in 1 .. Len(entries)
  BY <1>1, <1>2
<1>4. entries[done + 1] \in Entry \cup {Bad}
  BY <1>1, <1>3, ElementOfSeq
<1> QED
  BY <1>2, <1>3, <1>4

LEMMA CallStoreIsCall ==
  ASSUME NEW e \in Entry, CallStore(e)
  PROVE  Call
BY DEF Entry, CallStore, Call

LEMMA PersistCalls ==
  ASSUME ServiceInv, Persist
  PROVE  /\ Writing /\ step \in {"persist", "again"}
         /\ \/ entries[done + 1] = Bad /\ UNCHANGED vars
            \/ entries[done + 1] # Bad /\ CallStore(entries[done + 1]) /\ Call
<1>1. Writing /\ step \in {"persist", "again"}
  BY DEF Persist, Writing
<1>2. \/ entries[done + 1] = Bad /\ UNCHANGED vars
      \/ entries[done + 1] # Bad /\ CallStore(entries[done + 1])
  BY DEF Persist
<1> QED
  BY <1>1, <1>2, EntryType, CallStoreIsCall

LEMMA StoreIsDriven ==
  ASSUME ServiceInv, [ServiceNext]_allVars
  PROVE  [Next]_vars
<1>1. CASE Boot \/ StoreStep \/ Reset
  BY <1>1 DEF Boot, StoreStep, Reset, Next
<1>2. CASE SamplePass \/ Request
  BY <1>2 DEF SamplePass, Request, ConfigWrite, Assign, ConfigCompact, Ingest
<1>3. CASE Persist
  BY <1>3, PersistCalls DEF Next
<1>4. CASE MakeRoom \/ RunCompact
  BY <1>4 DEF MakeRoom, RunCompact, Next, Call
<1>5. CASE Persisted \/ MadeRoom \/ NotPersisted \/ Compacted
  BY <1>5 DEF Persisted, MadeRoom, NotPersisted, Compacted
<1>6. CASE UNCHANGED allVars
  BY <1>6 DEF allVars
<1> QED
  BY <1>1, <1>2, <1>3, <1>4, <1>5, <1>6 DEF ServiceNext, Serve

LEMMA StoreKeeps ==
  ASSUME "free" \notin Faults, "late" \notin Faults, ServiceInv, [ServiceNext]_allVars
  PROVE  IInv' /\ MapStep /\ TypeOK'
BY StoreIsDriven, NextKeeps DEF ServiceInv, IInv

----------------------------------------------------------------------------
(* One lemma per kind of step. *)

\* What the service remembers of the request, unchanged.
LEMMA AfterKept ==
  ASSUME UNCHANGED <<entries, done, base>>
  PROVE  After(done)' = After(done) /\ After(done + 1)' = After(done + 1)
BY DEF After, Overwritten

LEMMA PrefixKept ==
  ASSUME PrefixApplied, UNCHANGED <<entries, done, base>>, Recovered(page') = Recovered(page)
  PROVE  PrefixApplied'
BY AfterKept, ReadingPrime DEF PrefixApplied

\* The write in progress, made or not, is still at most one entry ahead.
LEMMA CutShortApplied ==
  ASSUME ServiceInv, IInv', MapStep, AppendStep, UNCHANGED <<entries, done, base>>
  PROVE  /\ PrefixApplied'
         /\ pc' = "idle" /\ reply' = "ok" => Recovered(page') = After(done + 1)
<1>1. Appending
  BY DEF AppendStep, FormatPage, CheckSpace, ProgramHeader, ProgramPayload, Appending
<1>2. /\ step \in {"called", "retried"}
      /\ call = [key |-> entries[done + 1].key, val |-> entries[done + 1].val]
  BY <1>1 DEF ServiceInv, StoreServes
<1>3. Writing /\ entries[done + 1] # Bad
  BY <1>2 DEF ServiceInv, HandlerShape, ServiceTypeOK, Writing
<1>4. done \in Nat /\ done < Len(entries)
  BY <1>3, EntryType DEF ServiceInv, HandlerShape
<1> DEFINE new == [Recovered(page) EXCEPT ![call.key] = call.val]
<1>5. After(done + 1) = [After(done) EXCEPT ![call.key] = call.val]
  BY <1>2, <1>4, OverwrittenNext DEF After
<1>6. Recovered(page) \in {After(done), After(done + 1)}
  BY DEF ServiceInv, PrefixApplied
<1>7. new = After(done + 1)
  BY <1>5, <1>6, WrittenTwice
<1>8. Recovered(page') \in {Recovered(page), new} /\ (pc' = "idle" /\ reply' = "ok" => Recovered(page') = new)
  BY AppendRuns DEF ServiceInv
<1>9. PrefixApplied'
  BY <1>3, <1>4, <1>6, <1>7, <1>8, AfterKept, ReadingPrime DEF PrefixApplied
<1> QED
  BY <1>7, <1>8, <1>9

LEMMA ServiceRide ==
  ASSUME ServiceInv, Settled
  PROVE  ride' \in BOOLEAN
BY DEF Settled, ServiceInv, ServiceTypeOK

LEMMA BootKeeps ==
  ASSUME ServiceInv, IInv', TypeOK', MapStep, Boot
  PROVE  ServiceInv'
<1>1. UNCHANGED <<armed, handler, step, entries, done, base, status, ride, page, call, reply>>
      /\ pc = "off" /\ pc' \in {"idle", "spare"} /\ (pc' = "spare" => mounting')
  BY DEF Boot, MountStep, MountVirgin, MountClean, MountTorn
<1>2. handler = "none" /\ step = "none" /\ ~ armed /\ call = NoCall
  BY <1>1 DEF ServiceInv, HandlerShape, ArmedIsIdle, ServiceTypeOK, IInv, Progress, Busy, Appending
<1>3. addr' \in Value \cup {Tomb}
  <2>1. page'[active'].log \in Seq(Record) /\ HasLatest(page'[active'].log)
    BY DEF IInv, TypeOK, GoodPage, Page
  <2>2. AddrKey \in Key
    BY RequestAssumption
  <2> QED
    BY <2>1, <2>2, FindType DEF Boot, ServiceInv, ServiceTypeOK
<1>4. ServiceTypeOK'
  BY <1>1, <1>3 DEF ServiceInv, ServiceTypeOK
<1>5. ArmedIsIdle' /\ HandlerShape' /\ StoreServes'
  BY <1>1, <1>2 DEF ServiceInv, ArmedIsIdle, HandlerShape, StoreServes, Appending, Compacting, Writing
<1>6. StepApplied'
  BY <1>1, <1>2 DEF StepApplied
<1>7. PrefixApplied'
  BY <1>1, PrefixKept DEF ServiceInv
<1> QED
  BY <1>4, <1>5, <1>6, <1>7 DEF ServiceInv

LEMMA ResetKeeps ==
  ASSUME ServiceInv, IInv', TypeOK', MapStep, Reset
  PROVE  ServiceInv'
<1>1. /\ armed' = FALSE /\ handler' = "none" /\ step' = "none" /\ status' = "none" /\ addr' = Tomb
      /\ ride' = FALSE /\ UNCHANGED <<entries, done, base>>
      /\ pc' = "off"
  BY DEF Reset, PowerLoss, PowerOff
<1>2. ServiceTypeOK' /\ ArmedIsIdle' /\ HandlerShape' /\ StoreServes' /\ StepApplied'
  BY <1>1 DEF ServiceInv, ServiceTypeOK, ArmedIsIdle, HandlerShape, StoreServes, Appending, Compacting,
     Writing, StepApplied
<1>3. PrefixApplied'
  <2>1. CASE PowerLoss
    BY <1>1, <2>1, PrefixKept DEF PowerLoss, ServiceInv
  <2>2. CASE AppendStep
    BY <1>1, <2>2, CutShortApplied
  <2>3. CASE CompactStep
    BY <1>1, <2>3, CompactRuns, PrefixKept DEF ServiceInv
  <2> QED
    BY <2>1, <2>2, <2>3 DEF Reset
<1> QED
  BY <1>2, <1>3 DEF ServiceInv

LEMMA StoreStepKeeps ==
  ASSUME ServiceInv, IInv', TypeOK', MapStep, StoreStep
  PROVE  ServiceInv'
<1>1. UNCHANGED <<armed, handler, step, entries, done, base, status, ride>> /\ pc' # "off" /\ pc # "off"
  BY DEF StoreStep, AppendStep, CompactStep, FormatPage, CheckSpace, ProgramHeader, ProgramPayload,
     EraseSpare, CopyRecord, Seal, Discard, FreeOld
<1>2. addr' \in Value \cup {Tomb}
  <2>1. page'[active'].log \in Seq(Record) /\ HasLatest(page'[active'].log)
    BY DEF IInv, TypeOK, GoodPage, Page
  <2>2. AddrKey \in Key
    BY RequestAssumption
  <2> QED
    BY <2>1, <2>2, FindType DEF StoreStep, ServiceInv, ServiceTypeOK
<1>3. ServiceTypeOK'
  BY <1>1, <1>2 DEF ServiceInv, ServiceTypeOK
<1>4. CASE AppendStep
  <2>1. /\ call # NoCall /\ ~ mounting /\ ~ mounting'
        /\ pc' \in {"append", "record", "payload", "idle"}
        /\ pc' \in {"append", "record", "payload"} => call' = call
    BY <1>1, <1>4, AppendRuns DEF ServiceInv
  <2>2. Appending /\ pc # "idle"
    BY <1>4 DEF AppendStep, FormatPage, CheckSpace, ProgramHeader, ProgramPayload, Appending
  <2>3. ArmedIsIdle' /\ HandlerShape' /\ StoreServes'
    BY <1>1, <2>1, <2>2 DEF ServiceInv, ArmedIsIdle, HandlerShape, StoreServes, Appending, Compacting, Writing
  <2>4. step \in {"called", "retried"} /\ handler # "compact"
    BY <2>2 DEF ServiceInv, StoreServes, HandlerShape
  <2>5. PrefixApplied' /\ (pc' = "idle" /\ reply' = "ok" => Recovered(page') = After(done + 1))
    BY <1>1, <1>4, CutShortApplied
  <2>6. StepApplied'
    BY <1>1, <2>4, <2>5, AfterKept, ReadingPrime DEF StepApplied
  <2> QED
    BY <1>3, <2>3, <2>5, <2>6 DEF ServiceInv
<1>5. CASE CompactStep
  <2>1. /\ Recovered(page') = Recovered(page)
        /\ Compacting /\ pc' \in {"spare", "copy", "discard", "free", "idle"}
        /\ pc' \in {"spare", "copy", "discard", "free"} => mounting' = mounting
        /\ mounting' => mounting
    BY <1>1, <1>5, CompactRuns DEF ServiceInv
  <2>2. pc # "idle" /\ (mounting \/ step \in {"compacting", "repacking"})
    BY <2>1 DEF ServiceInv, StoreServes, Compacting
  <2>3. ArmedIsIdle' /\ HandlerShape' /\ StoreServes'
    BY <1>1, <2>1, <2>2 DEF ServiceInv, ArmedIsIdle, HandlerShape, StoreServes, Appending, Compacting, Writing
  <2>4. step \notin {"called", "retried"}
    BY <2>2 DEF ServiceInv, HandlerShape
  <2>5. StepApplied'
    BY <1>1, <2>1, <2>4, AfterKept, ReadingPrime DEF ServiceInv, StepApplied
  <2> QED
    BY <1>1, <1>3, <2>1, <2>3, <2>5, PrefixKept DEF ServiceInv
<1> QED
  BY <1>4, <1>5 DEF StoreStep

\* A request that reaches the store's thread finds no other in progress.
LEMMA ReceivedKeeps ==
  ASSUME ServiceInv, UNCHANGED vars, pc = "idle", handler = "none", NEW req \in Seq(Entry \cup {Bad}), Received(req)
  PROVE  /\ Recovered(page') = base' /\ After(0)' = base' /\ done' = 0 /\ entries' = req
         /\ base' \in [Key -> Value \cup {Tomb}] /\ Len(req) \in Nat
         /\ PrefixApplied'
         /\ ~ Appending' /\ ~ Compacting'
<1>1. /\ base' = Recovered(page) /\ page' = page /\ done' = 0 /\ entries' = req /\ pc' = pc
  BY DEF Received, vars
<1>2. base' \in [Key -> Value \cup {Tomb}]
  BY <1>1, ReadingType DEF ServiceInv, IInv
<1>3. Overwritten(base', entries', 0) = base'
  BY <1>2, OverwrittenNone
<1>4. After(0)' = base'
  BY <1>3 DEF After, Overwritten
<1>5. After(done)' = base'
  BY <1>1, <1>3 DEF After, Overwritten
<1>6. PrefixApplied'
  BY <1>1, <1>5, ReadingPrime DEF PrefixApplied
<1> QED
  BY <1>1, <1>2, <1>4, <1>6, LenProperties DEF Appending, Compacting

\* A handler takes a request up.
LEMMA StartsKeeps ==
  ASSUME ServiceInv, IInv', TypeOK', UNCHANGED <<vars, addr>>, pc = "idle", handler = "none",
         NEW h \in {"write", "assign", "compact", "odometer"}, NEW req \in Seq(Entry \cup {Bad}),
         h = "compact" => req = <<>>, h # "compact" => req # <<>>,
         h = "assign" => Len(req) = 1 /\ req[1].key = AddrKey,
         Starts(h, req), armed' = FALSE, ride' \in BOOLEAN
  PROVE  ServiceInv'
<1>1. handler' = h /\ step' = "persist" /\ status' = "none" /\ Received(req)
  BY DEF Starts
<1>2. /\ Recovered(page') = base' /\ After(0)' = base' /\ done' = 0 /\ entries' = req
      /\ base' \in [Key -> Value \cup {Tomb}] /\ Len(req) \in Nat
      /\ PrefixApplied' /\ ~ Appending' /\ ~ Compacting'
  BY <1>1, ReceivedKeeps
<1>3. ServiceTypeOK'
  <2>1. armed' \in BOOLEAN /\ addr' = addr
    OBVIOUS
  <2> QED
    BY <1>1, <1>2, <2>1 DEF ServiceInv, ServiceTypeOK, Entry
<1>4. req # <<>> => 0 < Len(req)
  BY <1>2, EmptySeq
<1>5. ~ mounting
  BY DEF ServiceInv, IInv, Progress, Busy, Compacting
<1>6. ArmedIsIdle' /\ HandlerShape' /\ StoreServes'
  BY <1>1, <1>2, <1>4, <1>5 DEF ArmedIsIdle, HandlerShape, StoreServes, Writing, vars
<1>7. After(done)' = Recovered(page)'
  BY <1>2, ReadingPrime DEF After
<1>8. StepApplied'
  BY <1>1, <1>7 DEF StepApplied
<1> QED
  BY <1>2, <1>3, <1>6, <1>8 DEF ServiceInv

LEMMA SamplePassKeeps ==
  ASSUME ServiceInv, IInv', TypeOK', SamplePass
  PROVE  ServiceInv'
<1>1. UNCHANGED <<vars, addr>> /\ pc = "idle" /\ handler = "none" /\ armed' \in BOOLEAN /\ ride' \in BOOLEAN
  BY DEF SamplePass, Fold, ServiceInv, ServiceTypeOK
<1>2. CASE UNCHANGED <<handler, step, entries, done, base, status>>
  <2>1. ServiceTypeOK'
    BY <1>1, <1>2 DEF ServiceInv, ServiceTypeOK
  <2>2. Recovered(page') = Recovered(page)
    BY <1>1 DEF vars
  <2>3. ArmedIsIdle' /\ HandlerShape' /\ StoreServes'
    BY <1>1, <1>2 DEF ServiceInv, ArmedIsIdle, HandlerShape, StoreServes, Appending, Compacting, Writing, vars
  <2>4. StepApplied'
    BY <1>1, <1>2 DEF ServiceInv, StepApplied, HandlerShape
  <2> QED
    BY <1>2, <2>1, <2>2, <2>3, <2>4, PrefixKept DEF ServiceInv
<1>3. ASSUME NEW total \in Value, ~ armed', Starts("odometer", <<[key |-> OdoKey, val |-> total]>>)
      PROVE  ServiceInv'
  <2> DEFINE e == [key |-> OdoKey, val |-> total]
  <2>1. e \in Entry
    BY RequestAssumption DEF Entry
  <2>2. <<e>> \in Seq(Entry \cup {Bad}) /\ <<e>> # <<>>
    BY <2>1
  <2> QED
    BY <1>1, <1>3, <2>2, StartsKeeps
<1> QED
  BY <1>2, <1>3 DEF SamplePass, Due

LEMMA IngestKeeps ==
  ASSUME ServiceInv, IInv', TypeOK', NEW h \in {"write", "assign", "compact"}, NEW req \in Seq(Entry \cup {Bad}),
         h = "compact" => req = <<>>, h # "compact" => req # <<>>,
         h = "assign" => Len(req) = 1 /\ req[1].key = AddrKey,
         Ingest(h, req)
  PROVE  ServiceInv'
<1>1. UNCHANGED <<vars, armed, addr>> /\ pc = "idle" /\ handler = "none"
  BY DEF Ingest
<1>2. CASE ~ armed
  BY <1>1, <1>2, StartsKeeps DEF Ingest, ServiceInv, ServiceTypeOK
<1>3. CASE armed
  <2>1. /\ handler' = "none" /\ step' = "none" /\ status' \in {"err", "armed"} /\ ride' \in BOOLEAN
        /\ Received(req)
    BY <1>1, <1>3 DEF Ingest, Respond, Settled, ServiceInv, ServiceTypeOK
  <2>2. /\ done' = 0 /\ entries' = req /\ base' \in [Key -> Value \cup {Tomb}] /\ Len(req) \in Nat
        /\ PrefixApplied' /\ ~ Appending' /\ ~ Compacting'
    BY <1>1, <2>1, ReceivedKeeps
  <2>3. ServiceTypeOK'
    BY <1>1, <2>1, <2>2 DEF ServiceInv, ServiceTypeOK, Entry
  <2>4. ArmedIsIdle' /\ HandlerShape' /\ StoreServes' /\ StepApplied'
    BY <1>1, <2>1, <2>2 DEF ArmedIsIdle, HandlerShape, StoreServes, StepApplied, Writing, vars
  <2> QED
    BY <2>2, <2>3, <2>4 DEF ServiceInv
<1> QED
  BY <1>2, <1>3

LEMMA RequestKeeps ==
  ASSUME ServiceInv, IInv', TypeOK', Request
  PROVE  ServiceInv'
<1>1. ASSUME NEW req \in Requests, Ingest("write", req) PROVE ServiceInv'
  <2>1. req \in Seq(Entry \cup {Bad}) /\ req # <<>>
    BY RequestAssumption DEF Entry
  <2> QED
    BY <1>1, <2>1, IngestKeeps
<1>2. ASSUME NEW v \in Value, Ingest("assign", <<[key |-> AddrKey, val |-> v]>>) PROVE ServiceInv'
  <2> DEFINE e == [key |-> AddrKey, val |-> v]
  <2>1. e \in Entry
    BY RequestAssumption DEF Entry
  <2>2. <<e>> \in Seq(Entry \cup {Bad}) /\ <<e>> # <<>> /\ Len(<<e>>) = 1 /\ <<e>>[1].key = AddrKey
    BY <2>1
  <2> QED
    BY <1>2, <2>2, IngestKeeps
<1>3. ASSUME Ingest("compact", <<>>) PROVE ServiceInv'
  BY <1>3, EmptySeq, IngestKeeps
<1> QED
  BY <1>1, <1>2, <1>3 DEF Request, ConfigWrite, Assign, ConfigCompact

LEMMA PersistKeeps ==
  ASSUME ServiceInv, IInv', TypeOK', Persist
  PROVE  ServiceInv'
<1> DEFINE e == entries[done + 1]
<1>1. Writing /\ step \in {"persist", "again"} /\ UNCHANGED <<armed, entries, done, base, addr>>
  BY PersistCalls DEF Persist
<1>2. /\ done \in Nat /\ done < Len(entries) /\ handler # "none" /\ handler # "compact"
      /\ ~ armed /\ status = "none" /\ pc # "off" /\ ~ mounting /\ pc = "idle"
  <2>1. handler \notin {"none", "compact"} /\ done < Len(entries) /\ ~ armed
    BY <1>1 DEF ServiceInv, HandlerShape, ArmedIsIdle, Writing
  <2>2. ~ Appending /\ ~ Compacting /\ pc # "off" /\ status = "none" /\ ~ mounting
    BY <1>1, <2>1 DEF ServiceInv, HandlerShape, StoreServes
  <2> QED
    BY <1>1, <2>1, <2>2, EntryType DEF Appending, Compacting, ServiceInv, ServiceTypeOK, TypeOK
<1>3. CASE e = Bad
  <2>1. UNCHANGED vars /\ handler' = "none" /\ step' = "none" /\ status' \in {"err", "bad"}
        /\ ride' \in BOOLEAN
    BY <1>3, ServiceRide DEF Persist, Refuse, Respond, Settled
  <2>2. ServiceTypeOK'
    BY <1>1, <2>1 DEF ServiceInv, ServiceTypeOK
  <2>3. ArmedIsIdle' /\ HandlerShape' /\ StoreServes' /\ StepApplied'
    BY <1>1, <1>2, <2>1 DEF ArmedIsIdle, HandlerShape, StoreServes, StepApplied, Writing, vars,
       Appending, Compacting
  <2>4. Recovered(page') = Recovered(page)
    BY <2>1 DEF vars
  <2> QED
    BY <1>1, <2>2, <2>3, <2>4, PrefixKept DEF ServiceInv
<1>4. CASE e # Bad
  <2>1. /\ CallStore(e) /\ step' \in {"called", "retried"}
        /\ handler' = handler /\ status' = status /\ ride' = ride
    BY <1>4 DEF Persist, GoesOn
  <2>2. e \in Entry /\ e.key \in Key
    BY <1>1, <1>4, EntryType DEF Entry
  <2>3. ServiceTypeOK'
    BY <1>1, <2>1 DEF ServiceInv, ServiceTypeOK
  <2>4. /\ page' = page /\ mounting' = FALSE
        /\ \/ pc' = "append" /\ call' = [key |-> e.key, val |-> e.val]
           \/ pc' = "idle" /\ reply' = "too_large"
           \/ pc' = "idle" /\ Find(page[active].log, e.key) = Tomb /\ e.val = Tomb
    BY <1>2, <2>1 DEF CallStore, SetValue, EraseValue, StartAppend, Return
  <2>5. Recovered(page') = Recovered(page)
    BY <2>4
  <2>6. ArmedIsIdle' /\ HandlerShape'
    BY <1>1, <1>2, <1>4, <2>1, <2>4 DEF ServiceInv, ArmedIsIdle, HandlerShape, Writing
  <2>7. StoreServes'
    BY <1>1, <2>1, <2>4 DEF StoreServes, Appending, Compacting
  <2>8. ASSUME Find(page[active].log, e.key) = Tomb, e.val = Tomb
        PROVE  Recovered(page) = After(done + 1)
    <3>1. Recovered(page)[e.key] = Tomb
      BY <1>2, <2>2, <2>8 DEF ServiceInv, IInv, ActiveIsNewest, Recovered
    <3>2. After(done + 1) = [After(done) EXCEPT ![e.key] = Tomb]
      BY <1>2, <2>8, OverwrittenNext DEF After
    <3>3. Recovered(page) \in [Key -> Value \cup {Tomb}]
      BY ReadingType DEF ServiceInv, IInv
    <3>4. [Recovered(page) EXCEPT ![e.key] = Tomb] = Recovered(page)
      BY <3>1, <3>3
    <3> QED
      BY <3>2, <3>4 DEF ServiceInv, PrefixApplied
  <2>9. StepApplied'
    BY <1>1, <1>2, <2>1, <2>4, <2>5, <2>8, AfterKept, ReadingPrime DEF StepApplied
  <2> QED
    BY <1>1, <2>3, <2>5, <2>6, <2>7, <2>9, PrefixKept DEF ServiceInv
<1> QED
  BY <1>3, <1>4

\* The store is asked to compact, between two of its calls.
LEMMA CompactCallKeeps ==
  ASSUME ServiceInv, IInv', TypeOK', MakeRoom \/ RunCompact
  PROVE  ServiceInv'
<1>1. /\ UNCHANGED <<armed, entries, done, base, addr, handler, status, ride, page, mounting>>
      /\ pc = "idle" /\ pc' = "spare" /\ step # "none"
      /\ \/ step = "called" /\ step' = "compacting"
         \/ handler = "compact" /\ step' = "repacking"
  BY DEF MakeRoom, RunCompact, Compact, GoesOn
<1>2. ServiceTypeOK'
  BY <1>1 DEF ServiceInv, ServiceTypeOK
<1>3. handler # "none" /\ ~ armed
  BY <1>1 DEF ServiceInv, HandlerShape, ArmedIsIdle
<1>4. ArmedIsIdle' /\ HandlerShape' /\ StoreServes'
  BY <1>1, <1>3 DEF ServiceInv, ArmedIsIdle, HandlerShape, StoreServes, Appending, Compacting, Writing
<1>5. StepApplied'
  BY <1>1, AfterKept, ReadingPrime DEF ServiceInv, StepApplied
<1> QED
  BY <1>1, <1>2, <1>4, <1>5, PrefixKept DEF ServiceInv

\* The store's answer is read: the next entry, or the end of the handler.
LEMMA AnsweredKeeps ==
  ASSUME ServiceInv, IInv', TypeOK', Persisted \/ MadeRoom \/ NotPersisted \/ Compacted
  PROVE  ServiceInv'
<1>1. /\ UNCHANGED <<vars, armed, entries, base>> /\ pc = "idle"
      /\ step \in {"called", "retried", "compacting", "repacking"}
  BY DEF Persisted, MadeRoom, NotPersisted, Compacted
<1>2. /\ handler # "none" /\ ~ armed /\ ~ mounting /\ status = "none" /\ ~ Appending' /\ ~ Compacting'
  BY <1>1 DEF ServiceInv, HandlerShape, ArmedIsIdle, Appending, Compacting, vars
<1>3. Recovered(page') = Recovered(page)
  BY <1>1 DEF vars
<1>4. CASE Persisted
  <2>1. Writing /\ done \in Nat /\ done < Len(entries) /\ Len(entries) \in Nat
    BY <1>2, <1>4, EntryType DEF Persisted, ServiceInv, HandlerShape, ServiceTypeOK, Writing
  <2>2. /\ done' = done + 1
        /\ \/ /\ done + 1 = Len(entries) /\ handler' = "none" /\ step' = "none" /\ status' = "ok"
              /\ ride' \in BOOLEAN
           \/ /\ done + 1 # Len(entries) /\ step' = "persist"
              /\ handler' = handler /\ status' = status /\ ride' = ride
        /\ addr' = IF handler = "assign" THEN entries[1].val ELSE addr
    BY <1>4, ServiceRide DEF Persisted, Respond, GoesOn, Settled
  <2>3. addr' \in Value \cup {Tomb}
    <3>1. CASE handler = "assign"
      <4>1. Len(entries) = 1 /\ entries[done + 1] # Bad
        BY <1>4, <3>1 DEF ServiceInv, HandlerShape, Persisted
      <4>2. done + 1 = 1
        BY <2>1, <4>1
      <4> QED
        BY <2>1, <2>2, <3>1, <4>1, <4>2, EntryType DEF Entry
    <3> QED
      BY <2>2, <3>1 DEF ServiceInv, ServiceTypeOK
  <2>4. ServiceTypeOK'
    BY <1>1, <2>1, <2>2, <2>3 DEF ServiceInv, ServiceTypeOK
  <2>5. ArmedIsIdle' /\ HandlerShape' /\ StoreServes'
    BY <1>1, <1>2, <2>1, <2>2 DEF ServiceInv, ArmedIsIdle, HandlerShape, StoreServes, Writing, vars
  <2>6. Recovered(page) = After(done + 1)
    BY <1>1, <1>4 DEF Persisted, ServiceInv, StepApplied
  <2>7. Recovered(page)' = After(done)'
    BY <1>1, <1>3, <2>2, <2>6, ReadingPrime DEF After
  <2>8. StepApplied' /\ PrefixApplied'
    BY <1>1, <2>2, <2>7 DEF StepApplied, PrefixApplied
  <2> QED
    BY <2>4, <2>5, <2>8 DEF ServiceInv
<1>5. CASE MadeRoom \/ NotPersisted \/ Compacted
  <2>1. /\ UNCHANGED <<done, addr>> /\ ride' \in BOOLEAN
        /\ \/ /\ handler' = "none" /\ step' = "none"
              /\ status' \in {"ok", "err", "commit_failed", "store_err", "no_space"}
           \/ step = "compacting" /\ step' = "again" /\ handler' = handler /\ status' = status
    <3>1. ride \in BOOLEAN /\ UNCHANGED <<done, addr>>
      BY <1>5 DEF MadeRoom, NotPersisted, Compacted, ServiceInv, ServiceTypeOK
    <3>2. CASE MadeRoom
      BY <3>1, <3>2, ServiceRide DEF MadeRoom, Refuse, Respond, GoesOn
    <3>3. CASE NotPersisted
      BY <3>1, <3>3, ServiceRide DEF NotPersisted, Refuse, Respond
    <3>4. CASE Compacted
      BY <3>1, <3>4, ServiceRide DEF Compacted, Respond
    <3> QED
      BY <1>5, <3>2, <3>3, <3>4
  <2>2. ServiceTypeOK'
    BY <1>1, <2>1 DEF ServiceInv, ServiceTypeOK
  <2>3. ArmedIsIdle' /\ HandlerShape' /\ StoreServes'
    BY <1>1, <1>2, <2>1 DEF ServiceInv, ArmedIsIdle, HandlerShape, StoreServes, Writing, vars
  <2>4. StepApplied'
    BY <1>1, <1>3, <2>1, AfterKept, ReadingPrime DEF ServiceInv, StepApplied, HandlerShape
  <2> QED
    BY <1>1, <1>3, <2>1, <2>2, <2>3, <2>4, PrefixKept DEF ServiceInv
<1> QED
  BY <1>4, <1>5

----------------------------------------------------------------------------
(* The room that the records of a set of keys take. *)

LEMMA Least ==
  ASSUME NEW T, T \subseteq Nat, T # {}
  PROVE  \E x \in T : \A y \in T : x <= y
<1>1. PICK x \in T : \A y \in T : ~ (<<y, x>> \in OpToRel(<, Nat))
  BY NatLessThanWellFounded, WFMin
<1>2. ASSUME NEW y \in T PROVE x <= y
  <2>1. ~ (y < x)
    BY <1>1 DEF OpToRel
  <2> QED BY <2>1
<1> QED
  BY <1>2

LEMMA KeySets ==
  ASSUME NEW S \in SUBSET Key
  PROVE  /\ IsFiniteSet(S) /\ Cardinality(S) \in Nat
         /\ \A x \in S : Cardinality(S \ {x}) = Cardinality(S) - 1
         /\ Cardinality(S) = 0 <=> S = {}
<1>1. IsFiniteSet(S)
  BY KeyAssumption, FS_Subset
<1> QED
  BY <1>1, FS_CardinalityType, FS_RemoveElement, FS_EmptySet

\* Among sets of keys there is a smallest one.
LEMMA Smallest ==
  ASSUME NEW T, T \subseteq SUBSET Key, T # {}
  PROVE  \E S \in T : \A R \in T : Cardinality(S) <= Cardinality(R)
<1> DEFINE sizes == {Cardinality(S) : S \in T}
<1>1. sizes \subseteq Nat /\ sizes # {}
  BY KeySets
<1>2. PICK n \in sizes : \A i \in sizes : n <= i
  BY <1>1, Least
<1> QED
  BY <1>2

\* The sum exists: one of one more key is made from any of one fewer.
Smaller(n) == {S \in SUBSET Key : Cardinality(S) <= n}
Added(m, f, S) ==
  IF S = {} THEN 0 ELSE LET k == CHOOSE x \in S : TRUE IN Room(m, k) + f[S \ {k}]
Sums(m, D, f) == f = [S \in D |-> Added(m, f, S)]

LEMMA SmallerType ==
  ASSUME NEW n, NEW S
  PROVE  S \in Smaller(n) <=> S \in SUBSET Key /\ Cardinality(S) <= n
BY DEF Smaller

LEMMA SumsUpTo ==
  ASSUME NEW m, NEW n \in Nat
  PROVE  \E f : Sums(m, Smaller(n), f)
<1> DEFINE missing == {i \in Nat : ~ \E f : Sums(m, Smaller(i), f)}
<1>1. SUFFICES ASSUME missing # {} PROVE FALSE
  OBVIOUS
<1>2. PICK i \in missing : \A j \in missing : i <= j
  BY <1>1, Least
<1>3. CASE i = 0
  <2> DEFINE f == [S \in Smaller(0) |-> 0]
  <2>1. \A S \in Smaller(0) : S = {}
    BY KeySets, SmallerType
  <2>2. Sums(m, Smaller(0), f)
    BY <2>1 DEF Sums, Added
  <2> QED
    BY <1>3, <2>2
<1>4. CASE i # 0
  <2>1. i - 1 \in Nat /\ i - 1 \notin missing
    BY <1>2, <1>4
  <2>2. PICK f : Sums(m, Smaller(i - 1), f)
    BY <2>1
  <2> DEFINE g == [S \in Smaller(i) |-> Added(m, f, S)]
  <2>3. \A S \in Smaller(i - 1) : S \in Smaller(i)
    BY <2>1, KeySets, SmallerType
  <2>4. ASSUME NEW S \in Smaller(i - 1) PROVE g[S] = f[S]
    BY <2>2, <2>3 DEF Sums
  <2>5. ASSUME NEW S \in Smaller(i), NEW x \in S PROVE S \ {x} \in Smaller(i - 1)
    <3>1. S \in SUBSET Key /\ Cardinality(S) \in Nat /\ Cardinality(S) <= i
          /\ Cardinality(S \ {x}) = Cardinality(S) - 1
      BY KeySets, SmallerType
    <3> QED
      BY <2>1, <3>1, SmallerType
  <2>6. ASSUME NEW S \in Smaller(i) PROVE Added(m, f, S) = Added(m, g, S)
    <3> DEFINE k == CHOOSE x \in S : TRUE
    <3>1. ASSUME S # {} PROVE f[S \ {k}] = g[S \ {k}]
      <4>1. S \ {k} \in Smaller(i - 1)
        BY <2>5, <3>1
      <4> QED
        BY <2>4, <4>1
    <3> HIDE DEF g
    <3> QED
      BY <3>1 DEF Added
  <2>7. Sums(m, Smaller(i), g)
    BY <2>6 DEF Sums
  <2> QED
    BY <2>7
<1> QED
  BY <1>3, <1>4

LEMMA TotalSums ==
  ASSUME NEW m
  PROVE  Sums(m, SUBSET Key, LiveTotal(m))
<1>1. Smaller(Cardinality(Key)) = SUBSET Key
  BY KeyAssumption, FS_Subset DEF Smaller
<1>2. Cardinality(Key) \in Nat
  BY KeySets
<1>3. \E f : Sums(m, SUBSET Key, f)
  BY <1>1, <1>2, SumsUpTo
<1>4. LiveTotal(m) = CHOOSE f : Sums(m, SUBSET Key, f)
  BY DEF LiveTotal, Sums, Added
<1> QED
  BY <1>3, <1>4

LEMMA TotalOf ==
  ASSUME NEW m, NEW S \in SUBSET Key, S # {}
  PROVE  \E k \in S : LiveTotal(m)[S] = Room(m, k) + LiveTotal(m)[S \ {k}]
<1> DEFINE k == CHOOSE x \in S : TRUE
<1>1. k \in S
  OBVIOUS
<1>2. LiveTotal(m)[S] = Room(m, k) + LiveTotal(m)[S \ {k}]
  BY TotalSums DEF Sums, Added
<1> QED
  BY <1>1, <1>2

LEMMA TotalNone ==
  ASSUME NEW m
  PROVE  LiveTotal(m)[{}] = 0
BY TotalSums DEF Sums, Added

LEMMA RoomType ==
  ASSUME NEW m \in [Key -> Value \cup {Tomb}], NEW k \in Key
  PROVE  Room(m, k) \in Nat
BY ValueAssumption DEF Room

LEMMA TotalType ==
  ASSUME NEW m \in [Key -> Value \cup {Tomb}], NEW S \in SUBSET Key
  PROVE  LiveTotal(m)[S] \in Nat
<1> DEFINE T == {R \in SUBSET Key : LiveTotal(m)[R] \notin Nat}
<1>1. SUFFICES ASSUME T # {} PROVE FALSE
  OBVIOUS
<1>2. PICK R \in T : \A Q \in T : Cardinality(R) <= Cardinality(Q)
  BY <1>1, Smallest
<1>3. R # {}
  BY TotalNone
<1>4. PICK k \in R : LiveTotal(m)[R] = Room(m, k) + LiveTotal(m)[R \ {k}]
  BY <1>3, TotalOf
<1>5. R \ {k} \notin T
  BY <1>2, KeySets
<1> QED
  BY <1>4, <1>5, RoomType

\* The order in which the sum takes the keys does not matter.
LEMMA TotalWith ==
  ASSUME NEW m \in [Key -> Value \cup {Tomb}], NEW S \in SUBSET Key, NEW x \in S
  PROVE  LiveTotal(m)[S] = Room(m, x) + LiveTotal(m)[S \ {x}]
<1> DEFINE Split(R) == \A y \in R : LiveTotal(m)[R] = Room(m, y) + LiveTotal(m)[R \ {y}]
           T == {R \in SUBSET Key : ~ Split(R)}
<1>1. SUFFICES ASSUME T # {} PROVE FALSE
  OBVIOUS
<1>2. PICK R \in T : \A Q \in T : Cardinality(R) <= Cardinality(Q)
  BY <1>1, Smallest
<1>3. PICK y \in R : LiveTotal(m)[R] # Room(m, y) + LiveTotal(m)[R \ {y}]
  OBVIOUS
<1>4. PICK k \in R : LiveTotal(m)[R] = Room(m, k) + LiveTotal(m)[R \ {k}]
  BY <1>3, TotalOf
<1>5. ASSUME NEW z \in R PROVE Split(R \ {z})
  BY <1>2, KeySets
<1>6. k # y
  BY <1>3, <1>4
<1>7. LiveTotal(m)[R \ {k}] = Room(m, y) + LiveTotal(m)[(R \ {k}) \ {y}]
  BY <1>5, <1>6
<1>8. LiveTotal(m)[R \ {y}] = Room(m, k) + LiveTotal(m)[(R \ {y}) \ {k}]
  BY <1>5, <1>6
<1>9. (R \ {k}) \ {y} = (R \ {y}) \ {k}
  OBVIOUS
<1>10. /\ Room(m, k) \in Nat /\ Room(m, y) \in Nat
       /\ LiveTotal(m)[(R \ {y}) \ {k}] \in Nat
  BY RoomType, TotalType
<1> DEFINE rest == LiveTotal(m)[(R \ {y}) \ {k}]
<1>11. Room(m, k) + (Room(m, y) + rest) = Room(m, y) + (Room(m, k) + rest)
  BY <1>10
<1> QED
  BY <1>3, <1>4, <1>7, <1>8, <1>9, <1>11

\* Keys that store nothing take no room.
LEMMA TotalOfStored ==
  ASSUME NEW m \in [Key -> Value \cup {Tomb}], NEW S \in SUBSET Key, \A k \in Key \ S : m[k] = Tomb
  PROVE  LiveTotal(m)[S] = LiveTotal(m)[Key]
<1> DEFINE T == {R \in SUBSET Key : S \subseteq R /\ LiveTotal(m)[R] # LiveTotal(m)[S]}
<1>1. SUFFICES ASSUME T # {} PROVE FALSE
  OBVIOUS
<1>2. PICK R \in T : \A Q \in T : Cardinality(R) <= Cardinality(Q)
  BY <1>1, Smallest
<1>3. PICK k \in R : k \notin S
  OBVIOUS
<1>4. R \ {k} \in SUBSET Key /\ S \subseteq R \ {k} /\ R \ {k} \notin T
  BY <1>2, <1>3, KeySets
<1>5. Room(m, k) = 0
  BY <1>3 DEF Room
<1>6. LiveTotal(m)[R] = LiveTotal(m)[R \ {k}]
  BY <1>5, TotalWith, TotalType
<1> QED
  BY <1>4, <1>6
----------------------------------------------------------------------------
(* The room that a compaction makes. *)

\* The keys of the survivors among the first c - 1 records.
KeysOf(log, c) == {k \in Key : Walked(log, c, k) # {}}

LEMMA KeysSkipped ==
  ASSUME NEW log, NEW c \in Nat, c >= 1, ~ Survives(log, c)
  PROVE  KeysOf(log, c + 1) = KeysOf(log, c)
BY WalkedNext DEF KeysOf

\* A survivor is the last committed record of its key: what the key reads, and not walked before.
LEMMA KeysCopied ==
  ASSUME NEW log \in Seq(Record), NEW c \in 1 .. Len(log), Survives(log, c)
  PROVE  /\ log[c].key \in Key /\ log[c].val \in Value
         /\ KeysOf(log, c + 1) = KeysOf(log, c) \cup {log[c].key}
         /\ log[c].key \notin KeysOf(log, c)
         /\ Find(log, log[c].key) = log[c].val
<1>1. Len(log) \in Nat /\ c \in Nat /\ c >= 1
  BY LenProperties
<1>2. log[c] \in Record
  BY ElementOfSeq
<1>3. log[c].key \in Key /\ log[c].val \in Value
  BY <1>2 DEF Record, Survives
<1>4. KeysOf(log, c + 1) = KeysOf(log, c) \cup {log[c].key}
  BY <1>1, <1>3, WalkedNext DEF KeysOf
<1>5. ASSUME NEW i \in Walked(log, c, log[c].key) PROVE FALSE
  <2>1. i \in 1 .. c - 1 /\ log[i].key = log[c].key /\ Survives(log, i)
    BY DEF Walked
  <2>2. c \in i + 1 .. Len(log)
    BY <1>1, <2>1
  <2> QED
    BY <2>1, <2>2 DEF Survives
<1>6. c \in Committed(log, log[c].key)
  BY DEF Committed, Survives
<1>7. ASSUME NEW j \in Committed(log, log[c].key) PROVE j <= c
  <2>1. j \in 1 .. Len(log) /\ log[j].key = log[c].key /\ log[j].ok
    BY DEF Committed
  <2>2. j \notin c + 1 .. Len(log)
    BY <2>1 DEF Survives
  <2> QED
    BY <1>1, <2>1, <2>2
<1>8. Find(log, log[c].key) = log[c].val
  BY <1>3, <1>6, <1>7, FindIs
<1> QED
  BY <1>3, <1>4, <1>5, <1>8 DEF KeysOf

\* A record appended at the end of a log makes it longer by its size.
LEMMA EndAppended ==
  ASSUME NEW log \in Seq(Record), NEW r \in Record, r.off = End(log)
  PROVE  End(Append(log, r)) = End(log) + Size[r.val]
<1>1. Len(Append(log, r)) = Len(log) + 1 /\ Append(log, r)[Len(log) + 1] = r /\ Append(log, r) # <<>>
  BY AppendProperties, LenProperties, EmptySeq
<1> QED
  BY <1>1 DEF End

LEMMA ActiveRead ==
  ASSUME IInv, pc \notin {"off", "free"}
  PROVE  Recovered(page) = [k \in Key |-> Find(page[active].log, k)]
BY DEF IInv, ActiveIsNewest, Recovered

\* One more record is copied: the room of one more key.
LEMMA RecordPacked ==
  ASSUME IInv, CopyPacked, pc = "copy", cursor <= Len(page[active].log), Survives(page[active].log, cursor)
  PROVE  End(Copied(cursor).log) = LiveTotal(Recovered(page))[KeysOf(page[active].log, cursor + 1)]
<1> DEFINE old == page[active].log
           new == page[Spare].log
           k == old[cursor].key
           v == old[cursor].val
           m == Recovered(page)
           S == KeysOf(old, cursor)
           r == [old[cursor] EXCEPT !.off = End(new)]
<1>1. old \in Seq(Record) /\ new \in Seq(Record) /\ page[Spare] \in Page /\ Len(old) \in Nat
  BY IInvFacts, GoodIsPage, LenProperties
<1>2. cursor \in 1 .. Len(old)
  BY <1>1 DEF IInv, CopyMatches
<1>3. /\ k \in Key /\ v \in Value /\ k \notin S /\ KeysOf(old, cursor + 1) = S \cup {k}
      /\ Find(old, k) = v
  BY <1>1, <1>2, KeysCopied
<1>4. m \in [Key -> Value \cup {Tomb}] /\ m[k] = v
  BY <1>3, ActiveRead, ReadingType DEF IInv
<1>5. S \in SUBSET Key
  BY DEF KeysOf
<1>6. End(new) = LiveTotal(m)[S]
  BY DEF CopyPacked, CopiedKeys, KeysOf
<1>7. r \in Record /\ r.val = v /\ r.off = End(new)
  <2>1. old[cursor] \in Record
    BY <1>1, <1>2, ElementOfSeq
  <2> QED
    BY <1>1, <2>1, EndType DEF Record
<1>8. Copied(cursor).log = Append(new, r)
  BY <1>1 DEF Copied, Page
<1>9. End(Copied(cursor).log) = LiveTotal(m)[S] + Size[v]
  BY <1>1, <1>6, <1>7, <1>8, EndAppended
<1>10. Room(m, k) = Size[v] /\ Size[v] \in Nat
  BY <1>3, <1>4, ValueAssumption DEF Room
<1>11. (S \cup {k}) \ {k} = S /\ S \cup {k} \in SUBSET Key
  BY <1>3, <1>5
<1>12. LiveTotal(m)[S \cup {k}] = Room(m, k) + LiveTotal(m)[S]
  BY <1>4, <1>11, TotalWith
<1>13. LiveTotal(m)[S] \in Nat
  BY <1>4, <1>5, TotalType
<1> HIDE DEF k, v, m, S, old
<1>14. Size[v] + LiveTotal(m)[S] = LiveTotal(m)[S] + Size[v]
  BY <1>10, <1>13
<1> QED
  BY <1>3, <1>9, <1>10, <1>12, <1>14 DEF old, m

\* A finished copy is as long as the live set: a key it does not hold reads nothing.
LEMMA AllPacked ==
  ASSUME IInv, CopyPacked, pc = "copy", cursor > Len(page[active].log)
  PROVE  End(page[Spare].log) = LiveSize(Recovered(page))
<1> DEFINE old == page[active].log
           new == page[Spare].log
           m == Recovered(page)
<1>1. old \in Seq(Record) /\ HasLatest(old) /\ Len(old) \in Nat
  BY IInvFacts, LenProperties
<1>2. cursor = Len(old) + 1 /\ Holds(old, new, cursor)
  BY <1>1 DEF IInv, CopyMatches
<1>3. m \in [Key -> Value \cup {Tomb}] /\ \A k \in Key : m[k] = Find(old, k)
  BY ActiveRead, ReadingType DEF IInv
<1>4. \A k \in Key : m[k] = Find(new, k)
  BY <1>1, <1>2, <1>3, HoldsAll
<1>5. \A k \in Key \ CopiedKeys : m[k] = Tomb
  BY <1>2, <1>4 DEF CopiedKeys, Holds
<1>6. CopiedKeys \in SUBSET Key
  BY DEF CopiedKeys
<1>7. LiveTotal(m)[CopiedKeys] = LiveTotal(m)[Key]
  BY <1>3, <1>5, <1>6, TotalOfStored
<1> QED
  BY <1>7 DEF CopyPacked, LiveSize

\* A cut-short step leaves the compaction.
LEMMA CutShortEnds ==
  ASSUME NEW s, NEW outcomes, NEW fault, NEW err, CutShort(s, outcomes, fault, err)
  PROVE  pc' \in {"off", "idle"}
BY DEF CutShort, PowerOff, Fail, Return

LEMMA PackedKept ==
  ASSUME IInv, IInv', MapStep, [Next]_vars, CopyPacked, SealPacked
  PROVE  CopyPacked' /\ SealPacked'
<1>1. CASE pc' \notin {"copy", "free"}
  BY <1>1 DEF CopyPacked, SealPacked
<1>2. CASE UNCHANGED vars
  <2>1. page' = page /\ Spare' = Spare /\ CopiedKeys' = CopiedKeys /\ pc' = pc
    BY <1>2 DEF vars, Spare, CopiedKeys, Walked
  <2> QED
    BY <2>1, ReadingPrime DEF CopyPacked, SealPacked
<1>3. CASE CompactStep /\ pc' \in {"copy", "free"}
  <2>1. Recovered(page') = Recovered(page)
    BY <1>3, CompactRuns
  <2>2. active \in Side /\ Spare \in Side /\ Spare # active /\ page \in [Side -> GoodPage]
    BY IInvFacts DEF IInv
  <2>3. CASE EraseSpare
    <3>1. page' = [page EXCEPT ![Spare] = Erased] /\ pc' = "copy" /\ cursor' = 1 /\ active' = active
      BY <1>3, <2>3, CutShortEnds DEF EraseSpare, ram
    <3>2. page'[Spare].log = <<>> /\ Spare' = Spare
      BY <2>2, <3>1 DEF Erased, Spare
    <3>3. CopiedKeys' = {}
      BY <3>1 DEF CopiedKeys, Walked
    <3>4. End(page[Spare].log)' = 0
      BY <3>2 DEF End
    <3> QED
      BY <3>1, <3>3, <3>4, TotalNone DEF CopyPacked, SealPacked
  <2>4. CASE CopyRecord
    <3>1. /\ pc = "copy" /\ pc' = "copy" /\ cursor <= Len(page[active].log) /\ cursor' = cursor + 1
          /\ active' = active /\ Spare' = Spare
          /\ \/ ~ Survives(page[active].log, cursor) /\ page' = page
             \/ /\ Survives(page[active].log, cursor)
                /\ page' = [page EXCEPT ![Spare] = Copied(cursor)]
      BY <1>3, <2>4, CutShortEnds DEF CopyRecord, ram, Spare
    <3>2. page'[active] = page[active]
      BY <2>2, <3>1
    <3>3. CopiedKeys' = KeysOf(page[active].log, cursor + 1)
      BY <3>1, <3>2 DEF CopiedKeys, KeysOf, Walked
    <3>4. cursor \in Nat /\ cursor >= 1
      BY <3>1 DEF IInv, CopyMatches
    <3>5. End(page'[Spare].log) = LiveTotal(Recovered(page))[KeysOf(page[active].log, cursor + 1)]
      <4>1. CASE ~ Survives(page[active].log, cursor) /\ page' = page
        <5>1. KeysOf(page[active].log, cursor + 1) = CopiedKeys
          BY <3>4, <4>1, KeysSkipped DEF CopiedKeys, KeysOf
        <5> QED
          BY <3>1, <4>1, <5>1 DEF CopyPacked
      <4>2. CASE Survives(page[active].log, cursor) /\ page' = [page EXCEPT ![Spare] = Copied(cursor)]
        BY <2>2, <3>1, <4>2, RecordPacked
      <4> QED
        BY <3>1, <4>1, <4>2
    <3> QED
      BY <2>1, <3>1, <3>3, <3>5, ReadingPrime DEF CopyPacked, SealPacked
  <2>5. CASE Seal
    <3>1. /\ pc = "copy" /\ cursor > Len(page[active].log) /\ active' = active
          /\ page' = [page EXCEPT ![Spare].hdr = "ok", ![Spare].seq = NextSeq(seq)] /\ pc' = "free"
      BY <1>3, <2>5 DEF Seal, ram, PowerOff
    <3>2. Spare' = Spare /\ page'[Spare].log = page[Spare].log
      BY <2>2, <3>1, GoodIsPage DEF Spare, Page
    <3> QED
      BY <2>1, <3>1, <3>2, AllPacked, ReadingPrime DEF CopyPacked, SealPacked
  <2>6. CASE Discard \/ FreeOld
    BY <1>3, <2>6, CutShortEnds DEF Discard, FreeOld, Fail, Return, PowerOff
  <2> QED
    BY <1>3, <2>3, <2>4, <2>5, <2>6 DEF CompactStep
<1>4. ASSUME Next, ~ CompactStep PROVE pc' \notin {"copy", "free"}
  BY <1>4, CutShortEnds DEF Next, MountStep, MountVirgin, MountClean, MountTorn, Call, SetValue, EraseValue,
     StartAppend, Compact, AppendStep, FormatPage, CheckSpace, ProgramHeader, ProgramPayload, Return,
     PowerLoss, PowerOff
<1> QED
  BY <1>1, <1>2, <1>3, <1>4

----------------------------------------------------------------------------
(* The invariant, initially and through every step. *)

LEMMA ServiceInitKeeps == ServiceInit => ServiceInv
<1> SUFFICES ASSUME ServiceInit PROVE ServiceInv
  OBVIOUS
<1>1. Init /\ IInv /\ TypeOK
  BY InitKeeps DEF ServiceInit, IInv
<1>2. pc = "off" /\ ~ mounting
  BY <1>1 DEF Init
<1>3. base = Recovered(page) /\ base \in [Key -> Value \cup {Tomb}]
  BY <1>1, ReadingType DEF ServiceInit, IInv
<1>4. After(done) = base
  BY <1>3, OverwrittenNone DEF After, ServiceInit
<1>5. ServiceTypeOK
  <2>1. /\ armed \in BOOLEAN /\ ride \in BOOLEAN
        /\ entries \in Seq([key : Key, val : Value \cup {Tomb}] \cup {Bad}) /\ Len(entries) = 0
    BY EmptySeq DEF ServiceInit
  <2> QED
    BY <1>1, <1>3, <2>1 DEF ServiceInit, ServiceTypeOK
<1>6. ArmedIsIdle /\ HandlerShape /\ StoreServes /\ StepApplied /\ PrefixApplied
  BY <1>2, <1>3, <1>4 DEF ServiceInit, ArmedIsIdle, HandlerShape, StoreServes, Writing, Appending,
     Compacting, StepApplied, PrefixApplied
<1> QED
  BY <1>1, <1>5, <1>6 DEF ServiceInv

LEMMA ServiceNextKeeps ==
  ASSUME "free" \notin Faults, "late" \notin Faults, ServiceInv, [ServiceNext]_allVars
  PROVE  ServiceInv'
<1>1. IInv' /\ MapStep /\ TypeOK'
  BY StoreKeeps
<1>2. CASE UNCHANGED allVars
  <2>1. UNCHANGED <<page, pc, call, mounting, reply, armed, handler, step, entries, done, base, status, addr, ride>>
    BY <1>2 DEF allVars, vars, service
  <2>2. ServiceTypeOK' /\ ArmedIsIdle' /\ HandlerShape' /\ StoreServes'
    BY <1>1, <2>1 DEF ServiceInv, ServiceTypeOK, ArmedIsIdle, HandlerShape, StoreServes, Writing, Appending,
       Compacting
  <2>3. StepApplied' /\ PrefixApplied'
    BY <2>1, AfterKept, ReadingPrime, PrefixKept DEF ServiceInv, StepApplied
  <2> QED
    BY <1>1, <2>2, <2>3 DEF ServiceInv
<1>3. CASE Serve
  BY <1>1, <1>3, PersistKeeps, CompactCallKeeps, AnsweredKeeps DEF Serve
<1> QED
  BY <1>1, <1>2, <1>3, BootKeeps, StoreStepKeeps, ResetKeeps, SamplePassKeeps, RequestKeeps DEF ServiceNext

----------------------------------------------------------------------------
(* What is refused for want of room. *)

LEMMA LiveKept ==
  ASSUME Recovered(page') = Recovered(page)
  PROVE  LiveSize(Recovered(page))' = LiveSize(Recovered(page))
BY ReadingPrime

\* A step that begins nothing of the compaction and the retry, and does not refuse for want of room.
LEMMA RoomIrrelevant ==
  ASSUME step' \in {"none", "persist", "called", "repacking"} \/ (step' = "compacting" /\ pc' # "idle"),
         status' # "no_space", status' = "none" \/ pc' = "idle"
  PROVE  RoomMade' /\ RetryRefused' /\ AnsweredAtRest' /\ NoSpaceIsGenuine'
BY DEF RoomMade, RetryRefused, AnsweredAtRest, NoSpaceIsGenuine

LEMMA AppendRoom ==
  ASSUME RoomInv, AppendStep, UNCHANGED <<step, entries, done, status>>
  PROVE  RoomMade' /\ RetryRefused' /\ AnsweredAtRest' /\ NoSpaceIsGenuine'
<1>1. Appending
  BY DEF AppendStep, FormatPage, CheckSpace, ProgramHeader, ProgramPayload, Appending
<1>2. /\ step \in {"called", "retried"} /\ status = "none"
      /\ call = [key |-> entries[done + 1].key, val |-> entries[done + 1].val]
  BY <1>1 DEF RoomInv, ServiceInv, StoreServes, AnsweredAtRest, Appending
<1>3. AnsweredAtRest' /\ NoSpaceIsGenuine'
  BY <1>2 DEF AnsweredAtRest, NoSpaceIsGenuine
<1>4. ASSUME step = "retried" PROVE ~ (pc' = "append")
  <2>1. ~ FormatPage
    BY <1>4 DEF FormatPage, RoomInv, RoomMade
  <2> QED
    BY <2>1, CutShortEnds DEF AppendStep, CheckSpace, ProgramHeader, ProgramPayload, Return
<1>5. ASSUME step = "retried", pc' = "idle", reply' = "full"
      PROVE  LiveSize(Recovered(page))' + Size[entries[done + 1].val] > PageCap
  <2>1. CheckSpace /\ ~ Fits(frontier, call.val) /\ page' = page
    <3>1. ~ FormatPage
      BY <1>5 DEF FormatPage, RoomInv, RoomMade
    <3>2. ~ ProgramHeader
      BY <1>5 DEF ProgramHeader, CutShort, PowerOff, Fail, Return
    <3>3. ~ ProgramPayload
      BY <1>5 DEF ProgramPayload, CutShort, PowerOff, Fail, Return
    <3> QED
      BY <1>5, <3>1, <3>2, <3>3 DEF AppendStep, CheckSpace, Return
  <2>2. frontier = LiveSize(Recovered(page))
    BY <1>5, <2>1 DEF CheckSpace, RoomInv, RoomMade
  <2>3. LiveSize(Recovered(page))' = LiveSize(Recovered(page))
    BY <2>1, LiveKept
  <2>4. Writing /\ entries[done + 1] # Bad
    BY <1>2 DEF RoomInv, ServiceInv, HandlerShape, ServiceTypeOK, Writing
  <2>5. Size[entries[done + 1].val] \in Nat
    BY <2>4, EntryType, ValueAssumption DEF Entry, RoomInv
  <2>6. frontier \in Nat /\ PageCap \in Nat
    BY ValueAssumption DEF RoomInv, ServiceInv, ServiceTypeOK, TypeOK
  <2> QED
    BY <1>2, <2>1, <2>2, <2>3, <2>5, <2>6 DEF Fits
<1>6. RoomMade'
  BY <1>2, <1>4 DEF RoomMade
<1>7. RetryRefused'
  BY <1>5 DEF RetryRefused
<1> QED
  BY <1>3, <1>6, <1>7

LEMMA CompactRoom ==
  ASSUME "free" \notin Faults, RoomInv, MapStep, CompactStep, UNCHANGED <<step, status>>
  PROVE  RoomMade' /\ RetryRefused' /\ AnsweredAtRest' /\ NoSpaceIsGenuine'
<1>1. Compacting /\ Recovered(page') = Recovered(page)
  BY CompactRuns DEF RoomInv, ServiceInv
<1>2. step \in {"none", "compacting", "repacking"} /\ status = "none"
  BY <1>1 DEF RoomInv, ServiceInv, ServiceTypeOK, HandlerShape, StoreServes, AnsweredAtRest, Compacting
<1>3. AnsweredAtRest' /\ NoSpaceIsGenuine' /\ RetryRefused'
  BY <1>2 DEF AnsweredAtRest, NoSpaceIsGenuine, RetryRefused
<1>4. ASSUME step = "compacting", pc' = "idle", reply' = "ok"
      PROVE  Valid(page, active)' /\ frontier' = LiveSize(Recovered(page))'
  <2>1. /\ pc = "free" /\ page' = [page EXCEPT ![active] = Erased]
        /\ active' = Spare /\ frontier' = End(page[Spare].log)
    BY <1>4 DEF CompactStep, EraseSpare, CopyRecord, Seal, Discard, FreeOld, CutShort, PowerOff, Fail, Return
  <2>2. active \in Side /\ Spare \in Side /\ Spare # active /\ page \in [Side -> GoodPage]
    BY IInvFacts DEF RoomInv, ServiceInv, IInv
  <2>3. page'[active'] = page[Spare] /\ Valid(page, Spare)
    BY <2>1, <2>2 DEF RoomInv, ServiceInv, IInv, SealMatches
  <2>4. Valid(page, active)'
    BY <2>3 DEF Valid
  <2>5. frontier' = LiveSize(Recovered(page))
    BY <2>1 DEF RoomInv, SealPacked
  <2> QED
    BY <1>1, <2>4, <2>5, LiveKept
<1>5. RoomMade'
  BY <1>2, <1>4 DEF RoomMade
<1> QED
  BY <1>3, <1>5

LEMMA PersistRoom ==
  ASSUME RoomInv, Persist
  PROVE  RoomMade' /\ RetryRefused' /\ AnsweredAtRest' /\ NoSpaceIsGenuine'
<1> DEFINE e == entries[done + 1]
<1>1. Writing /\ step \in {"persist", "again"} /\ UNCHANGED <<entries, done>>
  BY PersistCalls DEF Persist, RoomInv
<1>2. status = "none" /\ pc = "idle"
  <2>1. handler \notin {"none", "compact"}
    BY <1>1 DEF Writing
  <2>2. ~ Appending /\ ~ Compacting /\ pc # "off" /\ status = "none"
    BY <1>1, <2>1 DEF RoomInv, ServiceInv, HandlerShape, StoreServes
  <2> QED
    BY <2>2 DEF Appending, Compacting, RoomInv, ServiceInv, ServiceTypeOK, TypeOK
<1>3. CASE e = Bad
  <2>1. UNCHANGED vars /\ step' = "none" /\ status' \in {"err", "bad"}
    BY <1>3 DEF Persist, Refuse, Respond
  <2> QED
    BY <1>2, <2>1, RoomIrrelevant DEF vars
<1>4. CASE e # Bad
  <2>1. /\ CallStore(e) /\ status' = status
        /\ step' = IF step = "again" THEN "retried" ELSE "called"
    BY <1>4 DEF Persist, GoesOn
  <2>2. /\ page' = page
        /\ active' = active /\ frontier' = frontier
        /\ pc' = "idle" => reply' # "full"
    BY <1>2, <2>1 DEF CallStore, SetValue, EraseValue, StartAppend, Return, ram
  <2>3. CASE step = "again"
    <3>1. Valid(page, active) /\ frontier = LiveSize(Recovered(page))
      BY <2>3 DEF RoomInv, RoomMade
    <3>2. RoomMade'
      BY <2>2, <3>1, LiveKept DEF RoomMade, Valid
    <3> QED
      BY <1>2, <2>1, <2>2, <3>2 DEF RetryRefused, AnsweredAtRest, NoSpaceIsGenuine
  <2>4. CASE step = "persist"
    BY <1>2, <2>1, <2>4, RoomIrrelevant
  <2> QED
    BY <1>1, <2>3, <2>4
<1> QED
  BY <1>3, <1>4

\* The store's answer is read.
LEMMA AnsweredRoom ==
  ASSUME RoomInv, Persisted \/ MadeRoom \/ NotPersisted \/ Compacted
  PROVE  RoomMade' /\ RetryRefused' /\ AnsweredAtRest' /\ NoSpaceIsGenuine'
<1>1. /\ UNCHANGED <<vars, entries>> /\ pc = "idle" /\ handler # "none" /\ status = "none"
  <2>1. UNCHANGED <<vars, entries>> /\ pc = "idle" /\ step # "none"
    BY DEF Persisted, MadeRoom, NotPersisted, Compacted
  <2> QED
    BY <2>1 DEF RoomInv, ServiceInv, HandlerShape
<1>2. UNCHANGED <<page, pc, active, frontier, reply, entries>>
  BY <1>1 DEF vars
<1>3. CASE Persisted
  <2>1. step' \in {"none", "persist"} /\ status' \in {"none", "ok"}
    BY <1>1, <1>3 DEF Persisted, Respond, GoesOn
  <2> QED
    BY <1>1, <1>2, <2>1, RoomIrrelevant
<1>4. CASE MadeRoom /\ reply = "ok"
  <2>1. step = "compacting" /\ step' = "again" /\ status' = "none"
    BY <1>1, <1>4 DEF MadeRoom, GoesOn
  <2>2. Valid(page, active) /\ frontier = LiveSize(Recovered(page))
    BY <1>1, <1>4, <2>1 DEF RoomInv, RoomMade
  <2>3. RoomMade'
    BY <1>2, <2>2, LiveKept DEF RoomMade, Valid
  <2> QED
    BY <2>1, <2>3 DEF RetryRefused, AnsweredAtRest, NoSpaceIsGenuine
<1>5. CASE MadeRoom /\ reply # "ok"
  <2>1. step' = "none" /\ status' \in {"err", "commit_failed", "store_err"}
    BY <1>5 DEF MadeRoom, Refuse, Respond
  <2> QED
    BY <1>1, <1>2, <2>1, RoomIrrelevant
<1>6. CASE NotPersisted
  <2>1. step' = "none" /\ done' = done /\ (status' = "no_space" => reply = "full" /\ step = "retried")
    BY <1>6 DEF NotPersisted, Refuse, Respond
  <2>2. ASSUME status' = "no_space"
        PROVE  LiveSize(Recovered(page)) + Size[entries[done + 1].val] > PageCap
    BY <1>1, <2>1, <2>2 DEF RoomInv, RetryRefused
  <2>3. NoSpaceIsGenuine'
    BY <1>2, <2>1, <2>2, LiveKept DEF NoSpaceIsGenuine
  <2> QED
    BY <1>1, <1>2, <2>1, <2>3 DEF RoomMade, RetryRefused, AnsweredAtRest
<1>7. CASE Compacted
  <2>1. step' = "none" /\ status' \in {"ok", "commit_failed", "store_err"}
    BY <1>7 DEF Compacted, Respond
  <2> QED
    BY <1>1, <1>2, <2>1, RoomIrrelevant
<1> QED
  BY <1>3, <1>4, <1>5, <1>6, <1>7

\* A new request, or a sample of the arm fact.
LEMMA ArrivalRoom ==
  ASSUME RoomInv, SamplePass \/ Request
  PROVE  RoomMade' /\ RetryRefused' /\ AnsweredAtRest' /\ NoSpaceIsGenuine'
<1>1. UNCHANGED vars /\ pc = "idle" /\ handler = "none"
  BY DEF SamplePass, Request, ConfigWrite, Assign, ConfigCompact, Ingest
<1>2. step = "none" /\ UNCHANGED <<page, pc>>
  BY <1>1 DEF RoomInv, ServiceInv, HandlerShape, vars
<1>3. CASE UNCHANGED <<step, entries, done, status>>
  <2>1. NoSpaceIsGenuine'
    BY <1>2, <1>3, LiveKept DEF RoomInv, NoSpaceIsGenuine
  <2> QED
    BY <1>1, <1>2, <1>3, <2>1 DEF RoomMade, RetryRefused, AnsweredAtRest
<1>4. CASE step' \in {"none", "persist"} /\ status' \in {"none", "err", "armed"}
  BY <1>1, <1>2, <1>4, RoomIrrelevant
<1>5. CASE SamplePass
  BY <1>3, <1>4, <1>5 DEF SamplePass, Starts
<1>6. CASE Request
  <2>1. ASSUME NEW h \in {"write", "assign", "compact"}, NEW req, Ingest(h, req)
        PROVE  step' \in {"none", "persist"} /\ status' \in {"none", "err", "armed"}
    BY <2>1 DEF Ingest, Respond, Starts
  <2> QED
    BY <1>4, <1>6, <2>1 DEF Request, ConfigWrite, Assign, ConfigCompact
<1> QED
  BY <1>5, <1>6

LEMMA RoomInitKeeps == ServiceInit => RoomInv
<1> SUFFICES ASSUME ServiceInit PROVE RoomInv
  OBVIOUS
<1>1. ServiceInv
  BY ServiceInitKeeps
<1>2. pc = "off" /\ step = "none" /\ status = "none"
  BY DEF ServiceInit, Init
<1> QED
  BY <1>1, <1>2 DEF RoomInv, CopyPacked, SealPacked, RoomMade, RetryRefused, AnsweredAtRest, NoSpaceIsGenuine

LEMMA RoomNextKeeps ==
  ASSUME "free" \notin Faults, "late" \notin Faults, RoomInv, [ServiceNext]_allVars
  PROVE  RoomInv'
<1>1. ServiceInv /\ ServiceInv'
  BY ServiceNextKeeps DEF RoomInv
<1>2. IInv /\ IInv' /\ MapStep /\ [Next]_vars
  BY <1>1, StoreKeeps, StoreIsDriven DEF ServiceInv
<1>3. CopyPacked' /\ SealPacked'
  BY <1>2, PackedKept DEF RoomInv
<1> DEFINE rest == RoomMade' /\ RetryRefused' /\ AnsweredAtRest' /\ NoSpaceIsGenuine'
<1>4. CASE UNCHANGED allVars
  <2>1. UNCHANGED <<page, pc, active, frontier, reply, step, entries, done, status>>
    BY <1>4 DEF allVars, vars, service
  <2>2. LiveSize(Recovered(page))' = LiveSize(Recovered(page))
    BY <2>1, LiveKept
  <2> QED
    BY <1>1, <1>3, <2>1, <2>2 DEF RoomInv, RoomMade, RetryRefused, AnsweredAtRest, NoSpaceIsGenuine, Valid
<1>5. CASE Boot
  <2>1. pc = "off" /\ UNCHANGED <<handler, step, status>>
    BY <1>5 DEF Boot, MountStep, MountVirgin, MountClean, MountTorn
  <2>2. step = "none" /\ status = "none"
    BY <1>1, <2>1 DEF ServiceInv, HandlerShape, RoomInv, AnsweredAtRest
  <2>3. rest
    BY <2>1, <2>2, RoomIrrelevant
  <2> QED
    BY <1>1, <1>3, <2>3 DEF RoomInv
<1>6. CASE Reset
  <2>1. rest
    BY <1>6, RoomIrrelevant DEF Reset
  <2> QED
    BY <1>1, <1>3, <2>1 DEF RoomInv
<1>7. CASE StoreStep
  <2>1. rest
    BY <1>2, <1>7, AppendRoom, CompactRoom DEF StoreStep
  <2> QED
    BY <1>1, <1>3, <2>1 DEF RoomInv
<1>8. CASE SamplePass \/ Request
  BY <1>1, <1>3, <1>8, ArrivalRoom DEF RoomInv
<1>9. CASE MakeRoom \/ RunCompact
  <2>1. step' \in {"compacting", "repacking"} /\ pc' = "spare" /\ status' = status /\ step # "none"
    BY <1>9 DEF MakeRoom, RunCompact, Compact, GoesOn
  <2>2. status = "none"
    BY <1>1, <2>1 DEF ServiceInv, HandlerShape
  <2>3. rest
    BY <2>1, <2>2, RoomIrrelevant
  <2> QED
    BY <1>1, <1>3, <2>3 DEF RoomInv
<1>10. CASE Persist
  BY <1>1, <1>3, <1>10, PersistRoom DEF RoomInv
<1>11. CASE Persisted \/ MadeRoom \/ NotPersisted \/ Compacted
  BY <1>1, <1>3, <1>11, AnsweredRoom DEF RoomInv
<1> QED
  BY <1>4, <1>5, <1>6, <1>7, <1>8, <1>9, <1>10, <1>11 DEF ServiceNext, Serve

----------------------------------------------------------------------------
(* The theorems. *)

\* Every handler of the responder, and the odometer, works the store through
\* its two calls and nothing else, so the flash of a served board goes through
\* a behaviour of Store, and keeps every promise proved of that
\* (apply_write, on_config_compact, the service loop's odometer write).
THEOREM ServiceRunsStore ==
  ASSUME "free" \notin Faults, "late" \notin Faults
  PROVE  ServiceSpec => Spec
<1>1. ServiceInv /\ [ServiceNext]_allVars => [Next]_vars
  BY StoreIsDriven
<1>2. ServiceInit => Init
  BY DEF ServiceInit
<1> QED
  BY <1>1, <1>2, ServiceInitKeeps, ServiceNextKeeps, PTL DEF ServiceSpec, Spec

\* A multi-write takes effect as a prefix of its entries, the acknowledged ones
\* and at most the one in progress, at every power loss, refused program and
\* compaction between two of them (on_config_write_multi).
THEOREM PrefixAppliedHolds ==
  ASSUME "free" \notin Faults, "late" \notin Faults
  PROVE  ServiceSpec => []PrefixApplied
<1>1. ServiceInv => PrefixApplied
  BY DEF ServiceInv
<1> QED
  BY <1>1, ServiceInitKeeps, ServiceNextKeeps, PTL DEF ServiceSpec

\* A reply of ok means the whole request, durable; an ASSIGN's also the address
\* the board answers to, and the odometer's the total it takes for recorded
\* (on_config_write, on_assign, Odometer::settled).
THEOREM OkIsDurableHolds ==
  ASSUME "free" \notin Faults, "late" \notin Faults
  PROVE  ServiceSpec => OkIsDurable
<1>1. ServiceInv /\ [ServiceNext]_allVars =>
        [ handler # "none" /\ status' = "ok" =>
            /\ done' = Len(entries)
            /\ Recovered(page') = After(done')
            /\ handler = "assign" => addr' = Recovered(page')[AddrKey] ]_allVars
  <2> SUFFICES ASSUME ServiceInv, ServiceNext, handler # "none", status' = "ok"
               PROVE  /\ done' = Len(entries)
                      /\ Recovered(page') = After(done')
                      /\ handler = "assign" => addr' = Recovered(page')[AddrKey]
    OBVIOUS
  <2>1. status = "none" /\ ~ (pc = "off")
    BY DEF ServiceInv, HandlerShape
  <2>2. CASE Persisted
    <3>1. /\ done' = done + 1 /\ done + 1 = Len(entries) /\ page' = page
          /\ pc = "idle" /\ reply = "ok" /\ step \in {"called", "retried"}
          /\ addr' = IF handler = "assign" THEN entries[1].val ELSE addr
      BY <2>1, <2>2 DEF Persisted, GoesOn, vars
    <3>2. Recovered(page) = After(done + 1)
      BY <3>1 DEF ServiceInv, StepApplied
    <3>3. ASSUME handler = "assign" PROVE addr' = Recovered(page)[AddrKey]
      <4>1. Writing /\ Len(entries) = 1 /\ entries[1].key = AddrKey
        BY <3>3 DEF Writing, ServiceInv, HandlerShape
      <4>2. After(done + 1) = [After(done) EXCEPT ![entries[done + 1].key] = entries[done + 1].val]
        <5>1. done \in Nat
          BY <4>1, EntryType
        <5> QED
          BY <5>1, OverwrittenNext DEF After
      <4>3. done \in Nat /\ done = 0
        BY <3>1, <4>1, EntryType
      <4>4. base \in [Key -> Value \cup {Tomb}]
        BY DEF ServiceInv, ServiceTypeOK
      <4>5. After(done) = base
        BY <4>3, <4>4, OverwrittenNone DEF After
      <4>6. After(done + 1) = [base EXCEPT ![AddrKey] = entries[1].val]
        BY <4>1, <4>3, <4>5, <4>2
      <4>7. After(done + 1)[AddrKey] = entries[1].val
        BY <4>4, <4>6, RequestAssumption
      <4> QED
        BY <3>1, <3>2, <3>3, <4>7
    <3> QED
      BY <3>1, <3>2, <3>3
  <2>3. CASE Compacted
    <3>1. step = "repacking" /\ page' = page /\ done' = done
      BY <2>3 DEF Compacted, vars
    <3>2. handler = "compact"
      BY <3>1 DEF ServiceInv, HandlerShape, ServiceTypeOK, Writing
    <3>3. entries = <<>> /\ done \in 0 .. Len(entries) /\ Recovered(page) = After(done)
      BY <3>2 DEF ServiceInv, HandlerShape, StepApplied, ServiceTypeOK
    <3> QED
      BY <3>1, <3>2, <3>3, EmptySeq
  <2> QED
    BY <2>1, <2>2, <2>3 DEF ServiceNext, Boot, StoreStep, Reset, SamplePass, Request, ConfigWrite, Assign,
       ConfigCompact, Ingest, Serve, Persist, MakeRoom, MadeRoom, NotPersisted, RunCompact, Refuse, Respond,
       GoesOn, Starts
<1> QED
  BY <1>1, ServiceInitKeeps, ServiceNextKeeps, PTL DEF ServiceSpec, OkIsDurable

\* CFG_NO_SPACE is genuine: when a write is refused for want of room after its
\* compaction, the values the store holds and the refused one do not fit on a page,
\* whatever was stored, torn or repacked before (apply_write, the second Full).
THEOREM NoSpaceIsGenuineHolds ==
  ASSUME "free" \notin Faults, "late" \notin Faults
  PROVE  ServiceSpec => []NoSpaceIsGenuine
<1>1. RoomInv => NoSpaceIsGenuine
  BY DEF RoomInv
<1> QED
  BY <1>1, RoomInitKeeps, RoomNextKeeps, PTL DEF ServiceSpec

\* An armed board neither programs nor erases flash, whatever is asked of it
\* and whatever its odometer has to record, on flash that may fail in any way
\* (Responder::armed, Odometer::due).
THEOREM ArmedWritesNothingHolds == ServiceSpec => ArmedWritesNothing
<1> DEFINE AtRest == ArmedIsIdle /\ (handler = "none" => step = "none")
<1>1. ServiceInit => AtRest
  BY DEF ServiceInit, ArmedIsIdle
<1>2. AtRest /\ [ServiceNext]_allVars => AtRest' /\ [armed /\ armed' => page' = page]_allVars
  <2> SUFFICES ASSUME AtRest, [ServiceNext]_allVars
               PROVE  AtRest' /\ (armed /\ armed' => page' = page)
    OBVIOUS
  <2>1. CASE UNCHANGED allVars
    BY <2>1 DEF allVars, vars, service, ArmedIsIdle
  <2>2. CASE Boot
    BY <2>2 DEF Boot, MountStep, MountVirgin, MountClean, MountTorn, ArmedIsIdle
  <2>3. CASE StoreStep
    BY <2>3 DEF StoreStep, AppendStep, CompactStep, FormatPage, CheckSpace, ProgramHeader, ProgramPayload,
       EraseSpare, CopyRecord, Seal, Discard, FreeOld, ArmedIsIdle
  <2>4. CASE Reset
    BY <2>4 DEF Reset, ArmedIsIdle
  <2>5. CASE SamplePass
    BY <2>5 DEF SamplePass, Due, Starts, vars, ArmedIsIdle
  <2>6. CASE Request
    <3>1. ASSUME NEW h \in {"write", "assign", "compact"}, NEW req, Ingest(h, req)
          PROVE  AtRest' /\ page' = page
      BY <3>1 DEF Ingest, Respond, Starts, vars, ArmedIsIdle
    <3> QED
      BY <2>6, <3>1 DEF Request, ConfigWrite, Assign, ConfigCompact
  <2>7. CASE Serve
    <3>1. ~ armed
      BY <2>7 DEF Serve, Persist, Persisted, MakeRoom, MadeRoom, NotPersisted, RunCompact, Compacted, ArmedIsIdle
    <3>2. armed' = armed /\ (handler' = "none" => step' = "none")
      BY <2>7 DEF Serve, Persist, Persisted, MakeRoom, MadeRoom, NotPersisted, RunCompact, Compacted,
         Refuse, Respond, GoesOn
    <3> QED
      BY <3>1, <3>2 DEF ArmedIsIdle
  <2> QED
    BY <2>1, <2>2, <2>3, <2>4, <2>5, <2>6, <2>7 DEF ServiceNext
<1> QED
  BY <1>1, <1>2, PTL DEF ServiceSpec, ArmedWritesNothing
=============================================================================
