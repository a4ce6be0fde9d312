--------------------------------- MODULE Walk ---------------------------------
(***************************************************************************)
(* The discovery and address assignment walk (shared/net): a controller on *)
(* one port of a tree of nodes, each a Responder over a Forwarder.         *)
(*                                                                         *)
(* A packet is lost, late, or sent again; a node is power-cycled; a node   *)
(* refuses an ASSIGN (armed, or its store failed).  Whole packets only:    *)
(* the layer below is Link.  A port's medium, the node's identity, and all *)
(* traffic but the walk's own are left out.                                *)
(***************************************************************************)
EXTENDS Integers, Sequences, FiniteSets, SequencesExt

CONSTANTS
  Nodes,       \* boards and bridges
  Host,        \* the controller's end of its link
  NPorts,      \* ports of a node, numbered from 1
  Peer,        \* wiring: from the end <<node, port>>, or <<Host, 1>>, to the other end
  LastBoard,   \* board addresses are 1 .. LastBoard, and guests above: GUEST_FIRST is next
  Slice,       \* guest addresses one node grants from: GUEST_SLICE
  StartAddrs,  \* the addresses the nodes can hold when the walk begins
  MaxNodes,    \* MAX_NODES
  MaxTasks,    \* MAX_TASKS
  Tries,       \* times one request is sent: TRIES
  Faults,      \* kinds of fault: "lost" packet, "reboot", "refused" ASSIGN, "early" retransmit
  MaxFaults,   \* bound: faults in a behaviour
  Cap          \* bound: packets under way to one end; a further one is lost

Ports == 1 .. NPorts
Ends == DOMAIN Peer

ASSUME TreeAssumption ==
  /\ Host \notin Nodes /\ NPorts \in Nat \ {0}
  /\ <<Host, 1>> \in Ends /\ Ends \subseteq (Nodes \X Ports) \cup {<<Host, 1>>}
  /\ \A e \in Ends : Peer[e] \in Ends \ {e} /\ Peer[Peer[e]] = e

ASSUME BoundsAssumption ==
  /\ {LastBoard, Slice, MaxNodes, MaxTasks, Tries, Cap} \subseteq Nat \ {0} /\ MaxFaults \in Nat
  /\ StartAddrs \subseteq [Nodes -> 0 .. LastBoard]
  /\ Faults \subseteq {"lost", "reboot", "refused", "early"}

Gateway == Peer[<<Host, 1>>][1]

NoAddress == 0
IsController(a) == a > LastBoard
Addresses == 1 .. LastBoard + Slice * (LastBoard + 1)

NoPort == 0
EgressSelf == 0
Empty == -1   \* of a port: nothing there; 0 is an unassigned neighbour, else it is its address
Unassigned == 0

VARIABLES
  addr, table,       \* of a node: its node_address, in flash; its routing table, in RAM
  guestSlot, probe,  \* of a node: its next grant; its PROBE_PORTS in progress
  wire,              \* packets under way to each end
  ctl, tries,        \* the controller; its driver's count for the outstanding request
  faults             \* history: how many faults of each kind there were

vars == <<addr, table, guestSlot, probe, wire, ctl, tries, faults>>

NoProbe == [replyTo |-> NoAddress, seen |-> [p \in Ports |-> Empty]]
Probing(n) == probe[n] # NoProbe

Happens(fault) ==
  /\ fault \in Faults
  /\ faults.lost + faults.reboot + faults.refused + faults.early < MaxFaults
  /\ faults' = [faults EXCEPT ![fault] = @ + 1]

-----------------------------------------------------------------------------
(* Links. *)

Packet(op, src, dst, data) == [op |-> op, src |-> src, dst |-> dst, data |-> data]

Silence == [p \in Ports |-> <<>>]
Out(ports, m) == [p \in Ports |-> IF p \in ports THEN <<m>> ELSE <<>>]

Clip(s) == SubSeq(s, 1, IF Len(s) < Cap THEN Len(s) ELSE Cap)

\* The packet at the end `from` is taken, and n sends `out`.
Exchange(n, from, out) ==
  wire' = [e \in Ends |->
             LET rest == IF e = from THEN Tail(wire[e]) ELSE wire[e]
             IN  IF Peer[e][1] = n THEN Clip(rest \o out[Peer[e][2]]) ELSE rest]

-----------------------------------------------------------------------------
(* A node: the Forwarder. *)

\* Mutant: what is known is never relearned.
LearnedOnce(n, p, m) ==
  IF m.src \in Addresses /\ table[n][m.src] = NoPort THEN [table[n] EXCEPT ![m.src] = p] ELSE table[n]

\* learn: last write wins; no-address is never learned.
Learned(n, p, m) == IF m.src \in Addresses THEN [table[n] EXCEPT ![m.src] = p] ELSE table[n]

\* decide: the ports a packet for another node leaves by; ingress 0 when n originates it.
Egress(n, tbl, ingress, dst) ==
  IF dst = addr[n] /\ dst # NoAddress THEN {}
  ELSE IF dst \in Addresses /\ tbl[dst] # NoPort THEN {tbl[dst]} \ {ingress}
  ELSE Ports \ {ingress}

Originated(n, tbl, m) == Out(Egress(n, tbl, 0, m.dst), m)

-----------------------------------------------------------------------------
(* A node: the Responder. What it does with packet m off port p, tbl being its table by then. *)

Forward(n, p, m, tbl) ==
  /\ Exchange(n, <<n, p>>, Out(Egress(n, tbl, p, m.dst), m))
  /\ UNCHANGED <<addr, guestSlot, probe, faults>>

\* on_hello, a request: the answer leaves by the port it came in on.
AnswerHello(n, p, m) ==
  LET grants == m.data = <<"controller">>
      guest == LastBoard + 1 + Slice * addr[n] + guestSlot[n]
  IN  /\ m.op = "HELLO?"
      /\ guestSlot' = IF grants THEN [guestSlot EXCEPT ![n] = (@ + 1) % Slice] ELSE guestSlot
      /\ Exchange(n, <<n, p>>,
                  Out({p}, Packet("HELLO", addr[n], m.src, <<addr[n], IF grants THEN guest ELSE NoAddress>>)))
      /\ UNCHANGED <<addr, probe, faults>>

\* on_hello, a reply: whoever sent it, it is taken for the neighbour on p.
SeeNeighbour(n, p, m) ==
  /\ m.op = "HELLO" /\ Probing(n)
  /\ probe' = [probe EXCEPT ![n].seen[p] = m.data[1]]
  /\ Exchange(n, <<n, p>>, Silence)
  /\ UNCHANGED <<addr, guestSlot, faults>>

\* A request sent again starts the probe over, and not its window.
ProbePorts(n, p, m) ==
  /\ m.op = "PROBE"
  /\ probe' = [probe EXCEPT ![n] = [NoProbe EXCEPT !.replyTo = m.src]]
  /\ Exchange(n, <<n, p>>, Out(Ports, Packet("HELLO?", addr[n], NoAddress, <<"probe">>)))
  /\ UNCHANGED <<addr, guestSlot, faults>>

Ack(n, tbl, m, new, ok) == Originated(n, tbl, Packet("ACK", new, m.src, <<new, ok>>))

\* on_assign to itself; the packet's second field is the new address.
Adopt(n, p, m, tbl) ==
  LET new == m.data[2]
  IN  /\ m.op = "ASSIGN" /\ m.data[1] = EgressSelf
      /\ addr' = [addr EXCEPT ![n] = new]
      \* The forwarder already knows itself by the new address when it sends the ACK.
      /\ Exchange(n, <<n, p>>, Ack(n, tbl, m, new, TRUE))
      /\ UNCHANGED <<guestSlot, probe, faults>>

\* Armed, or the store failed: the ACK carries the error, from the address nobody took.
Refuse(n, p, m, tbl) ==
  /\ m.op = "ASSIGN" /\ m.data[1] = EgressSelf /\ Happens("refused")
  /\ Exchange(n, <<n, p>>, Ack(n, tbl, m, m.data[2], FALSE))
  /\ UNCHANGED <<addr, guestSlot, probe>>

Relay(n, p, m) ==
  /\ m.op = "ASSIGN" /\ m.data[1] # EgressSelf
  /\ Exchange(n, <<n, p>>,
              Out({m.data[1]}, Packet("ASSIGN", m.src, NoAddress, <<EgressSelf, m.data[2]>>)))
  /\ UNCHANGED <<addr, guestSlot, probe, faults>>

\* No probe is in progress, or the packet is one for controllers: handed back to the caller.
HandBack(n, p, m) ==
  /\ m.op \in {"PORTS", "ACK"} \/ (m.op = "HELLO" /\ ~Probing(n))
  /\ Exchange(n, <<n, p>>, Silence)
  /\ UNCHANGED <<addr, guestSlot, probe, faults>>

Ingest(n, p) ==
  /\ <<n, p>> \in Ends /\ wire[<<n, p>>] # <<>>
  /\ LET m == Head(wire[<<n, p>>])
         tbl == Learned(n, p, m)
     IN  /\ table' = [table EXCEPT ![n] = tbl]
         /\ IF m.dst \in {NoAddress, addr[n]}
            THEN \/ AnswerHello(n, p, m) \/ SeeNeighbour(n, p, m) \/ ProbePorts(n, p, m)
                 \/ Adopt(n, p, m, tbl) \/ Refuse(n, p, m, tbl) \/ Relay(n, p, m) \/ HandBack(n, p, m)
            ELSE Forward(n, p, m, tbl)
  /\ UNCHANGED <<ctl, tries>>

\* poll_probe, at the end of the probe window.
ReportPorts(n) ==
  /\ Probing(n)
  /\ probe' = [probe EXCEPT ![n] = NoProbe]
  /\ Exchange(n, <<>>, Originated(n, table[n], Packet("PORTS", addr[n], probe[n].replyTo, probe[n].seen)))
  /\ UNCHANGED <<addr, table, guestSlot, ctl, tries, faults>>

\* Mutant: ASSIGN took the address in RAM only.
RebootForgets(n) ==
  /\ Happens("reboot")
  /\ addr' = [addr EXCEPT ![n] = NoAddress]
  /\ table' = [table EXCEPT ![n] = [a \in Addresses |-> NoPort]]
  /\ guestSlot' = [guestSlot EXCEPT ![n] = 0]
  /\ probe' = [probe EXCEPT ![n] = NoProbe]
  /\ UNCHANGED <<wire, ctl, tries>>

\* A power cycle: a new Responder, its address restored from flash.
Reboot(n) ==
  /\ Happens("reboot")
  /\ table' = [table EXCEPT ![n] = [a \in Addresses |-> NoPort]]
  /\ guestSlot' = [guestSlot EXCEPT ![n] = 0]
  /\ probe' = [probe EXCEPT ![n] = NoProbe]
  /\ UNCHANGED <<addr, wire, ctl, tries>>

Lose(e) ==
  /\ wire[e] # <<>> /\ Happens("lost")
  /\ wire' = [wire EXCEPT ![e] = Tail(@)]
  /\ UNCHANGED <<addr, table, guestSlot, probe, ctl, tries>>

-----------------------------------------------------------------------------
(* The controller. *)

Task(op, a, relay, egress) == [op |-> op, addr |-> a, relay |-> relay, egress |-> egress]
NoTask == Task("NONE", 0, 0, 0)
NoLink == [node |-> NoAddress, port |-> NoPort]

Enqueue(c, t) == IF Len(c.queue) < MaxTasks THEN [c EXCEPT !.queue = Append(@, t)] ELSE c

EnqueueFirst(c, t) == IF Len(c.queue) < MaxTasks THEN [c EXCEPT !.queue = <<t>> \o @] ELSE c

IsPlaced(c, a) == \E p \in ToSet(c.placed) : p.addr = a
PlacedAt(c, a) == CHOOSE p \in ToSet(c.placed) : p.addr = a
PlacedHere(c, a) == \E p \in ToSet(c.placed) : p.addr = a /\ p.here
\* Mutant: the link back to the parent is not told from the others.
ParentUnknown(c, a) == NoAddress
ParentOf(c, a) == IF IsPlaced(c, a) THEN PlacedAt(c, a).relay ELSE NoAddress

\* alloc: the address, and the controller that has handed it out.
NextFree(c) == CHOOSE a \in c.next .. LastBoard :
                 ~IsPlaced(c, a) /\ \A b \in c.next .. a - 1 : IsPlaced(c, b)
Allocated(c) == [c EXCEPT !.next = NextFree(c) + 1]

Record(c, a, relay, egress, here) ==
  IF IsPlaced(c, a) \/ Len(c.placed) = MaxNodes THEN c
  ELSE [c EXCEPT !.placed = Append(@, [addr |-> a, relay |-> relay, egress |-> egress, here |-> here])]

\* The node on port egress of relay gets a fresh address; on the controller's own link, relay is 0.
AssignFresh(c, relay, egress) ==
  Enqueue(Allocated(c), Task("ASSIGN", NextFree(c), relay, egress))

Renamed(a, old, new) == IF a = old THEN new ELSE a
RenamedTask(t, old, new) ==
  IF t.op = "PROBE" THEN [t EXCEPT !.addr = Renamed(@, old, new)] ELSE [t EXCEPT !.relay = Renamed(@, old, new)]

RenamedHost(host, old, new) == [host EXCEPT !.node = Renamed(@, old, new)]

\* reassign: the records, the queue and the host link follow at once, and the ASSIGN goes first.
Reassign(c, old) ==
  LET new == NextFree(c)
      p == PlacedAt(c, old)
      moved == [Allocated(c) EXCEPT
                  !.placed = [i \in DOMAIN @ |-> [@[i] EXCEPT !.addr = Renamed(@, old, new),
                                                             !.relay = Renamed(@, old, new)]],
                  !.queue = [i \in DOMAIN @ |-> RenamedTask(@[i], old, new)],
                  !.host = RenamedHost(@, old, new),
                  !.probed = Renamed(@, old, new)]
  IN  EnqueueFirst(moved, Task("ASSIGN", new, p.relay, p.egress))

\* One port of a PORTS report about c.probed, reached from `parent`.
ReadPort(c, port, seen, parent) ==
  IF seen = Empty THEN c
  ELSE IF seen = Unassigned THEN AssignFresh(c, c.probed, port)
  ELSE IF IsController(seen)
  THEN IF seen = c.guest /\ c.host = NoLink THEN [c EXCEPT !.host = [node |-> c.probed, port |-> port]] ELSE c
  ELSE IF seen = parent THEN c
  ELSE IF ~IsPlaced(c, seen)
  THEN Enqueue(Record(c, seen, c.probed, port, FALSE), Task("PROBE", seen, 0, 0))
  ELSE IF PlacedAt(c, seen).relay = c.probed /\ PlacedAt(c, seen).egress = port THEN c
  ELSE IF PlacedHere(c, seen)
  THEN LET r == Reassign(c, seen)
       IN  Enqueue(Record(r, seen, r.probed, port, FALSE), Task("PROBE", seen, 0, 0))
  ELSE AssignFresh(c, c.probed, port)

\* on_ports.
ReadPorts(before, probed, report) ==
  LET c == [before EXCEPT !.probed = probed]
      parent == ParentOf(c, probed)
      twice == parent # NoAddress /\ Cardinality({p \in Ports : report[p] = parent}) > 1
      Step(d, p) == ReadPort(d, p, report[p], parent)
      read == IF twice /\ PlacedHere(c, parent)
              THEN Enqueue(Reassign(c, parent), Task("PROBE", probed, 0, 0))
              ELSE FoldLeft(Step, c, [p \in Ports |-> p])
  IN  [read EXCEPT !.probed = NoAddress]

\* answers: the reply is bound to the request.
Answers(m) ==
  /\ m.dst = ctl.guest
  /\ CASE ctl.out.op = "HELLO" -> m.op = "HELLO"
       [] ctl.out.op = "PROBE" -> m.op = "PORTS" /\ m.src = ctl.out.addr
       [] ctl.out.op = "ASSIGN" -> m.op = "ACK" /\ m.src = ctl.out.addr /\ m.data[1] = ctl.out.addr
       [] OTHER -> FALSE

\* on_reply, by the request it answers.
Greeted(c, m) ==
  LET g == [c EXCEPT !.guest = m.data[2], !.granted = TRUE]
      a == m.data[1]
  IN  IF a = NoAddress THEN AssignFresh(g, NoAddress, EgressSelf)
      ELSE Enqueue(Record(g, a, NoAddress, EgressSelf, FALSE), Task("PROBE", a, 0, 0))

Assigned(c, t, ok) ==
  LET r == Record(c, t.addr, t.relay, t.egress, TRUE)
  IN  IF ok /\ r # c THEN Enqueue(r, Task("PROBE", t.addr, 0, 0)) ELSE c

OnReply(m) ==
  LET t == ctl.out
      c == [ctl EXCEPT !.out = NoTask]
  IN  /\ Answers(m)
      /\ ctl' = CASE t.op = "HELLO" -> Greeted(c, m)
                  [] t.op = "ASSIGN" -> Assigned(c, t, m.data[2])
                  [] t.op = "PROBE" -> ReadPorts(c, t.addr, m.data)
      /\ tries' = 0
      /\ Exchange(Host, <<Host, 1>>, Silence)

\* reply_to_probe: the controller is a node too.
AnswerProbe(m) ==
  /\ m.op = "HELLO?"
  /\ Exchange(Host, <<Host, 1>>, Out({1}, Packet("HELLO", ctl.guest, m.src, <<ctl.guest, NoAddress>>)))
  /\ UNCHANGED <<ctl, tries>>

Drop(m) ==
  /\ m.op # "HELLO?" /\ ~Answers(m)
  /\ Exchange(Host, <<Host, 1>>, Silence)
  /\ UNCHANGED <<ctl, tries>>

HostReceive ==
  /\ ~ctl.failed /\ wire[<<Host, 1>>] # <<>>
  /\ LET m == Head(wire[<<Host, 1>>]) IN OnReply(m) \/ AnswerProbe(m) \/ Drop(m)
  /\ UNCHANGED <<addr, table, guestSlot, probe, faults>>

Request(t) ==
  CASE t.op = "HELLO" -> Packet("HELLO?", ctl.guest, NoAddress, <<"controller">>)
    [] t.op = "PROBE" -> Packet("PROBE", ctl.guest, t.addr, <<>>)
    [] t.op = "ASSIGN" -> Packet("ASSIGN", ctl.guest, t.relay, <<t.egress, t.addr>>)

NextRequest ==
  /\ ctl.out = NoTask /\ ctl.queue # <<>>
  /\ ctl' = [ctl EXCEPT !.out = Head(ctl.queue), !.queue = Tail(@)]
  /\ tries' = 1
  /\ Exchange(Host, <<>>, Out({1}, Request(Head(ctl.queue))))
  /\ UNCHANGED <<addr, table, guestSlot, probe, faults>>

Quiet == (\A e \in Ends : wire[e] = <<>>) /\ (\A n \in Nodes : ~Probing(n))

\* The driver's timer: the request is sent again, or the walk given up.
SendAgain ==
  /\ ctl.out # NoTask /\ ~ctl.failed /\ tries < Tries
  /\ tries' = tries + 1
  /\ Exchange(Host, <<>>, Out({1}, Request(ctl.out)))
  /\ UNCHANGED <<addr, table, guestSlot, probe, ctl>>

Resend == Quiet /\ SendAgain /\ UNCHANGED faults
ResendEarly == ~Quiet /\ SendAgain /\ Happens("early")

GiveUp ==
  /\ ctl.out # NoTask /\ ~ctl.failed /\ tries = Tries /\ Quiet
  /\ ctl' = [ctl EXCEPT !.failed = TRUE]
  /\ UNCHANGED <<addr, table, guestSlot, probe, wire, tries, faults>>

-----------------------------------------------------------------------------

Init ==
  /\ addr \in StartAddrs
  /\ table = [n \in Nodes |-> [a \in Addresses |-> NoPort]]
  /\ guestSlot = [n \in Nodes |-> 0] /\ probe = [n \in Nodes |-> NoProbe]
  /\ wire = [e \in Ends |-> <<>>]
  /\ ctl = [guest |-> LastBoard + 1, granted |-> FALSE, next |-> 1, placed |-> <<>>,
            queue |-> <<Task("HELLO", 0, 0, 0)>>, out |-> NoTask, host |-> NoLink,
            probed |-> NoAddress, failed |-> FALSE]
  /\ tries = 0
  /\ faults = [lost |-> 0, reboot |-> 0, refused |-> 0, early |-> 0]

Progress ==
  \/ \E n \in Nodes : (\E p \in Ports : Ingest(n, p)) \/ ReportPorts(n)
  \/ HostReceive \/ NextRequest \/ Resend \/ GiveUp

Next ==
  \/ Progress \/ ResendEarly
  \/ \E n \in Nodes : Reboot(n)
  \/ \E e \in Ends : Lose(e)

Spec == Init /\ [][Next]_vars
FairSpec == Spec /\ WF_vars(Progress)

-----------------------------------------------------------------------------
(* What must hold. *)

Complete == ctl.queue = <<>> /\ ctl.out = NoTask

\* The node at the place of the i-th record, following the wiring from the attached node.
NodeOf ==
  LET At[i \in DOMAIN ctl.placed] ==
        LET p == ctl.placed[i]
            r == CHOOSE j \in DOMAIN ctl.placed : ctl.placed[j].addr = p.relay
        IN  IF p.egress = EgressSelf THEN Gateway ELSE Peer[<<At[r], p.egress>>][1]
  IN  At

\* No node refused its address, and no request was sent again while its answer was under way.
Undisturbed == faults.refused = 0 /\ faults.early = 0

\* The map a finished walk leaves is true: every address in it is held by the node found by
\* following the record's relays and ports from the attached node, and no two records are of one
\* node (Controller::assigned, read by neighbours, neighbour_on and gateway_addr).
MapTrue ==
  Complete /\ Undisturbed =>
    /\ \A i \in DOMAIN ctl.placed : addr[NodeOf[i]] = ctl.placed[i].addr
    /\ \A i, j \in DOMAIN ctl.placed : i # j => NodeOf[i] # NodeOf[j]

\* A node changes a persisted address only when another node holds the same one.
OnlyCollidedMoves ==
  \A n \in Nodes : addr'[n] # addr[n] =>
     addr[n] = NoAddress \/ \E o \in Nodes \ {n} : addr[o] = addr[n]

\* A walk renumbers no node that nobody collides with (on_ports, reassign), whatever is lost and
\* whoever restarts.
KeepsAddress == [][Undisturbed' => OnlyCollidedMoves]_vars

\* The same of a walk whose requests are sent again early, as on_reply's binding of a reply to its
\* request promises. It does not hold: see MCWalkLate.cfg.
CollisionsAreReal == [][OnlyCollidedMoves]_vars

\* The walk ends with every request answered, though packets are lost and nodes restart fewer times
\* than a request is tried (walk_until, on_assign's idempotent re-assign, learning after a reboot).
Completes == <>(Complete \/ faults.refused > 0)
===============================================================================
