--------------------------------- MODULE Link ---------------------------------
(***************************************************************************)
(* The link layer (shared/link), one direction: a packet is cut into       *)
(* fragments (reasm.rs fragment), each goes out in a stream frame          *)
(* (framer.rs encode), the line loses, damages and invents bytes, the      *)
(* framer finds the frames again, and the reassembler the packets.         *)
(*                                                                         *)
(* A cell of the line is a byte: its value, and, in the first byte of a    *)
(* frame that reaches the line undamaged, which fragment that is.  Only    *)
(* the CRC reads this tag: it accepts exactly what encode made.            *)
(*                                                                         *)
(* The bytes staged by serial.rs and those in the framer's buffer are one  *)
(* sequence, rx: both are dropped by a reset, and the framer works from    *)
(* the front.  stage_fragment has no caller and is left out.               *)
(***************************************************************************)
EXTENDS Integers, Sequences, FiniteSets, SequencesExt

CONSTANTS
  Bytes,      \* byte values
  Sof,        \* the one that starts a frame
  Payload,    \* values the bytes after the length can take
  CrcLen,     \* bytes of the CRC
  FrameCap,   \* the framer's buffer, in bytes
  Pull,       \* bytes of one read of the serial port, PULL_CHUNK
  PidMod,     \* packet ids wrap here: 8 in the code
  MaxFrags,   \* fragments of a packet: MAX_FRAGMENTS
  Room,       \* fragments the reassembly buffer holds
  MaxPackets, \* bound: packets sent
  MaxNoise,   \* bound: bytes that a damaged frame leaves on the line
  LineCap,    \* bound: bytes on the line before the receiver reads
  MaxResets   \* bound: resets of the receiving framer

ASSUME BytesAssumption == Bytes \subseteq Nat /\ Sof \in Bytes /\ 1 \in Bytes /\ Payload \subseteq Bytes
ASSUME SizeAssumption == CrcLen \in Nat /\ FrameCap \in Nat /\ FrameCap >= 3 + CrcLen
ASSUME PidAssumption == PidMod \in Nat \ {0} /\ MaxFrags \in Nat \ {0} /\ Room \in Nat \ {0}
ASSUME PullAssumption == Pull \in Nat \ {0}

VARIABLES
  \* the sender
  next,       \* number of the packet being or about to be sent; its id is next % PidMod
  out,        \* fragments of it not yet sent: [idx, left]
  \* the line and the receiver
  line, rx,
  set,        \* the set in progress: [active, pid, next], and the fragments in its buffer
  parts,
  \* history
  pending,    \* undamaged frames the framer has not handed over yet
  heard,      \* the fragments it has
  delivered,  \* the packets handed to the layer above, each as its fragments
  resets

vars == <<next, out, line, rx, set, parts, pending, heard, delivered, resets>>

Packets == 1 .. MaxPackets
Fragments == [pkt : Packets, idx : 0 .. MaxFrags - 1, more : BOOLEAN]
None == [pkt |-> 0]
Cells == [v : Bytes, tag : Fragments \cup {None}]

Pid(f) == f.pkt % PidMod

-----------------------------------------------------------------------------
(* The sender. *)

\* encode: SOF, length, frag-hdr, CRC; the chunk itself is left out.
Encoded(f, body) ==
  <<[v |-> Sof, tag |-> f], [v |-> 1, tag |-> None]>>
    \o [i \in 1 .. 1 + CrcLen |-> [v |-> body[i], tag |-> None]]

Bodies == [1 .. 1 + CrcLen -> Payload]
Noise == UNION {[1 .. n -> [v : Bytes, tag : {None}]] : n \in 0 .. MaxNoise}

Init ==
  /\ next = 1 /\ out = [idx |-> 0, left |-> 0]
  /\ line = <<>> /\ rx = <<>>
  /\ set = [active |-> FALSE, pid |-> 0, next |-> 0] /\ parts = <<>>
  /\ pending = <<>> /\ heard = {} /\ delivered = <<>> /\ resets = 0

Send(n) ==
  /\ out.left = 0 /\ next <= MaxPackets
  /\ out' = [idx |-> 0, left |-> n]
  /\ UNCHANGED <<next, line, rx, set, parts, pending, heard, delivered, resets>>

\* The packet id advances with the last fragment, whatever became of the frames.
FragmentSent ==
  /\ out.left > 0
  /\ out' = [idx |-> out.idx + 1, left |-> out.left - 1]
  /\ next' = IF out.left = 1 THEN next + 1 ELSE next
  /\ UNCHANGED <<rx, set, parts, heard, delivered, resets>>

SendFrame(body) ==
  LET f == [pkt |-> next, idx |-> out.idx, more |-> out.left > 1]
  IN  /\ FragmentSent /\ Len(line) < LineCap
      /\ line' = line \o Encoded(f, body)
      /\ pending' = Append(pending, f)

\* The carrier refuses the frame (no noise), or the line damages it.
LoseFrame(noise) ==
  /\ FragmentSent /\ Len(line) < LineCap
  /\ line' = line \o noise
  /\ UNCHANGED pending

-----------------------------------------------------------------------------
(* The receiver: StreamFramer. *)

Total == 3 + CrcLen
TotalOf(cells) == 2 + cells[2].v + CrcLen

Hunting == rx # <<>> /\ rx[1].v # Sof
Candidate == Len(rx) >= 2 /\ rx[1].v = Sof
FalseLength == Candidate /\ (rx[2].v = 0 \/ TotalOf(rx) > FrameCap)
Complete == Candidate /\ ~FalseLength /\ Len(rx) >= TotalOf(rx)
CrcHolds == rx[1].tag # None

\* The cells that start an undamaged frame.
Tagged(cells) == {i \in DOMAIN cells : cells[i].tag # None}

DropByte ==
  /\ rx' = Tail(rx)
  /\ UNCHANGED <<next, out, line, set, parts, pending, heard, delivered, resets>>

Hunt == Hunting /\ DropByte
RejectLength == FalseLength /\ DropByte
\* Mutant: the whole candidate goes, not its first byte.
RejectCrcWhole ==
  /\ Complete /\ ~CrcHolds
  /\ rx' = SubSeq(rx, TotalOf(rx) + 1, Len(rx))
  /\ UNCHANGED <<next, out, line, set, parts, pending, heard, delivered, resets>>

RejectCrc == Complete /\ ~CrcHolds /\ DropByte

\* recv_l2_frame refills its stage once the framer has taken all of it.
Read ==
  LET n == IF Len(line) < Pull THEN Len(line) ELSE Pull
  IN  /\ ~Hunting /\ ~FalseLength /\ ~Complete /\ line # <<>>
      /\ rx' = rx \o SubSeq(line, 1, n)
      /\ line' = SubSeq(line, n + 1, Len(line))
      /\ UNCHANGED <<next, out, set, parts, pending, heard, delivered, resets>>

\* SerialTransport::reset.  The reassembler keeps its set.
Reset ==
  /\ resets < MaxResets /\ resets' = resets + 1
  /\ rx' = <<>>
  /\ pending' = SubSeq(pending, Cardinality(Tagged(rx)) + 1, Len(pending))
  /\ UNCHANGED <<next, out, line, set, parts, heard, delivered>>

-----------------------------------------------------------------------------
(* The receiver: Reassembler::push. *)

Discarded == [set EXCEPT !.active = FALSE, !.next = 0]

\* Mutant: a set in progress is not given up for a new packet.
StartsIdle(f) ==
  /\ f.idx = 0
  /\ IF set.active THEN set' = Discarded /\ parts' = <<>> /\ UNCHANGED delivered
     ELSE /\ parts' = <<f>>
          /\ IF f.more
             THEN set' = [active |-> TRUE, pid |-> Pid(f), next |-> 1] /\ UNCHANGED delivered
             ELSE set' = [active |-> FALSE, pid |-> Pid(f), next |-> 0]
                  /\ delivered' = Append(delivered, <<f>>)

\* Index 0 always starts a set, whatever was in progress.
Starts(f) ==
  /\ f.idx = 0 /\ parts' = <<f>>
  /\ IF f.more
     THEN set' = [active |-> TRUE, pid |-> Pid(f), next |-> 1] /\ UNCHANGED delivered
     ELSE set' = [active |-> FALSE, pid |-> Pid(f), next |-> 0] /\ delivered' = Append(delivered, <<f>>)

Stray(f) == f.idx > 0 /\ ~set.active /\ UNCHANGED <<set, parts, delivered>>

\* Mutant: any packet continues the set.
FitsAnyPid(f) == f.idx = set.next

Fits(f) == Pid(f) = set.pid /\ f.idx = set.next

Tears(f) ==
  /\ f.idx > 0 /\ set.active /\ (~Fits(f) \/ Len(parts) = Room)
  /\ set' = Discarded /\ parts' = <<>> /\ UNCHANGED delivered

Continues(f) ==
  /\ f.idx > 0 /\ set.active /\ Fits(f) /\ Len(parts) < Room
  /\ parts' = Append(parts, f)
  /\ IF f.more
     THEN set' = [set EXCEPT !.next = @ + 1] /\ UNCHANGED delivered
     ELSE set' = Discarded /\ delivered' = Append(delivered, parts')

Push(f) == Starts(f) \/ Stray(f) \/ Tears(f) \/ Continues(f)

\* The framer hands over a frame whose CRC holds.
Accept ==
  LET f == rx[1].tag
  IN  /\ Complete /\ CrcHolds /\ Push(f)
      /\ rx' = SubSeq(rx, TotalOf(rx) + 1, Len(rx))
      /\ pending' = Tail(pending)
      /\ heard' = heard \cup {f}
      /\ UNCHANGED <<next, out, line, resets>>

Receiver == Hunt \/ RejectLength \/ RejectCrc \/ Read \/ Accept

Next ==
  \/ \E n \in 1 .. MaxFrags : Send(n)
  \/ \E body \in Bodies : SendFrame(body)
  \/ \E noise \in Noise : LoseFrame(noise)
  \/ Receiver \/ Reset

Spec == Init /\ [][Next]_vars

-----------------------------------------------------------------------------
(* What must hold. *)

\* Whatever lies between them on the line, the framer finds every undamaged frame, in order, and
\* nothing else (framer.rs drain: the resync drops one byte, never a frame behind a false start).
FramesExact ==
  LET stream == rx \o line
      frames == Tagged(stream)
  IN  /\ Len(pending) = Cardinality(frames)
      /\ \A i \in frames : pending[Cardinality({j \in frames : j <= i})] = stream[i].tag

PacketOf(p) == {f \in heard : f.pkt = p}

\* A packet whose fragments were all heard is delivered, whatever torn set came before it.
NothingHeardIsLost ==
  \A f \in heard :
    (~f.more /\ f.idx < Room /\ \A i \in 0 .. f.idx : \E g \in PacketOf(f.pkt) : g.idx = i)
      => \E d \in ToSet(delivered) : \A i \in DOMAIN d : d[i].pkt = f.pkt

\* A delivered packet has its fragments in sequence, first to last; two of them come from
\* different packets only when the PidMod - 1 packets between were lost without a trace
\* (reasm.rs, atomic-or-discard, within the reach of a three-bit id).  Packets come out in the
\* order they went in, none twice.
PacketsWhole ==
  /\ \A k \in DOMAIN delivered :
       LET d == delivered[k]
       IN  /\ \A i \in DOMAIN d : d[i].idx = i - 1 /\ (d[i].more <=> i < Len(d))
           /\ \A i \in 2 .. Len(d) :
                \/ d[i].pkt = d[i - 1].pkt
                \/ /\ d[i].pkt >= d[i - 1].pkt + PidMod
                   /\ \A p \in d[i - 1].pkt + 1 .. d[i].pkt - 1 : PacketOf(p) = {}
  /\ \A k, l \in DOMAIN delivered :
       k < l => delivered[k][Len(delivered[k])].pkt < delivered[l][1].pkt
=============================================================================
