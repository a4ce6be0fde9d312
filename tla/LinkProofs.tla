------------------------------ MODULE LinkProofs ------------------------------
(***************************************************************************)
(* Framing and reassembly, for every alphabet, buffer size, chunking,      *)
(* packet id width and pattern of losses: the framer drops no undamaged    *)
(* frame and hands each over once, in order; what the reassembler delivers *)
(* is a whole packet, but for the wrap of the packet id over a blackout;   *)
(* and a packet whose fragments were all heard is delivered.               *)
(***************************************************************************)
EXTENDS Link, SequenceTheorems, FiniteSetTheorems, TLAPS

Stream == rx \o line

Before(f, g) == f.pkt < g.pkt \/ (f.pkt = g.pkt /\ f.idx < g.idx)

\* A tagged cell starts a whole frame; the next tag comes after it.
FrameAt(s, i) ==
  /\ s[i].v = Sof /\ i + Total - 1 <= Len(s) /\ s[i + 1].v = 1
  /\ \A k \in i + 1 .. i + Total - 1 : s[k].tag = None

WellFormed(s) == \A i \in DOMAIN s : s[i].tag # None => FrameAt(s, i)

\* Tags come in the order of the fragments, after those heard and before those not yet sent.
Sent(f) == f.pkt < next \/ (f.pkt = next /\ out.left > 0 /\ f.idx < out.idx)

Ordered(s) ==
  /\ \A i, j \in DOMAIN s : i < j /\ s[i].tag # None /\ s[j].tag # None => Before(s[i].tag, s[j].tag)
  /\ \A i \in DOMAIN s : s[i].tag # None => Sent(s[i].tag) /\ \A f \in heard : Before(f, s[i].tag)

TypeInv ==
  /\ next \in Nat \ {0} /\ out \in [idx : Nat, left : Nat]
  /\ out.left > 0 => next <= MaxPackets /\ out.idx + out.left <= MaxFrags
  /\ rx \in Seq(Cells) /\ line \in Seq(Cells)
  /\ set \in [active : BOOLEAN, pid : Int, next : Nat]
  /\ parts \in Seq(Fragments) /\ heard \subseteq Fragments /\ delivered \in Seq(Seq(Fragments))

LineInv ==
  /\ WellFormed(Stream) /\ Ordered(Stream)
  /\ \A f \in heard : Sent(f)

\* Two neighbours in a packet: the same packet, or a blackout of PidMod - 1 and more between.
Joined(f, g) ==
  \/ g.pkt = f.pkt
  \/ g.pkt >= f.pkt + PidMod /\ \A p \in f.pkt + 1 .. g.pkt - 1 : PacketOf(p) = {}

Chained(d) ==
  /\ \A i \in DOMAIN d : d[i].idx = i - 1 /\ d[i] \in heard
  /\ \A i \in 2 .. Len(d) : Joined(d[i - 1], d[i])

\* The set in progress: chained, all under its id, ending in the newest fragment heard.
SetInv ==
  set.active =>
    /\ Len(parts) > 0 /\ set.next = Len(parts) /\ Chained(parts)
    /\ \A i \in DOMAIN parts : parts[i].more /\ Pid(parts[i]) = set.pid
    /\ \A f \in heard : f = parts[Len(parts)] \/ Before(f, parts[Len(parts)])
    /\ \A k \in DOMAIN delivered : delivered[k][Len(delivered[k])].pkt < parts[1].pkt

DeliveredInv ==
  /\ \A k \in DOMAIN delivered :
       LET d == delivered[k]
       IN  Len(d) > 0 /\ Chained(d) /\ \A i \in DOMAIN d : d[i].more <=> i < Len(d)
  /\ \A k, l \in DOMAIN delivered :
       k < l => delivered[k][Len(delivered[k])].pkt < delivered[l][1].pkt

IInv == TypeInv /\ LineInv /\ SetInv /\ DeliveredInv

-----------------------------------------------------------------------------
(* Packet ids and cells. *)

\* Two packets with the same id are a multiple of its period apart.
LEMMA ModGap ==
  ASSUME NEW m \in Nat \ {0}, NEW a \in Nat, NEW b \in Nat, a < b, a % m = b % m PROVE b >= a + m
<1> DEFINE q == a \div m
<1> DEFINE r == b \div m
<1>1. a = m * q + (a % m) /\ q \in Int OBVIOUS
<1>2. b = m * r + (b % m) /\ r \in Int OBVIOUS
<1>3. b - a = m * r - m * q BY <1>1, <1>2
<1>4. b - a = m * (r - q) BY <1>3, <1>1, <1>2
<1>5. r - q > 0 BY <1>4
<1>6. m * (r - q) >= m BY <1>5, <1>1, <1>2
<1>7. QED BY <1>6, <1>4

LEMMA TagTypes == None \notin Fragments /\ Total \in Nat /\ Total >= 3
  BY SizeAssumption DEF None, Fragments, Packets, Total

\* What is left of a well-formed, ordered stream is both.
LEMMA Suffix ==
  ASSUME NEW s \in Seq(Cells), NEW t \in Seq(Cells), NEW n \in Nat, n <= Len(s),
         Len(t) = Len(s) - n, \A i \in 1 .. Len(t) : t[i] = s[i + n],
         WellFormed(s)
  PROVE  WellFormed(t)
<1> SUFFICES ASSUME NEW i \in DOMAIN t, t[i].tag # None PROVE FrameAt(t, i) BY DEF WellFormed
<1>1. i + n \in DOMAIN s /\ i \in Nat /\ t[i] = s[i + n] OBVIOUS
<1>2. FrameAt(s, i + n) BY <1>1 DEF WellFormed
<1>3. i + Total - 1 <= Len(t) BY <1>1, <1>2, TagTypes DEF FrameAt
<1>4. t[i].v = Sof BY <1>1, <1>2 DEF FrameAt
<1>5. t[i + 1].v = 1
  <2>1. i + 1 \in 1 .. Len(t) BY <1>1, <1>3, TagTypes
  <2>2. (i + 1) + n = (i + n) + 1 BY <1>1
  <2>3. t[i + 1] = s[(i + 1) + n] BY <2>1
  <2>4. QED BY <2>2, <2>3, <1>2 DEF FrameAt
<1>6. ASSUME NEW k \in i + 1 .. i + Total - 1 PROVE t[k].tag = None
  <2> DEFINE total == Total
  <2>0. total \in Nat /\ i + total - 1 <= Len(t) /\ k \in i + 1 .. i + total - 1 /\ Len(t) \in Nat
    BY <1>3, TagTypes
  <2> HIDE DEF total
  <2>1. k \in Int /\ i + 1 <= k /\ k <= i + total - 1 BY <1>1, <2>0
  <2>a. i \in Nat /\ i >= 1 /\ n \in Nat BY <1>1
  <2>2. 1 <= k /\ k <= Len(t) BY ONLY <2>0, <2>1, <2>a
  <2>3. k + n \in (i + n) + 1 .. (i + n) + total - 1 BY ONLY <2>0, <2>1, <2>a
  <2>4. t[k] = s[k + n] BY <2>2, <2>1
  <2>5. QED BY <2>3, <2>4, <1>2 DEF FrameAt, total
<1>7. QED BY <1>3, <1>4, <1>5, <1>6 DEF FrameAt

LEMMA Concatenated ==
  \A s, t \in Seq(Cells) :
    /\ s \o t \in Seq(Cells) /\ Len(s \o t) = Len(s) + Len(t)
    /\ \A i \in 1 .. Len(s) : (s \o t)[i] = s[i]
    /\ \A i \in 1 .. Len(t) : (s \o t)[Len(s) + i] = t[i]
  OBVIOUS

\* Two well-formed runs of cells, one after the other.
LEMMA Appended ==
  ASSUME NEW s \in Seq(Cells), NEW t \in Seq(Cells), WellFormed(s), WellFormed(t)
  PROVE  WellFormed(s \o t)
<1> DEFINE u == s \o t
           total == Total
<1>1. u \in Seq(Cells) /\ Len(u) = Len(s) + Len(t)
      /\ (\A i \in 1 .. Len(s) : u[i] = s[i]) /\ (\A i \in 1 .. Len(t) : u[Len(s) + i] = t[i])
  BY Concatenated
<1>2. total \in Nat /\ total >= 3 /\ Len(s) \in Nat /\ Len(t) \in Nat BY TagTypes
<1> SUFFICES ASSUME NEW i \in DOMAIN u, u[i].tag # None PROVE FrameAt(u, i) BY DEF WellFormed
<1>3. i \in Int /\ 1 <= i /\ i <= Len(s) + Len(t) BY <1>1
<1> HIDE DEF u, total
<1>4. CASE i <= Len(s)
  <2>1. FrameAt(s, i) BY <1>1, <1>3, <1>4 DEF WellFormed
  <2>2. i + total - 1 <= Len(s) /\ s[i].v = Sof /\ s[i + 1].v = 1
        /\ \A k \in i + 1 .. i + total - 1 : s[k].tag = None
    BY <2>1 DEF FrameAt, total
  <2>3. ASSUME NEW k \in i .. i + total - 1 PROVE u[k] = s[k]
    <3>1. k \in Int /\ i <= k /\ k <= i + total - 1 BY <1>2, <1>3
    <3>2. k \in 1 .. Len(s) BY <3>1, <1>2, <1>3, <2>2
    <3>3. QED BY <3>2, <1>1
  <2>4. i \in i .. i + total - 1 /\ i + 1 \in i .. i + total - 1 BY <1>2, <1>3
  <2>5. ASSUME NEW k \in i + 1 .. i + total - 1 PROVE u[k].tag = None
    <3>1. k \in i .. i + total - 1 BY <1>2, <1>3
    <3>2. QED BY <3>1, <2>2, <2>3
  <2>6. i + total - 1 <= Len(u) BY <2>2, <1>1, <1>2, <1>3
  <2>7. QED BY <2>2, <2>3, <2>4, <2>5, <2>6 DEF FrameAt, total
<1>5. CASE i > Len(s)
  <2> DEFINE j == i - Len(s)
  <2>1. j \in 1 .. Len(t) /\ i = Len(s) + j BY <1>2, <1>3, <1>5
  <2> HIDE DEF j
  <2>2. u[i] = t[j] BY <2>1, <1>1
  <2>3. FrameAt(t, j) BY <2>1, <2>2 DEF WellFormed
  <2>4. j + total - 1 <= Len(t) /\ t[j].v = Sof /\ t[j + 1].v = 1
        /\ \A k \in j + 1 .. j + total - 1 : t[k].tag = None
    BY <2>3 DEF FrameAt, total
  <2>5. \A k \in j .. j + total - 1 : k \in 1 .. Len(t) BY <1>2, <2>1, <2>4
  <2>6. \A k \in j .. j + total - 1 : u[Len(s) + k] = t[k] BY <2>5, <1>1
  <2>7. j \in j .. j + total - 1 /\ j + 1 \in j .. j + total - 1 BY <1>2, <2>1
  <2>8. Len(s) + (j + 1) = i + 1 BY <2>1, <1>2
  <2>9. u[i].v = Sof /\ u[i + 1].v = 1 BY <2>1, <2>4, <2>6, <2>7, <2>8
  <2>10. ASSUME NEW k \in i + 1 .. i + total - 1 PROVE u[k].tag = None
    <3>1. k - Len(s) \in j + 1 .. j + total - 1 BY <1>2, <2>1
    <3>2. Len(s) + (k - Len(s)) = k /\ k - Len(s) \in j .. j + total - 1 BY <3>1, <1>2, <2>1
    <3>3. QED BY <3>1, <3>2, <2>4, <2>6
  <2>11. i + total - 1 <= Len(u) BY <2>4, <2>1, <1>1, <1>2
  <2>12. QED BY <2>9, <2>10, <2>11 DEF FrameAt, total
<1>6. QED BY <1>3, <1>4, <1>5, <1>2

\* A frame as encode writes it is well formed; it has the one tag.
LEMMA EncodedFrame ==
  ASSUME NEW f \in Fragments, NEW body \in Bodies
  PROVE  /\ Encoded(f, body) \in Seq(Cells) /\ WellFormed(Encoded(f, body))
         /\ Len(Encoded(f, body)) = Total /\ Encoded(f, body)[1].tag = f
         /\ \A i \in 2 .. Total : Encoded(f, body)[i].tag = None
<1> DEFINE e == Encoded(f, body)
           tail == [i \in 1 .. 1 + CrcLen |-> [v |-> body[i], tag |-> None]]
           head == <<[v |-> Sof, tag |-> f], [v |-> 1, tag |-> None]>>
<1>1. \A i \in 1 .. 1 + CrcLen : [v |-> body[i], tag |-> None] \in Cells
  BY BytesAssumption DEF Bodies, Cells
<1>2. tail \in Seq(Cells) /\ Len(tail) = 1 + CrcLen BY <1>1, SizeAssumption
<1>3. head \in Seq(Cells) /\ Len(head) = 2 BY BytesAssumption DEF Cells
<1>4. e = head \o tail BY DEF Encoded
<1>5. \A i \in 1 .. 1 + CrcLen : tail[i].tag = None OBVIOUS
<1>6. head[1].v = Sof /\ head[1].tag = f /\ head[2].v = 1 /\ head[2].tag = None OBVIOUS
<1> HIDE DEF e, head, tail
<1>7. e \in Seq(Cells) /\ Len(e) = 3 + CrcLen /\ e[1] = head[1] /\ e[2] = head[2]
      /\ \A i \in 1 .. 1 + CrcLen : e[2 + i] = tail[i]
  <2>1. /\ e \in Seq(Cells) /\ Len(e) = Len(head) + Len(tail)
        /\ \A i \in 1 .. Len(head) : e[i] = head[i]
        /\ \A i \in 1 .. Len(tail) : e[Len(head) + i] = tail[i]
    BY ONLY <1>2, <1>3, <1>4, Concatenated, Zenon
  <2>2. QED BY ONLY <2>1, <1>2, <1>3, SizeAssumption
<1>8. ASSUME NEW i \in 2 .. Total PROVE e[i].tag = None
  <2>1. CASE i = 2 BY <2>1, <1>7, <1>6
  <2>2. CASE i > 2
    <3>1. i - 2 \in 1 .. 1 + CrcLen /\ 2 + (i - 2) = i BY <2>2, SizeAssumption DEF Total
    <3>2. QED BY <3>1, <1>7, <1>5
  <2>3. QED BY <2>1, <2>2
<1>9. WellFormed(e)
  <2> SUFFICES ASSUME NEW i \in DOMAIN e, e[i].tag # None PROVE FrameAt(e, i) BY DEF WellFormed
  <2>1. i = 1 BY <1>7, <1>8, SizeAssumption DEF Total
  <2>2. QED BY <2>1, <1>6, <1>7, <1>8, SizeAssumption DEF FrameAt, Total
<1>10. QED BY <1>6, <1>7, <1>8, <1>9 DEF e, Total
-----------------------------------------------------------------------------
(* The steps of the line and of the framer. *)

LEMMA NoiseCells == \A noise \in Noise : noise \in Seq(Cells) /\ \A i \in DOMAIN noise : noise[i].tag = None
<1> SUFFICES ASSUME NEW n \in 0 .. MaxNoise, NEW noise \in [1 .. n -> [v : Bytes, tag : {None}]]
             PROVE  noise \in Seq(Cells) /\ \A i \in DOMAIN noise : noise[i].tag = None
  BY DEF Noise
<1>1. \A i \in 1 .. n : noise[i] \in Cells /\ noise[i].tag = None BY DEF Cells
<1>2. QED BY <1>1

\* The framer's own steps leave it cells, and the frame it hands over is a fragment.
LEMMA FramerTypes ==
  ASSUME TypeInv, rx # <<>>
  PROVE  /\ Tail(rx) \in Seq(Cells) /\ Len(Tail(rx)) = Len(rx) - 1
         /\ \A i \in 1 .. Len(rx) - 1 : Tail(rx)[i] = rx[i + 1]
         /\ rx[1] \in Cells /\ Len(rx) \in Nat \ {0}
  BY DEF TypeInv

LEMMA TypeStep == ASSUME TypeInv, Next PROVE TypeInv'
<1> USE DEF TypeInv
<1>1. ASSUME NEW n \in 1 .. MaxFrags, Send(n) PROVE TypeInv'
  BY <1>1, PidAssumption DEF Send
<1>2. ASSUME FragmentSent PROVE /\ next' \in Nat \ {0} /\ out' \in [idx : Nat, left : Nat]
                                /\ out'.left > 0 => next' <= MaxPackets /\ out'.idx + out'.left <= MaxFrags
  <2>1. out.idx \in Nat /\ out.left \in Nat /\ out.left > 0 /\ next \in Nat \ {0}
        /\ next <= MaxPackets /\ out.idx + out.left <= MaxFrags
    BY <1>2 DEF FragmentSent
  <2>2. out' = [idx |-> out.idx + 1, left |-> out.left - 1]
        /\ next' = IF out.left = 1 THEN next + 1 ELSE next
    BY <1>2 DEF FragmentSent
  <2>3. out' \in [idx : Nat, left : Nat] /\ next' \in Nat \ {0} BY ONLY <2>1, <2>2
  <2>4. (out.idx + 1) + (out.left - 1) = out.idx + out.left BY ONLY <2>1
  <2>5. QED BY ONLY <2>1, <2>2, <2>3, <2>4
<1>3. ASSUME NEW body \in Bodies, SendFrame(body) PROVE TypeInv'
  <2> DEFINE f == [pkt |-> next, idx |-> out.idx, more |-> out.left > 1]
  <2>1. FragmentSent /\ line' = line \o Encoded(f, body) BY <1>3 DEF SendFrame
  <2>2. f \in Fragments BY <2>1, PidAssumption DEF FragmentSent, Fragments, Packets
  <2>3. line' \in Seq(Cells) BY <2>1, <2>2, EncodedFrame, Concatenated
  <2>4. QED BY <1>2, <2>1, <2>3 DEF FragmentSent
<1>4. ASSUME NEW noise \in Noise, LoseFrame(noise) PROVE TypeInv'
  <2>1. FragmentSent /\ line' = line \o noise BY <1>4 DEF LoseFrame
  <2>2. line' \in Seq(Cells) BY <2>1, NoiseCells, Concatenated
  <2>3. QED BY <1>2, <2>1, <2>2 DEF FragmentSent
<1>5. ASSUME DropByte, rx # <<>> PROVE TypeInv'
  BY <1>5, FramerTypes DEF DropByte
<1>6. CASE Hunt BY <1>5, <1>6 DEF Hunt, Hunting
<1>7. CASE RejectLength BY <1>5, <1>7 DEF RejectLength, FalseLength, Candidate
<1>8. CASE RejectCrc BY <1>5, <1>8 DEF RejectCrc, Complete, Candidate
<1>9. CASE Read
  <2> DEFINE n == IF Len(line) < Pull THEN Len(line) ELSE Pull
  <2>1. n \in 0 .. Len(line) BY PullAssumption
  <2> HIDE DEF n
  <2>2. SubSeq(line, 1, n) \in Seq(Cells) /\ SubSeq(line, n + 1, Len(line)) \in Seq(Cells) BY <2>1
  <2>3. rx' = rx \o SubSeq(line, 1, n) /\ line' = SubSeq(line, n + 1, Len(line)) BY <1>9 DEF Read, n
  <2>4. rx' \in Seq(Cells) /\ line' \in Seq(Cells) BY <2>2, <2>3, Concatenated
  <2>5. QED BY <1>9, <2>4 DEF Read
<1>10. CASE Accept
  <2> DEFINE f == rx[1].tag
  <2>1. rx # <<>> /\ f # None /\ Push(f) BY <1>10 DEF Accept, Complete, Candidate, CrcHolds
  <2>2. f \in Fragments BY <2>1, FramerTypes DEF Cells
  <2>3. rx' \in Seq(Cells)
    <3>1. TotalOf(rx) \in Nat /\ TotalOf(rx) <= Len(rx)
      <4>1. Len(rx) >= 2 /\ TotalOf(rx) <= Len(rx) /\ rx' = SubSeq(rx, TotalOf(rx) + 1, Len(rx))
        BY <1>10 DEF Accept, Complete, Candidate
      <4>2. rx[2] \in Cells BY <4>1
      <4>3. rx[2].v \in Nat BY <4>2, BytesAssumption DEF Cells
      <4>4. TotalOf(rx) \in Nat BY ONLY <4>3, SizeAssumption DEF TotalOf
      <4>5. QED BY ONLY <4>1, <4>4
    <3>2. QED BY <1>10, <3>1 DEF Accept
  <2>4. set' \in [active : BOOLEAN, pid : Int, next : Nat] /\ parts' \in Seq(Fragments)
        /\ delivered' \in Seq(Seq(Fragments))
    <3>a. f.pkt \in Int BY ONLY <2>2 DEF Fragments, Packets
    <3>1. Pid(f) \in Int BY ONLY <3>a, PidAssumption DEF Pid
    <3>2. <<f>> \in Seq(Fragments) /\ Append(parts, f) \in Seq(Fragments) BY <2>2
    <3>3. set.active \in BOOLEAN /\ set.pid \in Int /\ set.next \in Nat
          /\ Discarded \in [active : BOOLEAN, pid : Int, next : Nat]
      BY DEF Discarded
    <3>4. CASE Starts(f)
      <4> DEFINE one == <<f>>
      <4>1. set' = [active |-> TRUE, pid |-> Pid(f), next |-> 1]
            \/ set' = [active |-> FALSE, pid |-> Pid(f), next |-> 0]
        BY ONLY <3>4, Zenon DEF Starts
      <4>2. set' \in [active : BOOLEAN, pid : Int, next : Nat]
        <5>1. \A p \in Int : /\ [active |-> TRUE, pid |-> p, next |-> 1] \in [active : BOOLEAN, pid : Int, next : Nat]
                            /\ [active |-> FALSE, pid |-> p, next |-> 0] \in [active : BOOLEAN, pid : Int, next : Nat]
          OBVIOUS
        <5>2. QED BY ONLY <3>1, <4>1, <5>1, Zenon
      <4>3. parts' = one /\ (delivered' = delivered \/ delivered' = Append(delivered, one))
        BY ONLY <3>4, Zenon DEF Starts
      <4>4. one \in Seq(Fragments) /\ delivered \in Seq(Seq(Fragments)) BY <3>2
      <4> HIDE DEF one
      <4>a. Append(delivered, one) \in Seq(Seq(Fragments)) BY ONLY <4>4
      <4>5. parts' \in Seq(Fragments) /\ delivered' \in Seq(Seq(Fragments))
        BY ONLY <4>3, <4>4, <4>a, Zenon
      <4>6. QED BY <4>2, <4>5
    <3>5. CASE Stray(f) BY <3>5 DEF Stray
    <3>6. CASE Tears(f)
      <4>1. set' = Discarded /\ parts' = <<>> /\ delivered' = delivered BY <3>6 DEF Tears
      <4>2. QED BY <4>1, <3>3
    <3>7. CASE Continues(f)
      <4>1. parts' = Append(parts, f)
            /\ (delivered' = delivered \/ delivered' = Append(delivered, parts'))
        BY <3>7 DEF Continues
      <4>2. parts' \in Seq(Fragments) BY <4>1, <3>2
      <4>5. delivered' \in Seq(Seq(Fragments))
        <5>1. delivered \in Seq(Seq(Fragments)) OBVIOUS
        <5>2. \A p \in Seq(Fragments) : Append(delivered, p) \in Seq(Seq(Fragments)) BY ONLY <5>1
        <5>3. QED BY ONLY <4>1, <4>2, <5>1, <5>2, Zenon
      <4>3. set' = Discarded \/ set' = [set EXCEPT !.next = @ + 1] BY <3>7 DEF Continues
      <4>4. set' \in [active : BOOLEAN, pid : Int, next : Nat] BY <4>3, <3>3
      <4>6. QED BY <4>2, <4>4, <4>5
    <3>8. QED BY <2>1, <3>4, <3>5, <3>6, <3>7 DEF Push
  <2>5. QED BY <1>10, <2>2, <2>3, <2>4 DEF Accept
<1>11. CASE Reset BY <1>11 DEF Reset
<1>12. QED BY <1>1, <1>3, <1>4, <1>6, <1>7, <1>8, <1>9, <1>10, <1>11 DEF Next, Receiver

\* The stream loses what its receiving half loses in front.
LEMMA Cut ==
  ASSUME NEW r \in Seq(Cells), NEW l \in Seq(Cells), NEW q \in Seq(Cells), NEW n \in Nat,
         n <= Len(r), Len(q) = Len(r) - n, \A i \in 1 .. Len(q) : q[i] = r[i + n]
  PROVE  /\ n <= Len(r \o l) /\ Len(q \o l) = Len(r \o l) - n
         /\ \A i \in 1 .. Len(q \o l) : (q \o l)[i] = (r \o l)[i + n]
<1>1. Len(r) \in Nat /\ Len(l) \in Nat /\ Len(q) \in Nat OBVIOUS
<1>2. Len(r \o l) = Len(r) + Len(l) /\ Len(q \o l) = Len(q) + Len(l) BY Concatenated
<1>3. ASSUME NEW i \in 1 .. Len(q \o l) PROVE (q \o l)[i] = (r \o l)[i + n]
  <2>1. i \in Nat /\ 1 <= i /\ i <= Len(q) + Len(l) BY <1>1, <1>2
  <2>2. CASE i <= Len(q)
    <3>1. i \in 1 .. Len(q) /\ i + n \in 1 .. Len(r) BY <1>1, <2>1, <2>2
    <3>2. QED BY <3>1, Concatenated
  <2>3. CASE i > Len(q)
    <3> DEFINE j == i - Len(q)
    <3>1. j \in 1 .. Len(l) /\ i = Len(q) + j /\ i + n = Len(r) + j BY <1>1, <2>1, <2>3
    <3> HIDE DEF j
    <3>2. (q \o l)[Len(q) + j] = l[j] /\ (r \o l)[Len(r) + j] = l[j] BY <3>1, Concatenated
    <3>3. QED BY <3>1, <3>2
  <2>4. QED BY <2>1, <2>2, <2>3, <1>1
<1>4. QED BY <1>1, <1>2, <1>3

\* Cutting the front of the stream keeps the invariant of the line.
LEMMA Shorter ==
  ASSUME NEW n \in Nat, TypeInv, TypeInv', LineInv, n <= Len(Stream),
         Len(Stream') = Len(Stream) - n, \A i \in 1 .. Len(Stream') : Stream'[i] = Stream[i + n],
         UNCHANGED <<next, out>>,
         \A i \in 1 .. Len(Stream') : Stream'[i].tag # None => \A f \in heard' : Before(f, Stream'[i].tag),
         \A f \in heard' : Sent(f)
  PROVE  LineInv'
<1>1. Stream \in Seq(Cells) /\ Stream' \in Seq(Cells) BY Concatenated DEF TypeInv, Stream
<1>2. WellFormed(Stream') BY <1>1, Suffix DEF LineInv
<1>3. \A f : Sent(f) <=> Sent(f)' BY DEF Sent
<1>4. DOMAIN Stream = 1 .. Len(Stream) /\ DOMAIN Stream' = 1 .. Len(Stream') /\ Len(Stream) \in Nat BY <1>1
<1>5. ASSUME NEW i \in DOMAIN Stream', Stream'[i].tag # None PROVE Sent(Stream'[i].tag)
  <2>1. i + n \in DOMAIN Stream /\ Stream'[i] = Stream[i + n] BY <1>4
  <2>2. QED BY <1>5, <2>1 DEF LineInv, Ordered
<1>6. ASSUME NEW i \in DOMAIN Stream', NEW j \in DOMAIN Stream', i < j,
             Stream'[i].tag # None, Stream'[j].tag # None
      PROVE  Before(Stream'[i].tag, Stream'[j].tag)
  <2>1. i + n \in DOMAIN Stream /\ j + n \in DOMAIN Stream /\ i + n < j + n
        /\ Stream'[i] = Stream[i + n] /\ Stream'[j] = Stream[j + n]
    BY <1>4, <1>6
  <2>2. QED BY <1>6, <2>1 DEF LineInv, Ordered
<1>7. QED
  <2>1. Ordered(Stream)' BY <1>3, <1>4, <1>5, <1>6 DEF Ordered
  <2>2. WellFormed(Stream)' BY <1>2
  <2>3. QED BY <1>3, <2>1, <2>2 DEF LineInv

\* A frame already sent was sent however the sender goes on.
LEMMA SentGrows ==
  ASSUME TypeInv, FragmentSent, NEW f \in Fragments, Sent(f) PROVE Sent(f)'
<1>1. f.pkt \in Int /\ f.idx \in Int BY DEF Fragments, Packets
<1>2. next \in Nat /\ out.idx \in Nat /\ out.left \in Nat /\ out.left > 0 BY DEF TypeInv, FragmentSent
<1>3. out'.idx = out.idx + 1 /\ out'.left = out.left - 1
      /\ next' = IF out.left = 1 THEN next + 1 ELSE next
  BY DEF FragmentSent
<1>4. f.pkt < next \/ (f.pkt = next /\ f.idx < out.idx) BY DEF Sent
<1>5. f.pkt < next' \/ (f.pkt = next' /\ out'.left > 0 /\ f.idx < out'.idx) BY ONLY <1>1, <1>2, <1>3, <1>4
<1>6. QED BY <1>5 DEF Sent

\* Whatever the sender puts on the line comes after all that is there.
LEMMA Longer ==
  ASSUME TypeInv, LineInv, FragmentSent, NEW e \in Seq(Cells), line' = line \o e, WellFormed(e),
         \A i \in 2 .. Len(e) : e[i].tag = None,
         Len(e) > 0 /\ e[1].tag # None => e[1].tag.pkt = next /\ e[1].tag.idx = out.idx
  PROVE  LineInv'
<1>a. PICK s : s = Stream OBVIOUS
<1>b. PICK t : t = s \o e OBVIOUS
<1>1. s \in Seq(Cells) /\ Stream' = t /\ t \in Seq(Cells)
  <2>1. rx \in Seq(Cells) /\ line \in Seq(Cells) /\ s = rx \o line BY <1>a DEF TypeInv, Stream
  <2>2. s \in Seq(Cells) /\ t \in Seq(Cells) BY <2>1, <1>b, Concatenated
  <2>3. Stream' = rx \o (line \o e) BY DEF FragmentSent, Stream
  <2>4. (rx \o line) \o e = rx \o (line \o e) BY <2>1, ConcatAssociative
  <2>5. QED BY <2>1, <2>2, <2>3, <2>4, <1>b
<1>2. WellFormed(Stream') BY <1>1, <1>a, <1>b, Appended DEF LineInv
<1>3. /\ Len(t) = Len(s) + Len(e) /\ Len(s) \in Nat /\ Len(e) \in Nat
      /\ \A i \in 1 .. Len(s) : t[i] = s[i]
      /\ \A i \in 1 .. Len(e) : t[Len(s) + i] = e[i]
  BY <1>1, <1>b, Concatenated
<1>4. \A i \in DOMAIN s : s[i].tag # None => s[i].tag \in Fragments /\ Sent(s[i].tag)
  <2> SUFFICES ASSUME NEW i \in DOMAIN s, s[i].tag # None
               PROVE  s[i].tag \in Fragments /\ Sent(s[i].tag)
    OBVIOUS
  <2>1. s[i] \in Cells BY <1>1
  <2>2. s[i].tag \in Fragments BY <2>1 DEF Cells
  <2>3. Sent(s[i].tag) BY <1>a DEF LineInv, Ordered
  <2>4. QED BY <2>2, <2>3
<1>5. \A f \in heard : f \in Fragments /\ Sent(f) BY DEF LineInv, TypeInv
<1> DEFINE New(i) == i = Len(s) + 1 /\ t[i].tag.pkt = next /\ t[i].tag.idx = out.idx
<1>6. ASSUME NEW i \in 1 .. Len(t), t[i].tag # None
      PROVE  (i \in DOMAIN s /\ t[i] = s[i]) \/ New(i)
  <2>1. CASE i <= Len(s) BY <2>1, <1>1, <1>3
  <2>2. CASE i > Len(s)
    <3>1. i - Len(s) \in 1 .. Len(e) /\ Len(s) + (i - Len(s)) = i BY <1>3, <2>2
    <3>2. t[i] = e[i - Len(s)] BY <3>1, <1>3
    <3>3. i - Len(s) = 1 BY <1>6, <3>1, <3>2
    <3>4. QED BY <1>3, <1>6, <3>1, <3>2, <3>3
  <2>3. QED BY <2>1, <2>2, <1>3
<1>7. next \in Nat /\ out.left > 0 BY DEF FragmentSent, TypeInv
<1>8. ASSUME NEW f \in Fragments, Sent(f), NEW i, New(i) PROVE Before(f, t[i].tag)
  BY <1>7, <1>8 DEF Sent, Before, Fragments, Packets
<1>9. ASSUME NEW i, New(i) PROVE Sent(t[i].tag)'
  <2>1. out'.idx = out.idx + 1 /\ out'.left = out.left - 1
        /\ next' = IF out.left = 1 THEN next + 1 ELSE next
    BY DEF FragmentSent
  <2>2. out.idx \in Nat /\ out.left \in Nat BY DEF TypeInv
  <2>3. t[i].tag.pkt = next /\ t[i].tag.idx = out.idx BY <1>9
  <2> DEFINE f == t[i].tag
  <2> HIDE DEF f
  <2>4. f.pkt < next' \/ (f.pkt = next' /\ out'.left > 0 /\ f.idx < out'.idx)
    BY <1>7, <2>1, <2>2, <2>3 DEF f
  <2>5. QED BY <2>4 DEF Sent, f
<1> HIDE DEF New
<1>10. ASSUME NEW i \in 1 .. Len(t), t[i].tag # None
       PROVE  Sent(t[i].tag)' /\ \A f \in heard : Before(f, t[i].tag)
  <2>1. CASE i \in DOMAIN s /\ t[i] = s[i]
    <3>1. s[i].tag # None BY <2>1, <1>10
    <3>2. s[i].tag \in Fragments /\ Sent(s[i].tag) BY <2>1, <3>1, <1>4
    <3>3. \A f \in Fragments : Sent(f) => Sent(f)' BY SentGrows
    <3>4. \A f \in heard : Before(f, s[i].tag) BY <2>1, <3>1, <1>a DEF LineInv, Ordered
    <3>5. QED BY <2>1, <3>2, <3>3, <3>4
  <2>2. CASE New(i) BY <2>2, <1>5, <1>8, <1>9
  <2>3. QED BY <2>1, <2>2, <1>6, <1>10
<1>11. ASSUME NEW i \in 1 .. Len(t), NEW j \in 1 .. Len(t), i < j, t[i].tag # None, t[j].tag # None
       PROVE  Before(t[i].tag, t[j].tag)
  <2>1. CASE j \in DOMAIN s /\ t[j] = s[j]
    <3>0. DOMAIN s = 1 .. Len(s) BY <1>1
    <3>a. i \in Int /\ j \in Int /\ 1 <= i /\ j <= Len(s) /\ i < j BY <2>1, <3>0, <1>3, <1>11
    <3>b. i \in 1 .. Len(s) BY <3>a, <1>3
    <3>1. i \in DOMAIN s /\ t[i] = s[i] BY <3>0, <3>b, <1>3
    <3>2. QED BY <2>1, <3>1, <1>11, <1>a DEF LineInv, Ordered
  <2>2. CASE New(j)
    <3>1. i \in Int /\ 1 <= i /\ i <= Len(s) BY <2>2, <1>11, <1>3 DEF New
    <3>a. i \in DOMAIN s /\ t[i] = s[i] BY <3>1, <1>1, <1>3
    <3>2. QED BY <2>2, <3>a, <1>4, <1>8, <1>11
  <2>3. QED BY <2>1, <2>2, <1>6, <1>11
<1>12. Ordered(Stream)'
  <2>1. DOMAIN t = 1 .. Len(t) /\ heard' = heard BY <1>1 DEF FragmentSent
  <2>2. QED BY <1>1, <1>10, <1>11, <2>1 DEF Ordered
<1>13. \A f \in heard' : Sent(f)' BY <1>5, SentGrows DEF FragmentSent
<1>14. QED BY <1>2, <1>12, <1>13 DEF LineInv

\* A frame handed over is the first of the stream, and newer than all heard before.
LEMMA Newest ==
  ASSUME TypeInv, LineInv, Accept
  PROVE  /\ rx[1].tag \in Fragments /\ TotalOf(rx) = Total /\ Sent(rx[1].tag)
         /\ \A g \in heard : Before(g, rx[1].tag)
         /\ \A i \in 2 .. Len(Stream) : Stream[i].tag # None => Before(rx[1].tag, Stream[i].tag)
<1>1. rx \in Seq(Cells) /\ line \in Seq(Cells) BY DEF TypeInv
<1>2. Len(rx) >= 2 /\ rx[1].tag # None /\ rx[1] \in Cells
  BY <1>1 DEF Accept, Complete, Candidate, CrcHolds
<1>3. Stream[1] = rx[1] /\ Stream[2] = rx[2] /\ Len(Stream) = Len(rx) + Len(line)
      /\ Stream \in Seq(Cells) /\ Len(rx) \in Nat /\ Len(line) \in Nat
  BY <1>1, <1>2, Concatenated DEF Stream
<1>4. DOMAIN Stream = 1 .. Len(Stream) /\ 1 \in DOMAIN Stream BY <1>2, <1>3
<1>5. FrameAt(Stream, 1) BY <1>2, <1>3, <1>4 DEF LineInv, WellFormed
<1>6. rx[2].v = 1 BY <1>3, <1>5 DEF FrameAt
<1>7. TotalOf(rx) = Total BY <1>6, SizeAssumption DEF TotalOf, Total
<1>8. rx[1].tag \in Fragments BY <1>2 DEF Cells
<1>9. Sent(rx[1].tag) /\ \A g \in heard : Before(g, rx[1].tag)
  BY <1>2, <1>3, <1>4 DEF LineInv, Ordered
<1>10. ASSUME NEW i \in 2 .. Len(Stream), Stream[i].tag # None PROVE Before(rx[1].tag, Stream[i].tag)
  <2>1. i \in DOMAIN Stream /\ 1 < i BY <1>3, <1>4
  <2>2. QED BY <1>2, <1>3, <1>4, <1>10, <2>1 DEF LineInv, Ordered
<1>11. QED BY <1>7, <1>8, <1>9, <1>10

LEMMA LineStep == ASSUME TypeInv, TypeInv', LineInv, Next PROVE LineInv'
<1>1. ASSUME NEW n \in 1 .. MaxFrags, Send(n) PROVE LineInv'
  <2>1. Stream' = Stream /\ heard' = heard BY <1>1 DEF Send, Stream
  <2>2. ASSUME NEW f, Sent(f) PROVE Sent(f)' BY <1>1, <2>2 DEF Send, Sent
  <2>3. QED BY <2>1, <2>2 DEF LineInv, WellFormed, FrameAt, Ordered
<1>2. ASSUME NEW body \in Bodies, SendFrame(body) PROVE LineInv'
  <2> DEFINE f == [pkt |-> next, idx |-> out.idx, more |-> out.left > 1]
  <2>1. FragmentSent /\ line' = line \o Encoded(f, body) BY <1>2 DEF SendFrame
  <2>2. f \in Fragments
    BY <2>1, PidAssumption DEF FragmentSent, Fragments, Packets, TypeInv
  <2>3. f.pkt = next /\ f.idx = out.idx OBVIOUS
  <2> HIDE DEF f
  <2>4. /\ Encoded(f, body) \in Seq(Cells) /\ WellFormed(Encoded(f, body))
        /\ Len(Encoded(f, body)) = Total /\ Encoded(f, body)[1].tag = f
        /\ \A i \in 2 .. Total : Encoded(f, body)[i].tag = None
    BY <2>2, EncodedFrame
  <2>5. QED BY <2>1, <2>3, <2>4, Longer
<1>3. ASSUME NEW noise \in Noise, LoseFrame(noise) PROVE LineInv'
  <2>1. FragmentSent /\ line' = line \o noise BY <1>3 DEF LoseFrame
  <2>2. noise \in Seq(Cells) /\ \A i \in DOMAIN noise : noise[i].tag = None BY NoiseCells
  <2>3. DOMAIN noise = 1 .. Len(noise) /\ Len(noise) \in Nat BY <2>2
  <2>4. \A i \in 2 .. Len(noise) : noise[i].tag = None BY <2>2, <2>3
  <2>5. ~(Len(noise) > 0 /\ noise[1].tag # None) BY <2>2, <2>3
  <2>6. WellFormed(noise) BY <2>2 DEF WellFormed
  <2>7. QED BY <2>1, <2>2, <2>4, <2>5, <2>6, Longer
<1>4. ASSUME DropByte, rx # <<>> PROVE LineInv'
  <2>1. Tail(rx) \in Seq(Cells) /\ Len(Tail(rx)) = Len(rx) - 1
        /\ (\A i \in 1 .. Len(rx) - 1 : Tail(rx)[i] = rx[i + 1]) /\ Len(rx) \in Nat \ {0}
    BY <1>4, FramerTypes
  <2>2. rx \in Seq(Cells) /\ line \in Seq(Cells) BY DEF TypeInv
  <2>3. 1 <= Len(Stream) /\ Len(Stream') = Len(Stream) - 1
        /\ \A i \in 1 .. Len(Stream') : Stream'[i] = Stream[i + 1]
    <3>1. Stream' = Tail(rx) \o line BY <1>4 DEF DropByte, Stream
    <3>2. 1 <= Len(rx \o line) /\ Len(Tail(rx) \o line) = Len(rx \o line) - 1
          /\ \A i \in 1 .. Len(Tail(rx) \o line) : (Tail(rx) \o line)[i] = (rx \o line)[i + 1]
      BY <2>1, <2>2, Cut
    <3>3. QED BY <3>1, <3>2 DEF Stream
  <2>4. UNCHANGED <<next, out>> /\ heard' = heard BY <1>4 DEF DropByte
  <2>5. Stream \in Seq(Cells) BY <2>2, Concatenated DEF Stream
  <2>6. \A i \in 1 .. Len(Stream') : i + 1 \in DOMAIN Stream BY <2>3, <2>5
  <2>7. QED BY <2>3, <2>4, <2>6, Shorter DEF LineInv, Ordered
<1>5. CASE Hunt BY <1>4, <1>5 DEF Hunt, Hunting
<1>6. CASE RejectLength
  <2>1. rx # <<>> BY <1>6 DEF RejectLength, FalseLength, Candidate, TypeInv
  <2>2. QED BY <1>4, <1>6, <2>1 DEF RejectLength
<1>7. CASE RejectCrc
  <2>1. rx # <<>> BY <1>7 DEF RejectCrc, Complete, Candidate, TypeInv
  <2>2. QED BY <1>4, <1>7, <2>1 DEF RejectCrc
<1>8. CASE Read
  <2> DEFINE n == IF Len(line) < Pull THEN Len(line) ELSE Pull
             a == SubSeq(line, 1, n)
             b == SubSeq(line, n + 1, Len(line))
  <2>1. rx \in Seq(Cells) /\ line \in Seq(Cells) BY DEF TypeInv
  <2>2. n \in 0 .. Len(line) BY <2>1, PullAssumption
  <2>3. rx' = rx \o a /\ line' = b BY <1>8 DEF Read
  <2> HIDE DEF n
  <2>4. a \in Seq(Cells) /\ b \in Seq(Cells) BY <2>1, <2>2
  <2>5. a \o b = line
    <3>1. 1 \in 1 .. Len(line) + 1 /\ n \in 1 - 1 .. Len(line) /\ Len(line) \in n .. Len(line) BY <2>1, <2>2
    <3>2. a \o b = SubSeq(line, 1, Len(line)) BY <2>1, <3>1, ConcatAdjacentSubSeq
    <3>3. SubSeq(line, 1, Len(line)) = line BY <2>1, SubSeqFull
    <3>4. QED BY <3>2, <3>3
  <2> HIDE DEF a, b
  <2>6. Stream' = Stream
    <3>1. (rx \o a) \o b = rx \o (a \o b) BY <2>1, <2>4, ConcatAssociative
    <3>2. QED BY <2>3, <2>5, <3>1 DEF Stream
  <2>7. heard' = heard /\ UNCHANGED <<next, out>> BY <1>8 DEF Read
  <2>8. QED BY <2>6, <2>7 DEF LineInv, WellFormed, FrameAt, Ordered, Sent
<1>9. CASE Accept
  <2>1. rx \in Seq(Cells) /\ line \in Seq(Cells) BY DEF TypeInv
  <2>2. rx' = SubSeq(rx, Total + 1, Len(rx)) /\ Total <= Len(rx) /\ line' = line
        /\ heard' = heard \cup {rx[1].tag} /\ UNCHANGED <<next, out>>
    BY <1>9, Newest DEF Accept, Complete
  <2>3. Total \in Nat /\ Total >= 3 BY TagTypes
  <2> DEFINE q == SubSeq(rx, Total + 1, Len(rx))
  <2>4. q \in Seq(Cells) /\ Len(q) = Len(rx) - Total /\ \A i \in 1 .. Len(q) : q[i] = rx[i + Total]
    BY <2>1, <2>2, <2>3
  <2> HIDE DEF q
  <2>5. Total <= Len(Stream) /\ Len(Stream') = Len(Stream) - Total
        /\ \A i \in 1 .. Len(Stream') : Stream'[i] = Stream[i + Total]
    <3>1. Stream' = q \o line BY <2>2 DEF Stream, q
    <3>2. Total <= Len(rx \o line) /\ Len(q \o line) = Len(rx \o line) - Total
          /\ \A i \in 1 .. Len(q \o line) : (q \o line)[i] = (rx \o line)[i + Total]
      BY <2>1, <2>2, <2>3, <2>4, Cut
    <3>3. QED BY <3>1, <3>2 DEF Stream
  <2>6. Stream \in Seq(Cells) BY <2>1, Concatenated DEF Stream
  <2>7. \A i \in 1 .. Len(Stream') : i + Total \in DOMAIN Stream /\ i + Total \in 2 .. Len(Stream)
    BY <2>3, <2>5, <2>6
  <2>8. ASSUME NEW i \in 1 .. Len(Stream'), Stream'[i].tag # None, NEW f \in heard'
        PROVE  Before(f, Stream'[i].tag)
    <3>1. Stream'[i] = Stream[i + Total] BY <2>5
    <3>2. CASE f = rx[1].tag BY <1>9, <2>7, <2>8, <3>1, <3>2, Newest
    <3>3. CASE f \in heard BY <2>7, <2>8, <3>1, <3>3 DEF LineInv, Ordered
    <3>4. QED BY <2>2, <3>2, <3>3
  <2>9. \A f \in heard' : Sent(f) BY <1>9, <2>2, Newest DEF LineInv
  <2>10. QED BY <2>2, <2>3, <2>5, <2>8, <2>9, Shorter
<1>10. CASE Reset
  <2>1. rx \in Seq(Cells) /\ line \in Seq(Cells) BY DEF TypeInv
  <2>2. rx' = <<>> /\ line' = line /\ heard' = heard /\ UNCHANGED <<next, out>> BY <1>10 DEF Reset
  <2>3. <<>> \in Seq(Cells) /\ Len(<<>>) = Len(rx) - Len(rx) /\ Len(rx) \in Nat BY <2>1
  <2>4. Len(rx) <= Len(Stream) /\ Len(Stream') = Len(Stream) - Len(rx)
        /\ \A i \in 1 .. Len(Stream') : Stream'[i] = Stream[i + Len(rx)]
    <3> DEFINE q == SubSeq(rx, Len(rx) + 1, Len(rx))
    <3>1. q = <<>> /\ q \in Seq(Cells) BY <2>1
    <3>2. Stream' = q \o line BY <2>2, <3>1 DEF Stream
    <3>3. Len(q) = Len(rx) - Len(rx) /\ \A i \in 1 .. Len(q) : q[i] = rx[i + Len(rx)] BY <2>3, <3>1
    <3> HIDE DEF q
    <3>4. Len(rx) <= Len(rx \o line) /\ Len(q \o line) = Len(rx \o line) - Len(rx)
          /\ \A i \in 1 .. Len(q \o line) : (q \o line)[i] = (rx \o line)[i + Len(rx)]
      BY <2>1, <2>3, <3>1, <3>3, Cut
    <3>5. QED BY <3>2, <3>4 DEF Stream
  <2>5. Stream \in Seq(Cells) BY <2>1, Concatenated DEF Stream
  <2>6. \A i \in 1 .. Len(Stream') : i + Len(rx) \in DOMAIN Stream BY <2>3, <2>4, <2>5
  <2>7. \A i \in 1 .. Len(Stream') : Stream'[i].tag # None => \A f \in heard' : Before(f, Stream'[i].tag)
    BY <2>2, <2>4, <2>6 DEF LineInv, Ordered
  <2>8. QED BY <2>2, <2>3, <2>4, <2>7, Shorter DEF LineInv
<1>11. QED BY <1>1, <1>2, <1>3, <1>5, <1>6, <1>7, <1>8, <1>9, <1>10 DEF Next, Receiver

-----------------------------------------------------------------------------
(* The steps of the reassembler. *)

\* Hearing one more fragment, newer than all before, breaks no chain.
LEMMA ChainGrows ==
  ASSUME heard \subseteq Fragments, NEW f \in Fragments, \A g \in heard : Before(g, f),
         heard' = heard \cup {f}, NEW d \in Seq(Fragments), Chained(d)
  PROVE  Chained(d)'
<1>1. ASSUME NEW i \in 2 .. Len(d) PROVE Joined(d[i - 1], d[i])'
  <2>1. i \in DOMAIN d /\ d[i] \in heard BY DEF Chained
  <2>a. d[i] \in Fragments /\ Before(d[i], f) BY <2>1
  <2>b. d[i].pkt \in Int /\ f.pkt \in Int BY ONLY <2>a, f \in Fragments DEF Fragments, Packets
  <2>2. d[i].pkt \in Int /\ d[i].pkt <= f.pkt /\ f.pkt \in Int BY ONLY <2>a, <2>b DEF Before
  <2>3. Joined(d[i - 1], d[i]) BY DEF Chained
  <2>4. ASSUME NEW p \in d[i - 1].pkt + 1 .. d[i].pkt - 1, PacketOf(p) = {} PROVE PacketOf(p)' = {}
    <3>1. p \in Int /\ p < d[i].pkt BY <2>2
    <3>2. f.pkt # p BY <3>1, <2>2
    <3>3. QED BY <2>4, <3>2 DEF PacketOf
  <2>5. QED BY <2>3, <2>4 DEF Joined
<1>2. \A i \in DOMAIN d : d[i].idx = i - 1 /\ d[i] \in heard' BY DEF Chained
<1>3. QED BY <1>1, <1>2 DEF Chained

\* A fragment that fits the set in progress chains on to it.
LEMMA ChainFits ==
  ASSUME TypeInv, SetInv, NEW f \in Fragments, \A g \in heard : Before(g, f),
         heard' = heard \cup {f}, Continues(f), NEW d, d = Append(parts, f)
  PROVE  Chained(d)'
<1>1. PICK p : p = parts OBVIOUS
<1>2. PICK n : n = Len(p) OBVIOUS
<1>3. p \in Seq(Fragments) /\ Chained(p) /\ n \in Nat \ {0} /\ Pid(p[n]) = set.pid /\ p[n] \in heard
      /\ set.next = n /\ \A g \in heard : g = p[n] \/ Before(g, p[n])
  BY <1>1, <1>2 DEF TypeInv, SetInv, Continues, Chained
<1>4. f.idx = n /\ Pid(f) = Pid(p[n]) BY <1>3 DEF Continues, Fits
<1>5. d \in Seq(Fragments) /\ Len(d) = n + 1 /\ d[n + 1] = f /\ DOMAIN d = 1 .. n + 1
      /\ (\A i \in 1 .. n : d[i] = p[i]) /\ DOMAIN p = 1 .. n
  BY <1>1, <1>2, <1>3
<1>6. Chained(p)' BY <1>3, ChainGrows DEF TypeInv
<1>7. Joined(p[n], f)'
  <2>1. PICK a : a = p[n].pkt OBVIOUS
  <2>2. PICK b : b = f.pkt OBVIOUS
  <2>3. p[n] \in Fragments BY <1>3, <1>5
  <2>4. a \in Nat /\ b \in Nat /\ a <= b
    <3>1. Before(p[n], f) BY <1>3
    <3>2. a \in Nat /\ b \in Nat BY <2>1, <2>2, <2>3 DEF Fragments, Packets
    <3>3. QED BY <2>1, <2>2, <3>1, <3>2 DEF Before
  <2>5. ASSUME NEW g \in heard PROVE g.pkt \in Int /\ g.pkt <= a
    <3>1. g \in Fragments BY DEF TypeInv
    <3>2. g = p[n] \/ Before(g, p[n]) BY <1>3
    <3>3. QED BY <3>1, <3>2, <2>1, <2>4 DEF Before, Fragments, Packets
  <2>6. CASE a = b BY <2>1, <2>2, <2>6 DEF Joined
  <2>7. CASE a < b
    <3>1. a % PidMod = b % PidMod BY <1>4, <2>1, <2>2 DEF Pid
    <3>2. b >= a + PidMod BY <2>4, <2>7, <3>1, PidAssumption, ModGap
    <3>3. ASSUME NEW k \in a + 1 .. b - 1 PROVE PacketOf(k)' = {}
      <4>1. k \in Int /\ a < k /\ k < b BY <2>4
      <4>2. \A g \in heard' : g.pkt # k BY <2>5, <4>1, <2>2, <2>4
      <4>3. QED BY <4>2 DEF PacketOf
    <3>4. QED BY <2>1, <2>2, <3>2, <3>3 DEF Joined
  <2>8. QED BY <2>4, <2>6, <2>7
<1>8. ASSUME NEW i \in 2 .. Len(d) PROVE Joined(d[i - 1], d[i])'
  <2>1. CASE i <= n
    <3>1. i \in 2 .. Len(p) /\ i \in 1 .. n /\ i - 1 \in 1 .. n BY <1>2, <1>3, <1>5, <2>1
    <3>2. d[i] = p[i] /\ d[i - 1] = p[i - 1] BY <1>5, <3>1
    <3>3. Joined(p[i - 1], p[i])' BY <1>6, <3>1 DEF Chained
    <3>4. QED BY <3>2, <3>3
  <2>2. CASE i = n + 1
    <3>1. i - 1 = n /\ d[i - 1] = p[n] /\ d[i] = f BY <1>3, <1>5, <2>2
    <3>2. QED BY <3>1, <1>7
  <2>3. QED BY <1>3, <1>5, <2>1, <2>2
<1>9. ASSUME NEW i \in DOMAIN d PROVE d[i].idx = i - 1 /\ d[i] \in heard'
  <2>1. CASE i \in 1 .. n
    <3>1. d[i] = p[i] /\ i \in DOMAIN p BY <2>1, <1>5
    <3>2. QED BY <3>1, <1>3 DEF Chained
  <2>2. CASE i = n + 1 BY <2>2, <1>3, <1>4, <1>5
  <2>3. QED BY <1>3, <1>5, <2>1, <2>2
<1>10. QED BY <1>8, <1>9 DEF Chained

\* What the invariants say of the delivered packets, of one of them.
LEMMA DeliveredLast ==
  ASSUME TypeInv, DeliveredInv, NEW k \in DOMAIN delivered
  PROVE  LET d == delivered[k]
         IN  /\ d \in Seq(Fragments) /\ Chained(d) /\ Len(d) \in Nat \ {0}
             /\ d[Len(d)] \in heard /\ d[Len(d)] \in Fragments
<1> DEFINE d == delivered[k]
<1>1. d \in Seq(Fragments) BY DEF TypeInv
<1>2. Len(d) > 0 /\ Chained(d) BY DEF DeliveredInv
<1>3. Len(d) \in Nat \ {0} /\ Len(d) \in DOMAIN d BY <1>1, <1>2
<1>4. QED BY <1>1, <1>2, <1>3 DEF Chained, TypeInv

\* One packet more, whole and newer than those before.
LEMMA DeliverOne ==
  ASSUME TypeInv, DeliveredInv, NEW f \in Fragments, \A g \in heard : Before(g, f),
         heard' = heard \cup {f}, NEW d \in Seq(Fragments), delivered' = Append(delivered, d),
         Len(d) > 0, Chained(d)', \A i \in DOMAIN d : d[i].more <=> i < Len(d),
         \A k \in DOMAIN delivered : delivered[k][Len(delivered[k])].pkt < d[1].pkt
  PROVE  DeliveredInv'
<1>1. PICK e : e = delivered OBVIOUS
<1>2. PICK n : n = Len(e) OBVIOUS
<1>3. PICK t : t = Append(e, d) OBVIOUS
<1>4. e \in Seq(Seq(Fragments)) BY <1>1 DEF TypeInv
<1>5. n \in Nat /\ DOMAIN e = 1 .. n /\ DOMAIN t = 1 .. n + 1 /\ t[n + 1] = d
      /\ \A i \in 1 .. n : t[i] = e[i]
  BY <1>2, <1>3, <1>4
<1>6. ASSUME NEW k \in DOMAIN t
      PROVE  Len(t[k]) > 0 /\ Chained(t[k])' /\ \A i \in DOMAIN t[k] : t[k][i].more <=> i < Len(t[k])
  <2>1. CASE k \in 1 .. n
    <3>1. PICK c : c = t[k] OBVIOUS
    <3>2. c = delivered[k] /\ k \in DOMAIN delivered BY <1>1, <1>5, <2>1, <3>1
    <3>3. c \in Seq(Fragments) /\ Chained(c) BY <3>2, DeliveredLast
    <3>4. Chained(c)' BY <3>3, ChainGrows DEF TypeInv
    <3>5. Len(c) > 0 /\ \A i \in DOMAIN c : c[i].more <=> i < Len(c) BY <3>2 DEF DeliveredInv
    <3>6. QED BY <3>1, <3>4, <3>5
  <2>2. CASE k = n + 1 BY <2>2, <1>5
  <2>3. QED BY <1>5, <2>1, <2>2
<1>7. ASSUME NEW k \in DOMAIN t, NEW l \in DOMAIN t, k < l PROVE t[k][Len(t[k])].pkt < t[l][1].pkt
  <2>1. k \in 1 .. n /\ t[k] = delivered[k] /\ k \in DOMAIN delivered BY <1>1, <1>5, <1>7
  <2>2. CASE l \in 1 .. n
    <3>1. t[l] = delivered[l] /\ l \in DOMAIN delivered BY <1>1, <1>5, <2>2
    <3>2. QED BY <2>1, <3>1, <1>7 DEF DeliveredInv
  <2>3. CASE l = n + 1 BY <2>1, <2>3, <1>5
  <2>4. QED BY <1>5, <2>2, <2>3
<1>8. delivered' = t BY <1>1, <1>3
<1>9. ASSUME NEW k \in DOMAIN delivered'
      PROVE  /\ Len(delivered'[k]) > 0 /\ Chained(delivered[k])'
             /\ \A i \in DOMAIN delivered'[k] : delivered'[k][i].more <=> i < Len(delivered'[k])
  <2>1. PICK c : c = t[k] OBVIOUS
  <2>2. c = delivered'[k] /\ k \in DOMAIN t BY <1>8, <2>1
  <2>3. Len(c) > 0 /\ Chained(c)' /\ \A i \in DOMAIN c : c[i].more <=> i < Len(c) BY <1>6, <2>1, <2>2
  <2>4. Chained(delivered[k])' BY <2>2, <2>3 DEF Chained
  <2>5. QED BY <2>2, <2>3, <2>4
<1>10. \A k, l \in DOMAIN delivered' :
         k < l => delivered'[k][Len(delivered'[k])].pkt < delivered'[l][1].pkt
  BY <1>7, <1>8
<1>11. QED BY <1>9, <1>10 DEF DeliveredInv

\* Nothing more delivered.
LEMMA DeliverNone ==
  ASSUME TypeInv, DeliveredInv, NEW f \in Fragments, \A g \in heard : Before(g, f),
         heard' = heard \cup {f}, delivered' = delivered
  PROVE  DeliveredInv'
<1>1. PICK t : t = delivered OBVIOUS
<1>2. ASSUME NEW k \in DOMAIN t
      PROVE  Len(t[k]) > 0 /\ Chained(t[k])' /\ \A i \in DOMAIN t[k] : t[k][i].more <=> i < Len(t[k])
  <2>1. PICK c : c = t[k] OBVIOUS
  <2>2. c \in Seq(Fragments) /\ Chained(c) BY <1>1, <2>1, DeliveredLast
  <2>3. Chained(c)' BY <2>2, ChainGrows DEF TypeInv
  <2>4. QED BY <1>1, <2>1, <2>3 DEF DeliveredInv
<1>3. QED BY <1>1, <1>2 DEF DeliveredInv

LEMMA SetStep ==
  ASSUME TypeInv, TypeInv', LineInv, SetInv, DeliveredInv, Accept PROVE SetInv' /\ DeliveredInv'
<1>1. PICK f : f = rx[1].tag OBVIOUS
<1>2. f \in Fragments /\ (\A g \in heard : Before(g, f)) /\ heard' = heard \cup {f} /\ Push(f)
  BY <1>1, Newest DEF Accept
<1>3. f.idx \in Nat /\ f.pkt \in Nat /\ f.more \in BOOLEAN BY <1>2, PidAssumption DEF Fragments, Packets
<1>4. ASSUME NEW k \in DOMAIN delivered, f.idx = 0 PROVE delivered[k][Len(delivered[k])].pkt < f.pkt
  <2>1. PICK g : g = delivered[k][Len(delivered[k])] OBVIOUS
  <2>2. g \in heard /\ g \in Fragments BY <2>1, DeliveredLast
  <2>3. Before(g, f) BY <1>2, <2>2
  <2>4. QED BY <1>3, <1>4, <2>1, <2>2, <2>3 DEF Before, Fragments, Packets
<1>5. CASE Starts(f)
  <2>1. PICK d : d = <<f>> OBVIOUS
  <2>2. f.idx = 0 /\ parts' = d BY <1>5, <2>1 DEF Starts
  <2>3. d \in Seq(Fragments) /\ Len(d) = 1 /\ d[1] = f /\ DOMAIN d = {1} BY <1>2, <2>1
  <2>4. Chained(d)'
    <3>1. \A i \in DOMAIN d : d[i].idx = i - 1 /\ d[i] \in heard' BY <1>2, <2>2, <2>3
    <3>2. 2 .. Len(d) = {} BY <2>3
    <3>3. QED BY <3>1, <3>2 DEF Chained
  <2>5. CASE f.more
    <3>1. delivered' = delivered /\ set' = [active |-> TRUE, pid |-> Pid(f), next |-> 1]
      BY <1>5, <2>5 DEF Starts
    <3>2. DeliveredInv' BY <1>2, <3>1, DeliverNone
    <3>3. SetInv'
      <4>1. Len(parts') > 0 /\ set'.next = Len(parts') /\ Chained(parts)' BY <2>2, <2>3, <2>4, <3>1
      <4>2. \A i \in DOMAIN parts' : parts'[i].more /\ Pid(parts'[i]) = set'.pid BY <2>2, <2>3, <2>5, <3>1
      <4>3. \A g \in heard' : g = parts'[Len(parts')] \/ Before(g, parts'[Len(parts')]) BY <1>2, <2>2, <2>3
      <4>4. \A k \in DOMAIN delivered' : delivered'[k][Len(delivered'[k])].pkt < parts'[1].pkt
        BY <1>4, <2>2, <2>3, <3>1
      <4>5. QED BY <4>1, <4>2, <4>3, <4>4 DEF SetInv, Pid
    <3>4. QED BY <3>2, <3>3
  <2>6. CASE ~f.more
    <3>1. delivered' = Append(delivered, d) /\ ~set'.active BY <1>5, <2>1, <2>6 DEF Starts
    <3>2. \A i \in DOMAIN d : d[i].more <=> i < Len(d) BY <2>3, <2>6
    <3>3. \A k \in DOMAIN delivered : delivered[k][Len(delivered[k])].pkt < d[1].pkt BY <1>4, <2>2, <2>3
    <3>4. DeliveredInv'
      <4>1. Len(d) > 0 /\ d \in Seq(Fragments) BY <2>3
      <4>2. f \in Fragments /\ (\A g \in heard : Before(g, f)) /\ heard' = heard \cup {f} BY <1>2
      <4>3. delivered' = Append(delivered, d) BY <3>1
      <4>4. QED BY <4>1, <4>2, <4>3, <2>4, <3>2, <3>3, DeliverOne
    <3>5. QED BY <3>1, <3>4 DEF SetInv
  <2>7. QED BY <2>5, <2>6
<1>6. CASE Stray(f)
  <2>1. delivered' = delivered /\ ~set'.active BY <1>6 DEF Stray
  <2>2. QED BY <1>2, <2>1, DeliverNone DEF SetInv
<1>7. CASE Tears(f)
  <2>1. delivered' = delivered /\ set' = Discarded BY <1>7 DEF Tears
  <2>2. ~set'.active BY <2>1 DEF Discarded, TypeInv
  <2>3. QED BY <1>2, <2>1, <2>2, DeliverNone DEF SetInv
<1>8. CASE Continues(f)
  <2>1. PICK d : d = Append(parts, f) OBVIOUS
  <2>2. PICK n : n = Len(parts) OBVIOUS
  <2>3. set.active /\ parts' = d /\ Pid(f) = set.pid /\ f.idx = set.next BY <1>8, <2>1 DEF Continues, Fits
  <2>4. n \in Nat \ {0} /\ parts \in Seq(Fragments) /\ set.next = n /\ DOMAIN parts = 1 .. n
    BY <2>2, <2>3 DEF SetInv, TypeInv
  <2>5. d \in Seq(Fragments) /\ Len(d) = n + 1 /\ d[n + 1] = f /\ DOMAIN d = 1 .. n + 1
        /\ \A i \in 1 .. n : d[i] = parts[i]
    BY <1>2, <2>1, <2>2, <2>4
  <2>6. Chained(d)' BY <1>2, <1>8, <2>1, ChainFits
  <2>7. \A k \in DOMAIN delivered : delivered[k][Len(delivered[k])].pkt < d[1].pkt
    BY <2>3, <2>4, <2>5 DEF SetInv
  <2>8. \A i \in 1 .. n : d[i].more /\ Pid(d[i]) = set.pid BY <2>3, <2>4, <2>5 DEF SetInv
  <2>9. CASE f.more
    <3>1. delivered' = delivered /\ set' = [set EXCEPT !.next = @ + 1] BY <1>8, <2>9 DEF Continues
    <3>2. set'.next = n + 1 /\ set'.pid = set.pid BY <3>1, <2>4 DEF TypeInv
    <3>3. DeliveredInv' BY <1>2, <3>1, DeliverNone
    <3>4. SetInv'
      <4>1. Len(parts') > 0 /\ set'.next = Len(parts') /\ Chained(parts)' BY <2>3, <2>4, <2>5, <2>6, <3>2
      <4>2. \A i \in DOMAIN parts' : parts'[i].more /\ Pid(parts'[i]) = set'.pid
        BY <2>3, <2>4, <2>5, <2>8, <2>9, <3>2
      <4>3. \A g \in heard' : g = parts'[Len(parts')] \/ Before(g, parts'[Len(parts')]) BY <1>2, <2>3, <2>5
      <4>4. \A k \in DOMAIN delivered' : delivered'[k][Len(delivered'[k])].pkt < parts'[1].pkt
        BY <2>3, <2>7, <3>1
      <4>5. QED BY <4>1, <4>2, <4>3, <4>4 DEF SetInv, Pid
    <3>5. QED BY <3>3, <3>4
  <2>10. CASE ~f.more
    <3>1. delivered' = Append(delivered, d) /\ set' = Discarded BY <1>8, <2>3, <2>10 DEF Continues
    <3>2. ~set'.active BY <3>1 DEF Discarded, TypeInv
    <3>3. \A i \in DOMAIN d : d[i].more <=> i < Len(d) BY <2>4, <2>5, <2>8, <2>10
    <3>4. DeliveredInv' BY <1>2, <2>4, <2>5, <2>6, <2>7, <3>1, <3>3, DeliverOne
    <3>5. QED BY <3>2, <3>4 DEF SetInv
  <2>11. QED BY <2>9, <2>10
<1>9. QED BY <1>2, <1>5, <1>6, <1>7, <1>8 DEF Push

-----------------------------------------------------------------------------
(* The frames of the stream, counted. *)

\* The undamaged frames that start in the first n cells, and how many they are.
First(s, n) == {j \in Tagged(s) : j <= n}
Rank(s, n) == Cardinality(First(s, n))

\* What the framer has to hand over: the k-th undamaged frame at the k-th place.
Awaited(s, p) ==
  /\ Len(p) = Cardinality(Tagged(s))
  /\ \A i \in Tagged(s) : p[Rank(s, i)] = s[i].tag

PendingInv == pending \in Seq(Fragments) /\ Awaited(Stream, pending)

LEMMA RankType ==
  ASSUME NEW s \in Seq(Cells), NEW n \in Int
  PROVE  /\ IsFiniteSet(Tagged(s)) /\ IsFiniteSet(First(s, n))
         /\ Tagged(s) \subseteq 1 .. Len(s)
         /\ Rank(s, n) \in 0 .. Cardinality(Tagged(s)) /\ Cardinality(Tagged(s)) \in Nat
         /\ n >= Len(s) => Rank(s, n) = Cardinality(Tagged(s))
<1> DEFINE first == First(s, n)
<1>1. IsFiniteSet(1 .. Len(s)) /\ Tagged(s) \in SUBSET (1 .. Len(s))
  BY FS_Interval DEF Tagged
<1>2. IsFiniteSet(Tagged(s)) /\ Cardinality(Tagged(s)) \in Nat
  BY <1>1, FS_Subset, FS_CardinalityType
<1>3. first \in SUBSET Tagged(s)
  BY DEF First
<1>4. IsFiniteSet(first) /\ Cardinality(first) \in Nat /\ Cardinality(first) <= Cardinality(Tagged(s))
  BY <1>2, <1>3, FS_Subset, FS_CardinalityType
<1>5. ASSUME n >= Len(s) PROVE first = Tagged(s)
  BY <1>1, <1>5 DEF First
<1> HIDE DEF first
<1> QED
  BY <1>1, <1>2, <1>4, <1>5 DEF Rank, first

\* A frame counts from its first cell on.
LEMMA RankPositive ==
  ASSUME NEW s \in Seq(Cells), NEW i \in Tagged(s)
  PROVE  i \in 1 .. Len(s) /\ Rank(s, i) \in 1 .. Cardinality(Tagged(s))
<1> DEFINE first == First(s, i)
<1>1. i \in 1 .. Len(s)
  BY RankType, 0 \in Int
<1>2. IsFiniteSet(first) /\ Rank(s, i) \in 0 .. Cardinality(Tagged(s))
  BY <1>1, RankType
<1>3. i \in first
  BY <1>1 DEF First
<1>4. Cardinality(first) # 0
  BY <1>2, <1>3, FS_EmptySet
<1> QED
  BY <1>1, <1>2, <1>4 DEF Rank

\* The frames of what is left after the first n cells are the others.
LEMMA RankCut ==
  ASSUME NEW s \in Seq(Cells), NEW t \in Seq(Cells), NEW n \in Nat, n <= Len(s),
         Len(t) = Len(s) - n, \A i \in 1 .. Len(t) : t[i] = s[i + n], NEW k \in Nat
  PROVE  Rank(t, k) = Rank(s, k + n) - Rank(s, n)
<1> DEFINE lo == First(s, n)
           hi == {j \in Tagged(s) : j > n /\ j <= k + n}
           both == First(s, k + n)
           cut == First(t, k)
<1>1. IsFiniteSet(Tagged(s)) /\ IsFiniteSet(cut) /\ Tagged(s) \subseteq 1 .. Len(s) /\ Tagged(t) \subseteq 1 .. Len(t)
  BY k \in Int, n \in Int, RankType
<1>2. lo \cup hi = both /\ lo \cap hi = {}
  BY <1>1 DEF First
<1>3. IsFiniteSet(lo) /\ IsFiniteSet(hi) /\ lo \in SUBSET Tagged(s) /\ hi \in SUBSET Tagged(s)
  BY <1>1, FS_Subset DEF First
<1>4. Cardinality(both) = Cardinality(lo) + Cardinality(hi)
  <2>1. Cardinality({}) = 0 /\ Cardinality(lo) \in Nat /\ Cardinality(hi) \in Nat
    BY <1>3, FS_EmptySet, FS_CardinalityType
  <2>2. Cardinality(lo \cup hi) = Cardinality(lo) + Cardinality(hi) - Cardinality(lo \cap hi)
    BY <1>3, FS_Union
  <2>3. Cardinality(lo \cup hi) = Cardinality(both) /\ Cardinality(lo \cap hi) = 0
    BY <1>2, <2>1, Zenon
  <2> DEFINE a == Cardinality(lo)
             b == Cardinality(hi)
  <2>4. a \in Nat /\ b \in Nat /\ Cardinality(both) = a + b - 0
    BY <2>1, <2>2, <2>3
  <2> HIDE DEF a, b
  <2>5. Cardinality(both) = a + b
    BY <2>4
  <2> QED BY <2>5 DEF a, b
<1>5. Cardinality(hi) = Cardinality(cut)
  <2> DEFINE shift == [j \in cut |-> j + n]
  <2>1. \A j \in cut : j + n \in hi
    <3> SUFFICES ASSUME NEW j \in cut PROVE j + n \in hi
      OBVIOUS
    <3>1. j \in 1 .. Len(t) /\ j <= k /\ t[j].tag # None
      BY <1>1 DEF First, Tagged
    <3>2. j + n \in 1 .. Len(s) /\ s[j + n].tag # None
      BY <3>1
    <3> QED BY <3>1, <3>2 DEF Tagged
  <2>2. \A i \in hi : i - n \in cut /\ (i - n) + n = i
    <3> SUFFICES ASSUME NEW i \in hi PROVE i - n \in cut /\ (i - n) + n = i
      OBVIOUS
    <3>1. i \in 1 .. Len(s) /\ i > n /\ i <= k + n /\ s[i].tag # None
      BY <1>1 DEF Tagged
    <3>2. i - n \in 1 .. Len(t) /\ (i - n) + n = i /\ i - n <= k
      BY <3>1
    <3>3. t[i - n].tag # None
      BY <3>1, <3>2
    <3> QED BY <3>2, <3>3 DEF First, Tagged
  <2>3. \A i, j \in cut : i + n = j + n => i = j
    BY <1>1 DEF First
  <2> HIDE DEF cut, hi
  <2>4. shift \in [cut -> hi] /\ \A j \in cut : shift[j] = j + n
    BY <2>1
  <2>5. shift \in Injection(cut, hi)
    BY <2>3, <2>4 DEF Injection, IsInjective
  <2>6. shift \in Surjection(cut, hi)
    <3>1. \A i \in hi : \E j \in cut : shift[j] = i
      BY <2>2, <2>4
    <3> QED BY <2>4, <3>1 DEF Surjection
  <2>7. ExistsBijection(cut, hi)
    BY <2>5, <2>6 DEF ExistsBijection, Bijection
  <2>8. IsFiniteSet(cut)
    BY <1>1 DEF cut
  <2> QED BY <2>7, <2>8, FS_Bijection
<1>6. Cardinality(lo) \in Nat /\ Cardinality(hi) \in Nat
  BY <1>3, FS_CardinalityType
<1> QED
  BY <1>4, <1>5, <1>6 DEF Rank

\* Cells leave in front, their frames are no longer awaited.
LEMMA AwaitedCut ==
  ASSUME NEW s \in Seq(Cells), NEW t \in Seq(Cells), NEW n \in Nat, n <= Len(s),
         Len(t) = Len(s) - n, \A i \in 1 .. Len(t) : t[i] = s[i + n],
         NEW p \in Seq(Fragments), Awaited(s, p), NEW m, m = Rank(s, n)
  PROVE  SubSeq(p, m + 1, Len(p)) \in Seq(Fragments) /\ Awaited(t, SubSeq(p, m + 1, Len(p)))
<1> DEFINE q == SubSeq(p, m + 1, Len(p))
           all == Cardinality(Tagged(s))
           rest == Cardinality(Tagged(t))
<1>1. m \in 0 .. all /\ all \in Nat /\ Len(p) = all
  BY n \in Int, RankType DEF Awaited
<1>2. rest = all - m
  <2>1. Rank(t, Len(t)) = rest /\ Rank(s, Len(s)) = all
    <3>1. Len(t) \in Int /\ Len(s) \in Int /\ Len(t) >= Len(t) /\ Len(s) >= Len(s)
      OBVIOUS
    <3> QED BY <3>1, RankType
  <2>2. Rank(t, Len(t)) = Rank(s, Len(t) + n) - Rank(s, n)
    BY Len(t) \in Nat, RankCut
  <2>3. Len(t) + n = Len(s)
    OBVIOUS
  <2> QED BY <2>1, <2>2, <2>3
<1> HIDE DEF all, rest
<1>3. q \in Seq(Fragments) /\ Len(q) = all - m /\ \A i \in 1 .. all - m : q[i] = p[i + m]
  BY SMTT(30), <1>1
<1>4. ASSUME NEW i \in Tagged(t) PROVE q[Rank(t, i)] = t[i].tag
  <2>1. i \in 1 .. Len(t) /\ Rank(t, i) \in 1 .. rest /\ t[i].tag # None
    BY RankPositive DEF rest, Tagged
  <2>2. i + n \in Tagged(s) /\ s[i + n] = t[i]
    BY <2>1 DEF Tagged
  <2>3. Rank(t, i) = Rank(s, i + n) - m /\ Rank(s, i + n) \in Int
    <3>1. i \in Nat
      BY <2>1
    <3>2. Rank(s, i + n) \in 1 .. Cardinality(Tagged(s))
      BY <2>2, RankPositive
    <3>3. Rank(t, i) = Rank(s, i + n) - Rank(s, n)
      BY <3>1, RankCut
    <3> QED BY <3>2, <3>3
  <2>4. p[Rank(s, i + n)] = s[i + n].tag
    BY <2>2 DEF Awaited
  <2>5. q[Rank(t, i)] = p[Rank(t, i) + m] /\ Rank(t, i) + m = Rank(s, i + n)
    <3> DEFINE k == Rank(t, i)
               l == Rank(s, i + n)
    <3>1. k \in 1 .. all - m /\ k = l - m /\ l \in Int
      BY <1>2, <2>1, <2>3
    <3> HIDE DEF k, l, q
    <3>2. q[k] = p[k + m]
      BY ONLY <1>3, <3>1
    <3>3. k + m = l
      BY ONLY <1>1, <3>1
    <3> QED BY <3>2, <3>3 DEF k, l
  <2> QED BY <2>2, <2>4, <2>5
<1> QED
  BY <1>2, <1>3, <1>4 DEF Awaited, rest

\* A frame comes on the line, or only noise.
LEMMA AwaitedLonger ==
  ASSUME NEW s \in Seq(Cells), NEW e \in Seq(Cells), NEW p \in Seq(Fragments), Awaited(s, p),
         \A i \in 2 .. Len(e) : e[i].tag = None
  PROVE  /\ Len(e) > 0 /\ e[1].tag # None =>
              \A f \in Fragments : f = e[1].tag => Awaited(s \o e, Append(p, f))
         /\ ~(Len(e) > 0 /\ e[1].tag # None) => Awaited(s \o e, p)
<1> DEFINE t == s \o e
           all == Cardinality(Tagged(s))
<1>1. t \in Seq(Cells) /\ Len(t) = Len(s) + Len(e) /\ Len(s) \in Nat /\ Len(e) \in Nat
      /\ (\A i \in 1 .. Len(s) : t[i] = s[i]) /\ \A i \in 1 .. Len(e) : t[Len(s) + i] = e[i]
  BY Concatenated
<1> HIDE DEF t
<1>2. IsFiniteSet(Tagged(s)) /\ Tagged(s) \subseteq 1 .. Len(s) /\ all \in Nat /\ Len(p) = all
  BY RankType, 0 \in Int DEF Awaited
<1>3. \A i \in 1 .. Len(s) : i \in Tagged(t) <=> i \in Tagged(s)
  BY <1>1 DEF Tagged
<1>4. ASSUME NEW i \in 1 .. Len(s) PROVE Rank(t, i) = Rank(s, i)
  <2>1. First(t, i) = First(s, i)
    <3>1. Tagged(t) \subseteq 1 .. Len(t)
      BY <1>1, RankType, 0 \in Int
    <3> QED BY <1>1, <1>2, <1>3, <3>1 DEF First
  <2> QED BY <2>1 DEF Rank
<1>5. \A i \in Tagged(t) : i \in 1 .. Len(t) /\ t[i].tag # None
  BY <1>1 DEF Tagged
<1>6. \A i \in Tagged(t) : i > Len(s) => i = Len(s) + 1 /\ Len(e) > 0 /\ e[1].tag # None
  <2> SUFFICES ASSUME NEW i \in Tagged(t), i > Len(s)
               PROVE  i = Len(s) + 1 /\ Len(e) > 0 /\ e[1].tag # None
    OBVIOUS
  <2>1. i - Len(s) \in 1 .. Len(e) /\ Len(s) + (i - Len(s)) = i
    BY <1>1, <1>5
  <2>2. t[i] = e[i - Len(s)]
    BY <1>1, <2>1
  <2>3. i - Len(s) = 1
    <3> DEFINE k == i - Len(s)
    <3>1. k \in 1 .. Len(e) /\ e[k].tag # None
      BY <1>5, <2>1, <2>2
    <3> HIDE DEF k
    <3>2. k = 1
      BY <1>1, <3>1
    <3> QED BY <3>2 DEF k
  <2> QED BY <1>1, <1>5, <2>1, <2>2, <2>3
<1>7. CASE ~(Len(e) > 0 /\ e[1].tag # None)
  <2>1. Tagged(t) = Tagged(s)
    <3>1. \A i \in Tagged(t) : i \in 1 .. Len(s)
      BY <1>1, <1>5, <1>6, <1>7
    <3> QED BY <1>2, <1>3, <3>1
  <2>2. \A i \in Tagged(s) : p[Rank(t, i)] = t[i].tag
    BY <1>1, <1>2, <1>4 DEF Awaited
  <2>3. Awaited(t, p)
    BY <2>1, <2>2 DEF Awaited
  <2> QED BY <1>7, <2>3 DEF t
<1>8. CASE Len(e) > 0 /\ e[1].tag # None
  <2> SUFFICES ASSUME NEW f \in Fragments, f = e[1].tag PROVE Awaited(t, Append(p, f))
    BY <1>8 DEF t
  <2> DEFINE last == Len(s) + 1
             q == Append(p, f)
  <2>1. t[last] = e[1] /\ last \in Tagged(t) /\ last \notin Tagged(s)
    <3>1. 1 \in 1 .. Len(e) /\ last \in 1 .. Len(t)
      BY <1>1, <1>8
    <3> QED BY <1>1, <1>2, <1>8, <3>1 DEF Tagged
  <2>2. Tagged(t) = Tagged(s) \cup {last}
    BY <1>1, <1>2, <1>3, <1>5, <1>6, <2>1
  <2>3. Cardinality(Tagged(t)) = all + 1
    BY <1>2, <2>1, <2>2, FS_AddElement
  <2>4. Rank(t, last) = all + 1
    <3>1. First(t, last) = Tagged(t)
      BY <1>1, <1>5, <1>6 DEF First
    <3> QED BY <2>3, <3>1 DEF Rank
  <2>5. Len(q) = all + 1 /\ q[all + 1] = f /\ \A i \in 1 .. all : q[i] = p[i]
    BY <1>2
  <2> HIDE DEF q
  <2>6. ASSUME NEW i \in Tagged(s) PROVE q[Rank(t, i)] = t[i].tag
    <3>1. i \in 1 .. Len(s) /\ Rank(s, i) \in 1 .. all
      BY RankPositive
    <3>2. p[Rank(s, i)] = s[i].tag
      BY DEF Awaited
    <3> QED BY <1>1, <1>4, <2>5, <3>1, <3>2
  <2>7. \A i \in Tagged(t) : q[Rank(t, i)] = t[i].tag
    BY <2>1, <2>2, <2>4, <2>5, <2>6
  <2> QED BY <2>3, <2>5, <2>7 DEF Awaited, q
<1> QED
  BY <1>7, <1>8

\* The framer drops a byte only when no undamaged frame starts there.
LEMMA DropsUntagged ==
  ASSUME TypeInv, LineInv, Hunt \/ RejectLength \/ RejectCrc PROVE rx # <<>> /\ rx[1].tag = None
<1>1. rx \in Seq(Cells) /\ line \in Seq(Cells) BY DEF TypeInv
<1>2. rx # <<>>
  BY <1>1 DEF Hunt, Hunting, RejectLength, FalseLength, RejectCrc, Complete, Candidate
<1>3. SUFFICES ASSUME rx[1].tag # None PROVE FALSE BY <1>2
<1>4. ~RejectCrc BY <1>3 DEF RejectCrc, CrcHolds
<1>5. Stream \in Seq(Cells) /\ 1 \in DOMAIN Stream /\ Stream[1] = rx[1]
      /\ \A i \in 1 .. Len(rx) : Stream[i] = rx[i]
  BY <1>1, <1>2, Concatenated DEF Stream
<1>6. FrameAt(Stream, 1) BY <1>3, <1>5 DEF LineInv, WellFormed
<1>7. rx[1].v = Sof /\ Stream[2].v = 1 BY <1>5, <1>6 DEF FrameAt
<1>8. ~Hunt BY <1>7 DEF Hunt, Hunting
<1>9. FalseLength /\ Len(rx) >= 2 BY <1>4, <1>8 DEF RejectLength, FalseLength, Candidate
<1>10. rx[2].v = 1 BY <1>1, <1>5, <1>7, <1>9
<1>11. QED BY <1>9, <1>10, SizeAssumption DEF FalseLength, TotalOf

\* How the framer's front moves in the stream.
LEMMA StreamCut ==
  ASSUME TypeInv, NEW n \in Nat, n <= Len(rx), rx' = SubSeq(rx, n + 1, Len(rx)), line' = line
  PROVE  /\ Stream \in Seq(Cells) /\ Stream' \in Seq(Cells) /\ n <= Len(Stream)
         /\ Len(Stream') = Len(Stream) - n /\ \A i \in 1 .. Len(Stream') : Stream'[i] = Stream[i + n]
<1>1. PICK q : q = SubSeq(rx, n + 1, Len(rx)) OBVIOUS
<1>2. rx \in Seq(Cells) /\ line \in Seq(Cells) BY DEF TypeInv
<1>3. q \in Seq(Cells) /\ Len(q) = Len(rx) - n /\ \A i \in 1 .. Len(q) : q[i] = rx[i + n]
  <2>1. PICK r : r = rx OBVIOUS
  <2>2. r \in Seq(Cells) /\ Len(r) \in Nat /\ n <= Len(r) /\ q = SubSeq(r, n + 1, Len(r)) BY <1>1, <1>2, <2>1
  <2>3. /\ q \in Seq(Cells) /\ Len(q) = IF n + 1 <= Len(r) THEN Len(r) - (n + 1) + 1 ELSE 0
        /\ \A i \in 1 .. Len(r) - (n + 1) + 1 : q[i] = r[(n + 1) + i - 1]
    BY ONLY <2>2, n \in Nat, SubSeqProperties
  <2>4. Len(q) = Len(r) - n BY <2>2, <2>3
  <2>5. \A i \in 1 .. Len(q) : i \in 1 .. Len(r) - (n + 1) + 1 /\ (n + 1) + i - 1 = i + n BY <2>2, <2>4
  <2>6. QED BY <2>1, <2>3, <2>4, <2>5
<1>4. Stream = rx \o line /\ Stream' = q \o line BY <1>1 DEF Stream
<1>5. /\ n <= Len(rx \o line) /\ Len(q \o line) = Len(rx \o line) - n
      /\ \A i \in 1 .. Len(q \o line) : (q \o line)[i] = (rx \o line)[i + n]
  BY <1>2, <1>3, Cut
<1>6. rx \o line \in Seq(Cells) /\ q \o line \in Seq(Cells) BY <1>2, <1>3, Concatenated
<1>7. QED BY <1>4, <1>5, <1>6

\* The frames in front of the stream, by the tags of its cells.
LEMMA FrontFrames ==
  ASSUME NEW s \in Seq(Cells), NEW n \in Nat \ {0}, n <= Len(s), \A i \in 2 .. n : s[i].tag = None
  PROVE  Rank(s, n) = IF s[1].tag = None THEN 0 ELSE 1
<1>1. First(s, n) = IF s[1].tag = None THEN {} ELSE {1}
  <2>1. \A j : j \in First(s, n) <=> j \in 1 .. n /\ s[j].tag # None
    BY DEF First, Tagged
  <2>2. \A j \in 1 .. n : s[j].tag # None => j = 1
    BY 1 \in 1 .. n
  <2>3. 1 \in 1 .. n
    OBVIOUS
  <2> QED BY <2>1, <2>2, <2>3
<1>2. Cardinality({}) = 0 /\ Cardinality({1}) = 1
  BY FS_EmptySet, FS_Singleton
<1> QED
  BY <1>1, <1>2 DEF Rank

\* What is awaited after the framer's front moved over n cells.
LEMMA PendingCut ==
  ASSUME TypeInv, PendingInv, NEW n \in Nat, n <= Len(rx), rx' = SubSeq(rx, n + 1, Len(rx)), line' = line,
         NEW m, m = Rank(Stream, n), pending' = SubSeq(pending, m + 1, Len(pending))
  PROVE  PendingInv'
<1>1. PICK s : s = Stream OBVIOUS
<1>2. PICK t : t = Stream' OBVIOUS
<1>3. PICK p : p = pending OBVIOUS
<1>4. /\ s \in Seq(Cells) /\ t \in Seq(Cells) /\ n <= Len(s)
      /\ Len(t) = Len(s) - n /\ \A i \in 1 .. Len(t) : t[i] = s[i + n]
  BY <1>1, <1>2, StreamCut
<1>5. p \in Seq(Fragments) /\ Awaited(s, p) /\ m = Rank(s, n) BY <1>1, <1>3 DEF PendingInv
<1>6. SubSeq(p, m + 1, Len(p)) \in Seq(Fragments) /\ Awaited(t, SubSeq(p, m + 1, Len(p)))
  BY ONLY <1>4, <1>5, AwaitedCut, n \in Nat
<1>7. PendingInv' <=> pending' \in Seq(Fragments) /\ Awaited(t, pending')
  BY <1>2 DEF PendingInv, Awaited, Rank, First, Tagged
<1>8. QED BY <1>3, <1>6, <1>7

\* A frame or noise behind all the rest.
LEMMA PendingLonger ==
  ASSUME TypeInv, PendingInv, NEW e \in Seq(Cells), rx' = rx, line' = line \o e,
         \A i \in 2 .. Len(e) : e[i].tag = None,
         \/ ~(Len(e) > 0 /\ e[1].tag # None) /\ pending' = pending
         \/ Len(e) > 0 /\ e[1].tag \in Fragments /\ pending' = Append(pending, e[1].tag)
  PROVE  PendingInv'
<1>1. PICK s : s = Stream OBVIOUS
<1>2. PICK p : p = pending OBVIOUS
<1>3. rx \in Seq(Cells) /\ line \in Seq(Cells) /\ s = rx \o line BY <1>1 DEF TypeInv, Stream
<1>4. s \in Seq(Cells) BY <1>3, Concatenated
<1>5. Stream' = s \o e
  <2>1. (rx \o line) \o e = rx \o (line \o e) BY <1>3, ConcatAssociative
  <2>2. QED BY <1>3, <2>1 DEF Stream
<1>6. p \in Seq(Fragments) /\ Awaited(s, p) BY <1>1, <1>2 DEF PendingInv
<1>7. PICK t : t = s \o e OBVIOUS
<1>8. PendingInv' <=> pending' \in Seq(Fragments) /\ Awaited(t, pending')
  BY <1>5, <1>7 DEF PendingInv, Awaited, Rank, First, Tagged
<1>9. CASE ~(Len(e) > 0 /\ e[1].tag # None) /\ pending' = pending
  <2>1. Awaited(t, p) BY <1>4, <1>6, <1>7, <1>9, AwaitedLonger
  <2>2. QED BY <1>2, <1>6, <1>8, <1>9, <2>1
<1>10. CASE Len(e) > 0 /\ e[1].tag \in Fragments /\ pending' = Append(pending, e[1].tag)
  <2>1. PICK f : f = e[1].tag OBVIOUS
  <2>2. f \in Fragments /\ f # None BY <1>10, <2>1, TagTypes
  <2>3. Awaited(t, Append(p, f)) BY <1>4, <1>6, <1>7, <1>10, <2>1, <2>2, AwaitedLonger
  <2>4. Append(p, f) \in Seq(Fragments) BY <1>6, <2>2
  <2>5. QED BY <1>2, <1>8, <1>10, <2>1, <2>3, <2>4
<1>11. QED BY <1>9, <1>10

LEMMA PendingStep ==
  ASSUME TypeInv, LineInv, PendingInv, Next PROVE PendingInv'
<1>0. rx \in Seq(Cells) /\ line \in Seq(Cells) /\ pending \in Seq(Fragments) BY DEF TypeInv, PendingInv
<1>1. ASSUME Stream' = Stream, pending' = pending PROVE PendingInv'
  BY <1>1 DEF PendingInv, Awaited, Rank, First, Tagged
<1>2. ASSUME NEW n \in 1 .. MaxFrags, Send(n) PROVE PendingInv'
  BY <1>1, <1>2 DEF Send, Stream
<1>3. ASSUME NEW body \in Bodies, SendFrame(body) PROVE PendingInv'
  <2> DEFINE f == [pkt |-> next, idx |-> out.idx, more |-> out.left > 1]
  <2>1. FragmentSent /\ rx' = rx /\ line' = line \o Encoded(f, body) /\ pending' = Append(pending, f)
    BY <1>3 DEF SendFrame, FragmentSent
  <2>2. f \in Fragments
    BY <2>1, PidAssumption DEF FragmentSent, Fragments, Packets, TypeInv
  <2> HIDE DEF f
  <2>3. PICK e : e = Encoded(f, body) OBVIOUS
  <2>4. e \in Seq(Cells) /\ Len(e) = Total /\ e[1].tag = f /\ \A i \in 2 .. Total : e[i].tag = None
    BY <2>2, <2>3, EncodedFrame
  <2>5. Len(e) > 0 BY <2>4, TagTypes
  <2>6. QED BY <2>1, <2>2, <2>3, <2>4, <2>5, PendingLonger
<1>4. ASSUME NEW noise \in Noise, LoseFrame(noise) PROVE PendingInv'
  <2>1. rx' = rx /\ line' = line \o noise /\ pending' = pending BY <1>4 DEF LoseFrame, FragmentSent
  <2>2. noise \in Seq(Cells) /\ \A i \in DOMAIN noise : noise[i].tag = None BY NoiseCells
  <2>3. (\A i \in 2 .. Len(noise) : noise[i].tag = None) /\ ~(Len(noise) > 0 /\ noise[1].tag # None) BY <2>2
  <2>4. QED BY <2>1, <2>2, <2>3, PendingLonger
<1>5. CASE Hunt \/ RejectLength \/ RejectCrc
  <2>1. rx # <<>> /\ rx[1].tag = None BY <1>5, DropsUntagged
  <2>2. rx' = Tail(rx) /\ UNCHANGED <<line, pending>> BY <1>5 DEF Hunt, RejectLength, RejectCrc, DropByte
  <2>3. Tail(rx) = SubSeq(rx, 1 + 1, Len(rx)) /\ 1 <= Len(rx) BY <1>0, <2>1
  <2>4. Stream \in Seq(Cells) /\ Len(Stream) >= 1 /\ Stream[1] = rx[1] BY <1>0, <2>3, Concatenated DEF Stream
  <2>5. Rank(Stream, 1) = 0 BY <2>1, <2>4, FrontFrames
  <2>6. SubSeq(pending, 0 + 1, Len(pending)) = pending BY <1>0, SubSeqFull
  <2>7. QED BY <2>2, <2>3, <2>5, <2>6, PendingCut
<1>6. CASE Read
  <2> DEFINE n == IF Len(line) < Pull THEN Len(line) ELSE Pull
             a == SubSeq(line, 1, n)
             b == SubSeq(line, n + 1, Len(line))
  <2>2. n \in 0 .. Len(line) BY <1>0, PullAssumption
  <2>3. rx' = rx \o a /\ line' = b /\ pending' = pending BY <1>6 DEF Read
  <2> HIDE DEF n
  <2>4. a \in Seq(Cells) /\ b \in Seq(Cells) BY <1>0, <2>2
  <2>5. a \o b = line
    <3>1. 1 \in 1 .. Len(line) + 1 /\ n \in 1 - 1 .. Len(line) /\ Len(line) \in n .. Len(line) BY <1>0, <2>2
    <3>2. a \o b = SubSeq(line, 1, Len(line)) BY <1>0, <3>1, ConcatAdjacentSubSeq
    <3>3. SubSeq(line, 1, Len(line)) = line BY <1>0, SubSeqFull
    <3>4. QED BY <3>2, <3>3
  <2> HIDE DEF a, b
  <2>6. (rx \o a) \o b = rx \o (a \o b) BY SMTT(30), <1>0, <2>4, ConcatAssociative
  <2>7. QED BY <1>1, <2>3, <2>5, <2>6 DEF Stream
<1>7. CASE Accept
  <2>1. rx' = SubSeq(rx, Total + 1, Len(rx)) /\ Total <= Len(rx) /\ line' = line
        /\ pending' = Tail(pending) /\ rx[1].tag # None
    BY <1>7, Newest DEF Accept, Complete, CrcHolds
  <2>2. Total \in Nat \ {0} BY TagTypes
  <2>3. Stream \in Seq(Cells) /\ Len(Stream) >= Total /\ Stream[1] = rx[1] /\ 1 \in DOMAIN Stream
    BY <1>0, <2>1, <2>2, Concatenated DEF Stream
  <2>4. FrameAt(Stream, 1) BY <2>1, <2>3 DEF LineInv, WellFormed
  <2>5. \A i \in 2 .. Total : Stream[i].tag = None
    <3>1. \A i \in 2 .. Total : i \in 1 + 1 .. 1 + Total - 1 BY <2>2
    <3>2. QED BY <2>4, <3>1 DEF FrameAt
  <2>6. Rank(Stream, Total) = 1 BY <2>1, <2>2, <2>3, <2>5, FrontFrames
  <2>7. pending # <<>>
    <3>1. 1 \in Tagged(Stream) BY <2>1, <2>3 DEF Tagged
    <3>2. Len(pending) >= 1
      <4>1. Len(pending) = Cardinality(Tagged(Stream)) BY DEF PendingInv, Awaited
      <4>2. Rank(Stream, 1) \in 1 .. Cardinality(Tagged(Stream)) BY <2>3, <3>1, RankPositive
      <4>3. QED BY <1>0, <4>1, <4>2
    <3>3. QED BY <1>0, <3>2
  <2>8. Tail(pending) = SubSeq(pending, 1 + 1, Len(pending)) BY <1>0, <2>7
  <2>9. QED BY <2>1, <2>2, <2>6, <2>8, PendingCut
<1>8. CASE Reset
  <2>1. rx' = <<>> /\ line' = line
        /\ pending' = SubSeq(pending, Cardinality(Tagged(rx)) + 1, Len(pending))
    BY <1>8 DEF Reset
  <2>2. SubSeq(rx, Len(rx) + 1, Len(rx)) = <<>> /\ Len(rx) \in Nat BY <1>0
  <2>3. Cardinality(Tagged(rx)) = Rank(Stream, Len(rx))
    <3>1. /\ Len(Stream) >= Len(rx) /\ Stream \in Seq(Cells)
          /\ \A i \in 1 .. Len(rx) : Stream[i] = rx[i]
      BY <1>0, Concatenated DEF Stream
    <3>2. Tagged(rx) = First(Stream, Len(rx)) BY <1>0, <3>1 DEF Tagged, First
    <3>3. QED BY <3>2 DEF Rank
  <2>4. PICK n : n = Len(rx) OBVIOUS
  <2>5. n \in Nat /\ n <= Len(rx) /\ rx' = SubSeq(rx, n + 1, Len(rx)) BY <2>1, <2>2, <2>4
  <2>6. PICK m : m = Rank(Stream, n) OBVIOUS
  <2>7. pending' = SubSeq(pending, m + 1, Len(pending)) BY <2>1, <2>3, <2>4, <2>6
  <2>8. QED BY <2>1, <2>5, <2>6, <2>7, PendingCut
<1>9. QED BY <1>2, <1>3, <1>4, <1>5, <1>6, <1>7, <1>8 DEF Next, Receiver

-----------------------------------------------------------------------------
(* A packet heard whole. *)

\* All fragments of its packet up to f were heard.
Reached(f) == \A i \in 0 .. f.idx : \E g \in PacketOf(f.pkt) : g.idx = i

Seen == heard \cup {Stream[i].tag : i \in Tagged(Stream)}

\* Only the last fragment of a packet is marked so, and the sender goes on to the next one.
MoreInv ==
  /\ \A f \in Seen : f.pkt = next => f.more
  /\ \A f, g \in Seen : f.pkt = g.pkt /\ Before(f, g) => f.more

Newer(f) == \A g \in heard : g = f \/ Before(g, f)

\* A packet heard from its start so far is the set in progress.
LiveInv ==
  \A f \in heard :
    Newer(f) /\ Reached(f) /\ f.more /\ f.idx < Room =>
      /\ set.active /\ set.pid = Pid(f) /\ set.next = f.idx + 1 /\ Len(parts) = f.idx + 1
      /\ \A i \in DOMAIN parts : parts[i].pkt = f.pkt

\* A fragment is heard once.
HeardOnce == \A f, g \in heard : f = g \/ Before(f, g) \/ Before(g, f)

HeardInv == HeardOnce /\ MoreInv /\ LiveInv /\ NothingHeardIsLost

LEMMA FragmentFields ==
  \A f \in Fragments : f.pkt \in Nat /\ f.idx \in Nat /\ f.more \in BOOLEAN
  BY PidAssumption DEF Fragments, Packets

\* What was heard or is on its way are fragments, sent.
LEMMA SeenSent ==
  ASSUME TypeInv, LineInv
  PROVE  Seen \subseteq Fragments /\ (\A f \in Seen : Sent(f)) /\ Stream \in Seq(Cells)
<1>1. Stream \in Seq(Cells) BY Concatenated DEF TypeInv, Stream
<1>2. ASSUME NEW i \in Tagged(Stream) PROVE Stream[i].tag \in Fragments /\ Sent(Stream[i].tag)
  <2>1. i \in DOMAIN Stream /\ Stream[i].tag # None BY DEF Tagged
  <2>2. Stream[i] \in Cells BY <1>1, <2>1
  <2>3. QED BY <2>1, <2>2 DEF Cells, LineInv, Ordered
<1>3. QED BY <1>1, <1>2 DEF Seen, TypeInv, LineInv

\* Nothing new is seen by a stream that lost cells in front.
LEMMA SeenCut ==
  ASSUME NEW n \in Nat, n <= Len(Stream), Stream \in Seq(Cells), Stream' \in Seq(Cells),
         Len(Stream') = Len(Stream) - n, \A i \in 1 .. Len(Stream') : Stream'[i] = Stream[i + n],
         heard' \subseteq Seen
  PROVE  Seen' \subseteq Seen
<1>1. ASSUME NEW i \in Tagged(Stream)' PROVE \E j \in Tagged(Stream) : Stream[j].tag = Stream'[i].tag
  <2>1. i \in 1 .. Len(Stream') /\ Stream'[i].tag # None BY DEF Tagged
  <2>2. i + n \in 1 .. Len(Stream) /\ Stream[i + n] = Stream'[i] BY <2>1
  <2>3. i + n \in Tagged(Stream) BY <2>1, <2>2 DEF Tagged
  <2>4. QED BY <2>2, <2>3
<1>2. QED BY <1>1 DEF Seen

\* The sender's step adds its fragment at most, the last of a packet being marked so.
LEMMA MoreSent ==
  ASSUME TypeInv, LineInv, MoreInv, FragmentSent,
         NEW e, e = [pkt |-> next, idx |-> out.idx, more |-> out.left > 1],
         Seen' \subseteq Seen \cup {e}
  PROVE  MoreInv'
<1>1. Seen \subseteq Fragments /\ \A f \in Seen : Sent(f) BY SeenSent
<1>2. next \in Nat /\ out.idx \in Nat /\ out.left \in Nat /\ out.left > 0 BY DEF TypeInv, FragmentSent
<1>3. next' = IF out.left = 1 THEN next + 1 ELSE next BY DEF FragmentSent
<1>4. e.pkt = next /\ e.idx = out.idx /\ (e.more <=> out.left > 1) OBVIOUS
<1>5. ASSUME NEW f \in Seen
      PROVE  f.pkt \in Nat /\ f.idx \in Nat /\ f.pkt <= next /\ Before(f, e)
  <2>1. f \in Fragments /\ Sent(f) BY <1>1
  <2>2. f.pkt \in Nat /\ f.idx \in Nat BY <2>1, FragmentFields
  <2>3. QED BY <1>2, <1>4, <2>1, <2>2 DEF Sent, Before
<1>6. ASSUME NEW f \in Seen', f.pkt = next' PROVE f.more
  <2>1. CASE f \in Seen BY <1>2, <1>3, <1>5, <1>6, <2>1 DEF MoreInv
  <2>2. CASE f = e BY <1>2, <1>3, <1>4, <1>6, <2>2
  <2>3. QED BY <2>1, <2>2
<1>7. ASSUME NEW f \in Seen', NEW g \in Seen', f.pkt = g.pkt, Before(f, g) PROVE f.more
  <2>1. CASE f \in Seen /\ g \in Seen BY <1>7, <2>1 DEF MoreInv
  <2>2. CASE f \in Seen /\ g = e BY <1>4, <1>7, <2>2 DEF MoreInv
  <2>3. CASE f = e /\ g \in Seen BY <1>2, <1>4, <1>5, <1>7, <2>3 DEF Before
  <2>4. CASE f = e /\ g = e BY <1>2, <1>4, <1>7, <2>4 DEF Before
  <2>5. QED BY <2>1, <2>2, <2>3, <2>4
<1>8. QED BY <1>6, <1>7 DEF MoreInv

LEMMA MoreStep ==
  ASSUME TypeInv, LineInv, MoreInv, Next PROVE MoreInv'
<1>0. rx \in Seq(Cells) /\ line \in Seq(Cells) /\ Stream \in Seq(Cells) BY SeenSent DEF TypeInv
<1>1. ASSUME Seen' \subseteq Seen, next' = next PROVE MoreInv'
  BY <1>1 DEF MoreInv
<1>2. ASSUME Stream' = Stream, heard' = heard PROVE Seen' \subseteq Seen
  BY <1>2 DEF Seen, Tagged
<1>3. ASSUME NEW n \in 1 .. MaxFrags, Send(n) PROVE MoreInv'
  BY <1>1, <1>2, <1>3 DEF Send, Stream
<1>4. ASSUME NEW n \in Nat, n <= Len(rx), rx' = SubSeq(rx, n + 1, Len(rx)), line' = line, heard' \subseteq Seen
      PROVE  Seen' \subseteq Seen
  <2>1. /\ Stream \in Seq(Cells) /\ Stream' \in Seq(Cells) /\ n <= Len(Stream)
        /\ Len(Stream') = Len(Stream) - n /\ \A i \in 1 .. Len(Stream') : Stream'[i] = Stream[i + n]
    BY <1>4, StreamCut
  <2>2. QED BY <1>4, <2>1, SeenCut
<1>5. ASSUME NEW c \in Seq(Cells), rx' = rx, line' = line \o c, heard' = heard, NEW e,
             \A i \in DOMAIN c : c[i].tag = None \/ c[i].tag = e
      PROVE  Seen' \subseteq Seen \cup {e}
  <2>1. Stream' = Stream \o c
    <3>1. (rx \o line) \o c = rx \o (line \o c) BY <1>0, ConcatAssociative
    <3>2. QED BY <1>5, <3>1 DEF Stream
  <2>2. PICK s : s = Stream OBVIOUS
  <2>3. PICK t : t = Stream' OBVIOUS
  <2>4. /\ t \in Seq(Cells) /\ s \in Seq(Cells) /\ Len(t) = Len(s) + Len(c) /\ Len(s) \in Nat /\ Len(c) \in Nat
        /\ (\A i \in 1 .. Len(s) : t[i] = s[i]) /\ \A i \in 1 .. Len(c) : t[Len(s) + i] = c[i]
    BY <1>0, <2>1, <2>2, <2>3, Concatenated
  <2>5. ASSUME NEW i \in Tagged(t) PROVE t[i].tag = e \/ \E j \in Tagged(s) : s[j].tag = t[i].tag
    <3>1. i \in 1 .. Len(t) /\ t[i].tag # None BY <2>4 DEF Tagged
    <3>2. CASE i <= Len(s)
      <4>1. i \in 1 .. Len(s) /\ t[i] = s[i] BY <2>4, <3>1, <3>2
      <4>2. i \in Tagged(s) BY <2>4, <3>1, <4>1 DEF Tagged
      <4>3. QED BY <4>1, <4>2
    <3>3. CASE ~ (i <= Len(s))
      <4>1. PICK k : k = i - Len(s) OBVIOUS
      <4>2. k \in 1 .. Len(c) /\ Len(s) + k = i BY <2>4, <3>1, <3>3, <4>1
      <4>3. t[i] = c[k] /\ k \in DOMAIN c BY <2>4, <4>2
      <4>4. QED BY <1>5, <3>1, <4>3
    <3>4. QED BY <3>2, <3>3
  <2>6. Seen' = heard \cup {t[i].tag : i \in Tagged(t)} BY <1>5, <2>3 DEF Seen, Tagged
  <2>7. QED BY <2>2, <2>5, <2>6 DEF Seen
<1>6. ASSUME NEW body \in Bodies, SendFrame(body) PROVE MoreInv'
  <2>1. PICK f : f = [pkt |-> next, idx |-> out.idx, more |-> out.left > 1] OBVIOUS
  <2>2. FragmentSent /\ rx' = rx /\ heard' = heard /\ line' = line \o Encoded(f, body)
    BY <1>6, <2>1 DEF SendFrame, FragmentSent
  <2>3. f \in Fragments
    BY <2>1, <2>2, PidAssumption DEF FragmentSent, Fragments, Packets, TypeInv
  <2>4. PICK c : c = Encoded(f, body) OBVIOUS
  <2>5. c \in Seq(Cells) /\ Len(c) = Total /\ c[1].tag = f /\ \A i \in 2 .. Total : c[i].tag = None
    BY <2>3, <2>4, EncodedFrame
  <2>6. \A i \in DOMAIN c : c[i].tag = None \/ c[i].tag = f BY <2>5, TagTypes
  <2>7. Seen' \subseteq Seen \cup {f} BY <1>5, <2>2, <2>4, <2>5, <2>6
  <2>8. QED BY <2>1, <2>2, <2>7, MoreSent
<1>7. ASSUME NEW noise \in Noise, LoseFrame(noise) PROVE MoreInv'
  <2>1. PICK f : f = [pkt |-> next, idx |-> out.idx, more |-> out.left > 1] OBVIOUS
  <2>2. FragmentSent /\ rx' = rx /\ heard' = heard /\ line' = line \o noise BY <1>7 DEF LoseFrame, FragmentSent
  <2>3. noise \in Seq(Cells) /\ \A i \in DOMAIN noise : noise[i].tag = None BY NoiseCells
  <2>4. Seen' \subseteq Seen \cup {f} BY <1>5, <2>2, <2>3
  <2>5. QED BY <2>1, <2>2, <2>4, MoreSent
<1>8. CASE Hunt \/ RejectLength \/ RejectCrc
  <2>1. rx # <<>> BY <1>8, DropsUntagged
  <2>2. rx' = Tail(rx) /\ UNCHANGED <<line, heard, next>> BY <1>8 DEF Hunt, RejectLength, RejectCrc, DropByte
  <2>3. Tail(rx) = SubSeq(rx, 1 + 1, Len(rx)) /\ 1 <= Len(rx) BY <1>0, <2>1
  <2>4. heard' \subseteq Seen BY <2>2 DEF Seen
  <2>5. QED BY <1>1, <1>4, <2>2, <2>3, <2>4
<1>9. CASE Read
  <2> DEFINE n == IF Len(line) < Pull THEN Len(line) ELSE Pull
             a == SubSeq(line, 1, n)
             b == SubSeq(line, n + 1, Len(line))
  <2>2. n \in 0 .. Len(line) BY <1>0, PullAssumption
  <2>3. rx' = rx \o a /\ line' = b /\ UNCHANGED <<heard, next>> BY <1>9 DEF Read
  <2> HIDE DEF n
  <2>4. a \in Seq(Cells) /\ b \in Seq(Cells) BY <1>0, <2>2
  <2>5. a \o b = line
    <3>1. 1 \in 1 .. Len(line) + 1 /\ n \in 1 - 1 .. Len(line) /\ Len(line) \in n .. Len(line) BY <1>0, <2>2
    <3>2. a \o b = SubSeq(line, 1, Len(line)) BY <1>0, <3>1, ConcatAdjacentSubSeq
    <3>3. SubSeq(line, 1, Len(line)) = line BY <1>0, SubSeqFull
    <3>4. QED BY <3>2, <3>3
  <2> HIDE DEF a, b
  <2>6. (rx \o a) \o b = rx \o (a \o b) BY SMTT(30), <1>0, <2>4, ConcatAssociative
  <2>7. Stream' = Stream BY <2>3, <2>5, <2>6 DEF Stream
  <2>8. QED BY <1>1, <1>2, <2>3, <2>7
<1>10. CASE Accept
  <2>1. rx' = SubSeq(rx, Total + 1, Len(rx)) /\ Total <= Len(rx) /\ UNCHANGED <<line, next>>
        /\ heard' = heard \cup {rx[1].tag} /\ rx[1].tag # None
    BY <1>10, Newest DEF Accept, Complete, CrcHolds
  <2>2. Total \in Nat \ {0} BY TagTypes
  <2>3. Stream[1] = rx[1] /\ 1 \in DOMAIN Stream BY <1>0, <2>1, <2>2, Concatenated DEF Stream
  <2>4. heard' \subseteq Seen BY <2>1, <2>3 DEF Seen, Tagged
  <2>5. QED BY <1>1, <1>4, <2>1, <2>2, <2>4
<1>11. CASE Reset
  <2>1. rx' = <<>> /\ UNCHANGED <<line, heard, next>> BY <1>11 DEF Reset
  <2>2. SubSeq(rx, Len(rx) + 1, Len(rx)) = <<>> /\ Len(rx) \in Nat BY <1>0
  <2>3. PICK n : n = Len(rx) OBVIOUS
  <2>4. n \in Nat /\ n <= Len(rx) /\ rx' = SubSeq(rx, n + 1, Len(rx)) BY <2>1, <2>2, <2>3
  <2>5. heard' \subseteq Seen BY <2>1 DEF Seen
  <2>6. QED BY <1>1, <1>4, <2>1, <2>4, <2>5
<1>12. QED BY <1>3, <1>6, <1>7, <1>8, <1>9, <1>10, <1>11 DEF Next, Receiver


\* What was heard whole stays so, and what was heard last is the newest.
LEMMA HeardGrows ==
  ASSUME TypeInv, NEW f \in Fragments, heard' = heard \cup {f}, \A g \in heard : Before(g, f)
  PROVE  /\ \A h \in heard : (Reached(h)' <=> Reached(h)) /\ ~Newer(h)'
         /\ Newer(f)'
<1>1. \A h \in heard : h.pkt \in Nat /\ h.idx \in Nat BY FragmentFields DEF TypeInv
<1>2. f.pkt \in Nat /\ f.idx \in Nat BY FragmentFields
<1>3. ASSUME NEW h \in heard PROVE Reached(h)' <=> Reached(h)
  <2>1. ASSUME NEW i \in 0 .. h.idx PROVE ~(f.pkt = h.pkt /\ f.idx = i) BY <1>1, <1>2, <1>3 DEF Before
  <2>2. \A i \in 0 .. h.idx : (\E g \in PacketOf(h.pkt)' : g.idx = i) <=> \E g \in PacketOf(h.pkt) : g.idx = i
    BY <2>1 DEF PacketOf
  <2>3. QED BY <2>2 DEF Reached, PacketOf
<1>4. ASSUME NEW h \in heard PROVE ~Newer(h)'
  <2>1. Before(h, f) /\ f \in heard' OBVIOUS
  <2>2. ~Before(f, h) /\ f # h BY <1>1, <1>2, <2>1 DEF Before
  <2>3. QED BY <2>1, <2>2 DEF Newer, Before
<1>5. Newer(f)' BY DEF Newer, Before
<1>6. QED BY <1>3, <1>4, <1>5

\* The fragment that makes a packet heard from its start continues the set in progress.
LEMMA FragmentTaken ==
  ASSUME TypeInv, HeardInv, NEW f \in Fragments, f \in Seen, heard' = heard \cup {f},
         \A g \in heard : Before(g, f), Reached(f)', f.idx > 0, f.idx < Room, Push(f)
  PROVE  Continues(f) /\ Len(parts) = f.idx /\ set.next = f.idx /\ set.pid = Pid(f)
         /\ \A i \in DOMAIN parts : parts[i].pkt = f.pkt
<1>1. f.pkt \in Nat /\ f.idx \in Nat BY FragmentFields
<1>2. \A h \in heard : h \in Fragments /\ h.pkt \in Nat /\ h.idx \in Nat BY FragmentFields DEF TypeInv
<1>3. PICK g \in heard : g.pkt = f.pkt /\ g.idx = f.idx - 1
  <2>1. f.idx - 1 \in 0 .. f.idx BY <1>1
  <2>2. \E g \in heard' : g.pkt = f.pkt /\ g.idx = f.idx - 1 BY <2>1 DEF Reached, PacketOf
  <2>3. QED BY <1>1, <2>2
<1>4. g.more
  <2>1. g \in Seen BY DEF Seen
  <2>2. QED BY <1>3, <2>1 DEF HeardInv, MoreInv
<1>5. Reached(g)
  <2>1. Reached(g)'
    <3>1. \A i \in 0 .. g.idx : i \in 0 .. f.idx BY <1>1, <1>2, <1>3
    <3>2. QED BY <1>3, <3>1 DEF Reached, PacketOf
  <2>2. QED BY <2>1, HeardGrows
<1>6. Newer(g)
  <2> SUFFICES ASSUME NEW h \in heard PROVE h = g \/ Before(h, g) BY DEF Newer
  <2>1. h = g \/ Before(h, g) \/ Before(g, h) BY DEF HeardInv, HeardOnce
  <2>2. Before(h, f) OBVIOUS
  <2>3. QED BY <1>1, <1>2, <1>3, <2>1, <2>2 DEF Before
<1>7. g.idx < Room BY <1>1, <1>3, PidAssumption
<1>8. /\ set.active /\ set.pid = Pid(g) /\ set.next = g.idx + 1 /\ Len(parts) = g.idx + 1
      /\ \A i \in DOMAIN parts : parts[i].pkt = g.pkt
  BY <1>4, <1>5, <1>6, <1>7 DEF HeardInv, LiveInv
<1>9. set.active /\ set.pid = Pid(f) /\ set.next = f.idx /\ Len(parts) = f.idx BY <1>1, <1>3, <1>8 DEF Pid
<1>10. Fits(f) /\ Len(parts) < Room BY <1>9 DEF Fits
<1>11. Continues(f) BY <1>1, <1>9, <1>10, PidAssumption DEF Push, Starts, Stray, Tears
<1>12. QED BY <1>3, <1>8, <1>9, <1>11

LEMMA HeardStep ==
  ASSUME IInv, HeardInv, Next PROVE HeardInv'
<1>1. TypeInv /\ LineInv BY DEF IInv
<1>2. MoreInv' BY <1>1, MoreStep DEF HeardInv
<1>3. CASE UNCHANGED <<set, parts, heard, delivered>>
  BY <1>2, <1>3 DEF HeardInv, HeardOnce, LiveInv, NothingHeardIsLost, Newer, Before, Reached, PacketOf, Pid
<1>4. CASE Accept
  <2>1. PICK f : f = rx[1].tag OBVIOUS
  <2>2. f \in Fragments /\ Push(f) /\ heard' = heard \cup {f} /\ \A g \in heard : Before(g, f)
    BY <1>1, <1>4, <2>1, Newest DEF Accept
  <2>3. f \in Seen
    <3>1. rx \in Seq(Cells) /\ line \in Seq(Cells) BY <1>1 DEF TypeInv
    <3>2. rx # <<>> /\ rx[1].tag # None BY <1>4, <3>1 DEF Accept, Complete, Candidate, CrcHolds
    <3>3. 1 \in 1 .. Len(rx) BY <3>1, <3>2
    <3>4. Stream[1] = rx[1] /\ 1 \in DOMAIN Stream BY <3>1, <3>3, Concatenated DEF Stream
    <3>5. QED BY <2>1, <3>2, <3>4 DEF Seen, Tagged
  <2>4. f.pkt \in Nat /\ f.idx \in Nat /\ f.more \in BOOLEAN BY <2>2, FragmentFields
  <2>5. (\A h \in heard : (Reached(h)' <=> Reached(h)) /\ ~Newer(h)') /\ Newer(f)'
    BY <1>1, <2>2, HeardGrows
  <2>6. HeardOnce' BY <2>2 DEF HeardInv, HeardOnce, Before
  <2>7. parts \in Seq(Fragments) /\ delivered \in Seq(Seq(Fragments))
        /\ set \in [active : BOOLEAN, pid : Int, next : Nat]
    BY <1>1 DEF TypeInv
  <2>8. ASSUME Reached(f)', f.idx < Room
        PROVE  /\ Len(parts') = f.idx + 1 /\ \A i \in DOMAIN parts' : parts'[i].pkt = f.pkt
               /\ f.more => set'.active /\ set'.pid = Pid(f) /\ set'.next = f.idx + 1
               /\ ~f.more => delivered' = Append(delivered, parts')
    <3>1. CASE f.idx > 0
      <4>1. Continues(f) /\ Len(parts) = f.idx /\ set.next = f.idx /\ set.pid = Pid(f)
            /\ \A i \in DOMAIN parts : parts[i].pkt = f.pkt
        BY <1>1, <2>2, <2>3, <2>8, <3>1, FragmentTaken
      <4>2. parts' = Append(parts, f) BY <4>1 DEF Continues
      <4>3. Len(parts') = f.idx + 1 /\ \A i \in DOMAIN parts' : parts'[i].pkt = f.pkt
        BY <2>2, <2>7, <4>1, <4>2
      <4>4. f.more => set' = [set EXCEPT !.next = @ + 1] BY <4>1 DEF Continues
      <4>5. f.more => set'.active /\ set'.pid = Pid(f) /\ set'.next = f.idx + 1
        BY <2>7, <4>1, <4>4 DEF Continues
      <4>6. ~f.more => delivered' = Append(delivered, parts') BY <4>1 DEF Continues
      <4>7. QED BY <4>3, <4>5, <4>6
    <3>2. CASE f.idx = 0
      <4>1. Starts(f) BY <2>2, <3>2 DEF Push, Stray, Tears, Continues
      <4>2. parts' = <<f>> BY <4>1 DEF Starts
      <4>3. f.more => set' = [active |-> TRUE, pid |-> Pid(f), next |-> 1] BY <4>1 DEF Starts
      <4>4. ~f.more => delivered' = Append(delivered, parts') BY <4>1, <4>2 DEF Starts
      <4>5. QED BY <3>2, <4>2, <4>3, <4>4
    <3>3. QED BY <2>4, <3>1, <3>2
  <2>9. LiveInv'
    <3> SUFFICES ASSUME NEW h \in heard', Newer(h)', Reached(h)', h.more, h.idx < Room
                 PROVE  /\ set'.active /\ set'.pid = Pid(h) /\ set'.next = h.idx + 1 /\ Len(parts') = h.idx + 1
                        /\ \A i \in DOMAIN parts' : parts'[i].pkt = h.pkt
      BY DEF LiveInv, Pid
    <3>1. h = f BY <2>2, <2>5
    <3>2. QED BY <2>8, <3>1
  <2>10. TypeInv' BY <1>1, TypeStep
  <2>11. ToSet(delivered) \subseteq ToSet(delivered')
    <3>1. delivered' = delivered \/ delivered' = Append(delivered, parts')
      BY <2>2 DEF Push, Starts, Stray, Tears, Continues
    <3>2. PICK c : c = delivered OBVIOUS
    <3>3. PICK d : d = delivered' OBVIOUS
    <3>4. DOMAIN c \subseteq DOMAIN d /\ \A i \in DOMAIN c : d[i] = c[i]
      <4>1. PICK p : p = parts' OBVIOUS
      <4>2. c \in Seq(Seq(Fragments)) /\ (d = c \/ d = Append(c, p)) BY <2>7, <3>1, <3>2, <3>3, <4>1
      <4>3. p \in Seq(Fragments) BY <2>10, <4>1 DEF TypeInv
      <4>4. CASE d = c BY <4>4
      <4>5. CASE d = Append(c, p)
        <5>1. c \in Seq(Seq(Fragments)) /\ p \in Seq(Fragments) BY <4>2, <4>3
        <5>2. Len(d) = Len(c) + 1 /\ \A i \in 1 .. Len(c) : d[i] = c[i] BY ONLY <4>5, <5>1, AppendProperties
        <5>3. d \in Seq(Seq(Fragments)) BY ONLY <4>5, <5>1, AppendProperties
        <5>4. DOMAIN c = 1 .. Len(c) /\ DOMAIN d = 1 .. Len(d) /\ Len(c) \in Nat BY ONLY <5>1, <5>3
        <5>5. QED BY ONLY <5>2, <5>4
      <4>6. QED BY <4>2, <4>4, <4>5
    <3>5. QED BY <3>2, <3>3, <3>4 DEF ToSet
  <2>12. NothingHeardIsLost'
    <3> SUFFICES ASSUME NEW h \in heard', ~h.more, h.idx < Room, Reached(h)'
                 PROVE  \E d \in ToSet(delivered') : \A i \in DOMAIN d : d[i].pkt = h.pkt
      BY DEF NothingHeardIsLost, Reached
    <3>1. CASE h = f
      <4>1. delivered' = Append(delivered, parts') /\ \A i \in DOMAIN parts' : parts'[i].pkt = f.pkt
        BY <2>8, <3>1
      <4>2. parts' \in ToSet(delivered') BY SMTT(30), <2>7, <4>1 DEF ToSet
      <4>3. QED BY <3>1, <4>1, <4>2
    <3>2. CASE h \in heard
      <4>1. Reached(h) BY <2>5, <3>2
      <4>2. \E d \in ToSet(delivered) : \A i \in DOMAIN d : d[i].pkt = h.pkt
        BY <3>2, <4>1 DEF HeardInv, NothingHeardIsLost, Reached
      <4>3. QED BY <2>11, <4>2
    <3>3. QED BY <2>2, <3>1, <3>2
  <2>13. QED BY <1>2, <2>6, <2>9, <2>12 DEF HeardInv
<1>5. Accept \/ UNCHANGED <<set, parts, heard, delivered>>
  BY DEF Next, Receiver, Send, SendFrame, LoseFrame, FragmentSent, Hunt, RejectLength,
         RejectCrc, DropByte, Read, Reset
<1>6. QED BY <1>3, <1>4, <1>5
-----------------------------------------------------------------------------
(* The theorems. *)

LEMMA Invariant == Spec => []IInv
<1>1. Init => IInv
  <2> SUFFICES ASSUME Init PROVE IInv OBVIOUS
  <2>1. TypeInv BY DEF Init, TypeInv
  <2>2. Stream = <<>> /\ heard = {} /\ delivered = <<>> /\ ~set.active BY DEF Init, Stream
  <2>3. LineInv BY <2>2 DEF LineInv, WellFormed, Ordered
  <2>4. QED BY <2>1, <2>2, <2>3 DEF IInv, SetInv, DeliveredInv
<1>2. IInv /\ [Next]_vars => IInv'
  <2> SUFFICES ASSUME IInv, [Next]_vars PROVE IInv' OBVIOUS
  <2>1. CASE Next
    <3>1. TypeInv' /\ LineInv' BY <2>1, TypeStep, LineStep DEF IInv
    <3>2. CASE Accept BY <3>1, <3>2, SetStep DEF IInv
    <3>3. CASE UNCHANGED <<set, parts, heard, delivered>>
      <4>1. SetInv' BY <3>3 DEF IInv, SetInv, Chained, Joined, PacketOf, Pid
      <4>2. DeliveredInv' BY <3>3 DEF IInv, DeliveredInv, Chained, Joined, PacketOf
      <4>3. QED BY <3>1, <4>1, <4>2 DEF IInv
    <3>4. Accept \/ UNCHANGED <<set, parts, heard, delivered>>
      BY <2>1 DEF Next, Receiver, Send, SendFrame, LoseFrame, FragmentSent, Hunt, RejectLength,
                  RejectCrc, DropByte, Read, Reset
    <3>5. QED BY <3>2, <3>3, <3>4
  <2>2. CASE UNCHANGED vars
    <3>1. TypeInv' BY <2>2 DEF vars, IInv, TypeInv
    <3>2. LineInv' BY <2>2 DEF vars, IInv, LineInv, WellFormed, FrameAt, Ordered, Sent, Stream
    <3>3. SetInv' BY <2>2 DEF vars, IInv, SetInv, Chained, Joined, PacketOf, Pid
    <3>4. DeliveredInv' BY <2>2 DEF vars, IInv, DeliveredInv, Chained, Joined, PacketOf
    <3>5. QED BY <3>1, <3>2, <3>3, <3>4 DEF IInv
  <2>3. QED BY <2>1, <2>2
<1>3. QED BY <1>1, <1>2, PTL DEF Spec

\* What the reassembler hands on is one packet, whole and in order, unless a packet id came round
\* again over packets of which nothing was heard; and packets keep their order
\* (shared/link/src/reasm.rs, push).
THEOREM PacketsWholeAlways == Spec => []PacketsWhole
<1>1. IInv => PacketsWhole
  <2> SUFFICES ASSUME IInv PROVE PacketsWhole OBVIOUS
  <2>1. ASSUME NEW k \in DOMAIN delivered
        PROVE  LET d == delivered[k]
               IN  /\ \A i \in DOMAIN d : d[i].idx = i - 1 /\ (d[i].more <=> i < Len(d))
                   /\ \A i \in 2 .. Len(d) : Joined(d[i - 1], d[i])
    BY DEF IInv, DeliveredInv, Chained
  <2>2. QED BY <2>1 DEF PacketsWhole, IInv, DeliveredInv, Joined
<1>2. QED BY <1>1, Invariant, PTL

\* The framer drops a byte only when no undamaged frame starts there
\* (shared/link/src/framer.rs, drain).
THEOREM FrameKept == Spec => [][Hunt \/ RejectLength \/ RejectCrc => rx[1].tag = None]_vars
<1>1. IInv /\ [Next]_vars => [Hunt \/ RejectLength \/ RejectCrc => rx[1].tag = None]_vars
  BY DropsUntagged DEF IInv
<1>2. QED BY <1>1, Invariant, PTL DEF Spec

LEMMA Received == Spec => [](IInv /\ PendingInv /\ HeardInv)
<1>1. Init => PendingInv /\ HeardInv
  <2> SUFFICES ASSUME Init PROVE PendingInv /\ HeardInv OBVIOUS
  <2>1. Stream = <<>> /\ heard = {} /\ pending = <<>> BY DEF Init, Stream
  <2>2. Tagged(Stream) = {} BY <2>1 DEF Tagged
  <2>3. Seen = {} BY <2>1, <2>2 DEF Seen
  <2>4. PendingInv BY <2>1, <2>2, FS_EmptySet DEF PendingInv, Awaited
  <2>5. QED BY <2>1, <2>3, <2>4 DEF HeardInv, HeardOnce, MoreInv, LiveInv, NothingHeardIsLost
<1>2. IInv /\ PendingInv /\ HeardInv /\ [Next]_vars => (PendingInv /\ HeardInv)'
  <2> SUFFICES ASSUME IInv, PendingInv, HeardInv, [Next]_vars PROVE (PendingInv /\ HeardInv)' OBVIOUS
  <2>1. CASE Next BY <2>1, PendingStep, HeardStep DEF IInv
  <2>2. CASE UNCHANGED vars
    <3>1. PendingInv' BY <2>2 DEF vars, PendingInv, Awaited, Rank, First, Tagged, Stream
    <3>2. HeardInv'
      BY <2>2 DEF vars, HeardInv, HeardOnce, MoreInv, LiveInv, NothingHeardIsLost, Seen, Tagged,
                  Stream, Newer, Reached, PacketOf, Pid, Before
    <3>3. QED BY <3>1, <3>2
  <2>3. QED BY <2>1, <2>2
<1>3. QED BY <1>1, <1>2, Invariant, PTL DEF Spec

\* The frames the framer still has to hand over are the undamaged ones of the line, each once and
\* in its order, whatever lies between them (shared/link/src/framer.rs, drain).
THEOREM FramesExactHolds == Spec => []FramesExact
<1>1. PendingInv => FramesExact
  BY DEF PendingInv, Awaited, Rank, First, Stream, FramesExact
<1>2. QED BY <1>1, Received, PTL

\* A packet of which every fragment was heard is delivered, whatever was in progress when it came
\* (shared/link/src/reasm.rs, push).
THEOREM NothingHeardIsLostHolds == Spec => []NothingHeardIsLost
<1>1. HeardInv => NothingHeardIsLost BY DEF HeardInv
<1>2. QED BY <1>1, Received, PTL
=============================================================================
