---------------------------- MODULE MailboxProofs ----------------------------
(***************************************************************************)
(* The mailbox, for every ring size, frame length, chunk and number of     *)
(* resets and lost sessions: the epoch handshake, by which the flush of a  *)
(* new session does not eat its first frames; the stream of a session,     *)
(* which reaches the board whole and in order; and the answers to it,      *)
(* which reach the bridge once each and in the order of the requests.      *)
(***************************************************************************)
EXTENDS Mailbox, SequenceTheorems, WellFoundedInduction, TLAPS

\* The watch of the board runs behind the epoch, its acknowledgement behind the watch.
WatchBehind ==
  /\ ack <= epoch
  /\ fw \notin {"boot", "watch"} => ack <= last /\ last <= epoch
  /\ fw = "ack" => ack < last
  /\ fw = "watch" => ack = 0

\* An epoch about to be written, and the one of a session, are ahead of what the board holds:
\* a boot only takes the board's words back to zero.
BumpAhead ==
  /\ br = "bump" => reg.epoch > epoch
  /\ br \in {"readHead", "discard", "expect"} => reg.epoch >= epoch /\ reg.epoch > 0
  /\ st # "closed" => sess.epoch >= epoch /\ sess.epoch > 0
  /\ br \in {"bump", "readHead", "discard", "expect"} => st = "closed"

\* A session that is up on a board that has not booted since: the watch has caught up.
CaughtUp ==
  st = "up" /\ intact =>
    /\ epoch = sess.epoch
    /\ fw # "boot" => last = epoch /\ fw \notin {"watch", "ack"}

HandshakeInv == TypeOK /\ WatchBehind /\ BumpAhead /\ CaughtUp

-----------------------------------------------------------------------------
(* Types. *)

\* The index and size arithmetic stays in range.
LEMMA IndexTypes ==
  /\ \A i, n \in Nat : Plus(i, n) \in Indices
  /\ \A h, t \in Indices : Used(h, t) \in Nat /\ Free(h, t) \in Nat
  /\ \A a, b \in Nat : Lesser(a, b) \in Nat
  /\ Indices \subseteq Nat /\ 0 \in Indices
  /\ FrameLen \in Nat /\ Pull \in Nat
  BY PullAssumption, CapAssumption, IdxModAssumption, FrameLenAssumption
     DEF Plus, Used, Free, Lesser, Indices

\* So does the end of a session.
LEMMA ClosedTypes ==
  ASSUME TypeOK, Closed, UNCHANGED <<header, board, reg, history>> PROVE TypeOK'
<1>1. st' = "closed" /\ br' = "idle" /\ sess' = NoSession BY DEF Closed
<1>2. UNCHANGED <<epoch, ack, idx, fw, last, fwReg, reg, intact>> BY DEF header, board, history
<1>3. NoSession \in [epoch : Nat, expect : Indices, on : BOOLEAN] BY IndexTypes DEF NoSession
<1>4. QED BY ONLY TypeOK, <1>1, <1>2, <1>3, SMT DEF TypeOK

\* Every step keeps the types.
LEMMA TypeStep == ASSUME TypeOK, Next PROVE TypeOK'
<1> USE IndexTypes DEF TypeOK
<1>1. CASE Reset BY <1>1 DEF Reset, header, bridge
<1>2. CASE InitHeader BY <1>2 DEF InitHeader, bridge, ZeroIdx
<1>3. CASE StartWatch BY <1>3 DEF StartWatch, header, bridge, history
<1>4. CASE PollEpoch BY <1>4 DEF PollEpoch, bridge, history
<1>5. CASE AckEpoch BY <1>5 DEF AckEpoch, bridge, history
<1>6. CASE PullChunk BY <1>6 DEF PullChunk, bridge, history
<1>7. CASE Handle
  <2>1. Plus(idx.t2hHead, FrameLen) \in Indices OBVIOUS
  <2>2. fwReg' \in Indices /\ fw' \in {"commit", "poll", "drain"} BY <1>7, <2>1, Zenon DEF Handle
  <2>3. QED BY <1>7, <2>2 DEF Handle, bridge
<1>8. CASE CommitAnswer BY <1>8 DEF CommitAnswer, bridge, history
<1>9. CASE PassEnds BY <1>9 DEF PassEnds, header, bridge, history
<1>10. CASE AttachReadEpoch
  <2>1. reg'.epoch = epoch + 1 BY <1>10 DEF AttachReadEpoch
  <2>2. DOMAIN reg' = DOMAIN reg /\ UNCHANGED <<reg.head, reg.tail, reg.n>>
    BY <1>10 DEF AttachReadEpoch
  <2>3. reg'.epoch \in Nat /\ reg'.head \in Indices /\ reg'.tail \in Indices /\ reg'.n \in Nat
    BY <2>1, <2>2
  <2>4. br' = "bump" /\ UNCHANGED <<epoch, ack, idx, fw, last, fwReg, st, sess, intact>>
    BY <1>10 DEF AttachReadEpoch, header, board, history
  <2>5. DOMAIN reg' = {"epoch", "head", "tail", "n", "cells"} BY <2>2
  <2>6. QED BY ONLY TypeOK, <2>3, <2>4, <2>5, Zenon DEF TypeOK
<1>11. CASE AttachBump BY <1>11 DEF AttachBump, board, history
<1>12. CASE AttachReadHead BY <1>12 DEF AttachReadHead, header, board, history
<1>13. CASE AttachDiscard BY <1>13 DEF AttachDiscard, board, history
<1>14. CASE AttachDone BY <1>14 DEF AttachDone, header, board
<1>15. CASE Acked BY <1>15 DEF Acked, header, board
<1>16. CASE AckTimeout BY <1>16 DEF AckTimeout, Closed, NoSession, header, board, history
<1>17. CASE Send BY <1>17 DEF Send, header, board
<1>18. CASE HeaderCheck BY <1>18 DEF HeaderCheck, Closed, NoSession, header, board, history
<1>19. CASE WriteCheckSession
  <2>1. CASE epoch # sess.epoch
    <3>1. Closed /\ UNCHANGED <<header, board, reg, history>>
      BY ONLY <1>19, <2>1, Zenon DEF WriteCheckSession
    <3>2. QED BY ONLY TypeOK, <3>1, ClosedTypes
  <2>2. CASE epoch = sess.epoch
    BY <1>19, <2>2 DEF WriteCheckSession, header, board, history
  <2>3. QED BY <2>1, <2>2
<1>20. CASE WriteCheckFree BY <1>20 DEF WriteCheckFree, header, board, history
<1>21. CASE ProduceReadHead
  <2>1. CASE idx.h2tHead # sess.expect
    <3>1. Closed /\ UNCHANGED <<header, board, reg, history>>
      BY ONLY <1>21, <2>1, Zenon DEF ProduceReadHead
    <3>2. QED BY ONLY TypeOK, <3>1, ClosedTypes
  <2>2. CASE idx.h2tHead = sess.expect
    <3>1. DOMAIN reg' = DOMAIN reg /\ reg'.head = idx.h2tHead
          /\ UNCHANGED <<reg.epoch, reg.tail, reg.n>>
      BY <1>21, <2>2 DEF ProduceReadHead
    <3>2. QED BY <1>21, <2>2, <3>1 DEF ProduceReadHead, header, board, history
  <2>3. QED BY <2>1, <2>2
<1>22. CASE ProduceReadTail BY <1>22 DEF ProduceReadTail, header, board, history
<1>23. CASE ProducePayload BY <1>23 DEF ProducePayload, board, history
<1>24. CASE ProduceCommit BY <1>24 DEF ProduceCommit, board
<1>25. CASE ConsumeRead BY <1>25 DEF ConsumeRead, header, board, history
<1>26. CASE ConsumeCells BY <1>26 DEF ConsumeCells, header, board, history
<1>27. CASE ConsumeRelease BY <1>27 DEF ConsumeRelease, board, history
<1>28. CASE Deliver BY <1>28 DEF Deliver, header, board
<1>29. CASE Lose BY <1>29 DEF Lose, Closed, NoSession, header, board
<1>30. CASE Pause BY <1>30 DEF Pause, header, board
<1>31. CASE Resume BY <1>31 DEF Resume, header, board, history
<1>32. QED
  BY <1>1, <1>2, <1>3, <1>4, <1>5, <1>6, <1>7, <1>8, <1>9, <1>10, <1>11, <1>12, <1>13, <1>14, <1>15, <1>16, <1>17, <1>18, <1>19, <1>20, <1>21, <1>22, <1>23, <1>24, <1>25, <1>26, <1>27, <1>28, <1>29, <1>30, <1>31
     DEF Next, Board, Attach, Service

-----------------------------------------------------------------------------
(* The handshake. *)

\* Every step keeps the watch behind, the bump ahead, and a session that is up caught up.
LEMMA HandshakeStep ==
  ASSUME HandshakeInv, Next PROVE (WatchBehind /\ BumpAhead /\ CaughtUp)'
<1> USE DEF HandshakeInv, TypeOK, WatchBehind, BumpAhead, CaughtUp
<1>1. CASE Reset BY <1>1 DEF Reset, header, bridge
<1>2. CASE InitHeader BY <1>2 DEF InitHeader, bridge, ZeroIdx
<1>3. CASE StartWatch BY <1>3 DEF StartWatch, header, bridge, history
<1>4. CASE PollEpoch BY <1>4 DEF PollEpoch, bridge, history
<1>5. CASE AckEpoch BY <1>5 DEF AckEpoch, bridge, history
<1>6. CASE PullChunk BY <1>6 DEF PullChunk, bridge, history
<1>7. CASE Handle BY <1>7 DEF Handle, bridge
<1>8. CASE CommitAnswer BY <1>8 DEF CommitAnswer, bridge, history
<1>9. CASE PassEnds BY <1>9 DEF PassEnds, header, bridge, history
<1>10. CASE AttachReadEpoch BY <1>10 DEF AttachReadEpoch, header, board, history
<1>11. CASE AttachBump BY <1>11 DEF AttachBump, board, history
<1>12. CASE AttachReadHead BY <1>12 DEF AttachReadHead, header, board, history
<1>13. CASE AttachDiscard BY <1>13 DEF AttachDiscard, board, history
<1>14. CASE AttachDone BY <1>14 DEF AttachDone, header, board
<1>15. CASE Acked BY <1>15 DEF Acked, header, board
<1>16. CASE AckTimeout BY <1>16 DEF AckTimeout, Closed, NoSession, header, board, history
<1>17. CASE Send BY <1>17 DEF Send, header, board
<1>18. CASE HeaderCheck BY <1>18 DEF HeaderCheck, Closed, NoSession, header, board, history
<1>19. CASE WriteCheckSession BY <1>19 DEF WriteCheckSession, Closed, NoSession, header, board, history
<1>20. CASE WriteCheckFree BY <1>20 DEF WriteCheckFree, header, board, history
<1>21. CASE ProduceReadHead BY <1>21 DEF ProduceReadHead, Closed, NoSession, header, board, history
<1>22. CASE ProduceReadTail BY <1>22 DEF ProduceReadTail, header, board, history
<1>23. CASE ProducePayload BY <1>23 DEF ProducePayload, board, history
<1>24. CASE ProduceCommit BY <1>24 DEF ProduceCommit, board
<1>25. CASE ConsumeRead BY <1>25 DEF ConsumeRead, header, board, history
<1>26. CASE ConsumeCells BY <1>26 DEF ConsumeCells, header, board, history
<1>27. CASE ConsumeRelease BY <1>27 DEF ConsumeRelease, board, history
<1>28. CASE Deliver BY <1>28 DEF Deliver, header, board
<1>29. CASE Lose BY <1>29 DEF Lose, Closed, NoSession, header, board
<1>30. CASE Pause BY <1>30 DEF Pause, header, board
<1>31. CASE Resume BY <1>31 DEF Resume, header, board, history
<1>32. QED
  BY <1>1, <1>2, <1>3, <1>4, <1>5, <1>6, <1>7, <1>8, <1>9, <1>10, <1>11, <1>12, <1>13, <1>14, <1>15, <1>16, <1>17, <1>18, <1>19, <1>20, <1>21, <1>22, <1>23, <1>24, <1>25, <1>26, <1>27, <1>28, <1>29, <1>30, <1>31
     DEF Next, Board, Attach, Service

\* The handshake invariant holds always.
THEOREM Handshake == Spec => []HandshakeInv
<1>1. Init => HandshakeInv
  BY IndexTypes DEF Init, ZeroIdx, NoSession, HandshakeInv, TypeOK, WatchBehind, BumpAhead, CaughtUp
<1>2. HandshakeInv /\ [Next]_vars => HandshakeInv'
  <2> SUFFICES ASSUME HandshakeInv, [Next]_vars PROVE HandshakeInv' OBVIOUS
  <2>1. CASE Next BY <2>1, TypeStep, HandshakeStep DEF HandshakeInv
  <2>2. CASE UNCHANGED vars
    BY <2>2 DEF HandshakeInv, TypeOK, WatchBehind, BumpAhead, CaughtUp,
                vars, header, board, bridge, history
  <2>3. QED BY <2>1, <2>2
<1>3. QED BY <1>1, <1>2, PTL DEF Spec

\* The words, indices and states of both sides keep their types.
THEOREM Typed == Spec => []TypeOK
  BY Handshake, PTL DEF HandshakeInv

\* The attach race: no flush of the board ever runs in a session whose acknowledgement the
\* bridge has seen, so what the bridge queued in it is not dropped (EpochWatch::poll against
\* Bridge::attach and flush_acked).
THEOREM AttachRace == Spec => FlushSparesSession
<1>1. HandshakeInv /\ [Next]_vars => [PollEpoch /\ st = "up" /\ intact => idx' = idx]_vars
  BY DEF HandshakeInv, CaughtUp, PollEpoch
<1>2. QED BY <1>1, Handshake, PTL DEF Spec, FlushSparesSession

-----------------------------------------------------------------------------
(* The stream of a session: what is put into the ring and what comes out.  *)

Cells == Nat \X Nat

InSession == st = "up" /\ intact

\* The k-th cell of what the board has still to handle: the framer's, then the ring's.
UnderwayAt(rx, buf, tail, k) ==
  IF k <= Len(rx) THEN rx[k] ELSE buf[(tail + (k - Len(rx)) - 1) % Cap]

\* Framer and ring hold, whole and in order, the frames of cs from the n-th on.
Carries(rx, buf, tail, used, cs, n) ==
  /\ Len(rx) + used = (Len(cs) - n) * FrameLen
  /\ \A i \in 1 .. Len(cs) - n, q \in 1 .. FrameLen :
       UnderwayAt(rx, buf, tail, (i - 1) * FrameLen + q) = <<cs[n + i], q>>

\* The frames that cells carry whole and in order, by their last cells.
FramesOf(cells) == [i \in 1 .. Len(cells) \div FrameLen |-> cells[i * FrameLen][1]]

\* What was handled, with what is carried, is what was committed.
Streams(rx, buf, tail, used, cs, ts) ==
  /\ rx \in Seq(Cells) /\ buf \in [Slots -> Cells] /\ tail \in Indices /\ used \in Nat
  /\ cs \in Seq(Nat) /\ ts \in Seq(Nat)
  /\ Len(ts) <= Len(cs) /\ \A i \in 1 .. Len(ts) : ts[i] = cs[i]
  /\ Carries(rx, buf, tail, used, cs, Len(ts))

Pending == Used(idx.h2tHead, idx.h2tTail)

\* The types of the data, in any session or none.
DataShape ==
  /\ DOMAIN ring = {"h2t", "t2h"} /\ ring.h2t \in [Slots -> Cells]
  /\ queue \in Seq(Nat) /\ asked \in Nat
  /\ br = "payload" => reg.n <= FrameLen

\* An open port alone works the rings, and writes only what it holds.
PortPhases ==
  /\ br \in {"free", "head", "tail", "payload", "commit", "cells", "release"} => st = "up"
  /\ br \in {"free", "head", "tail", "payload", "commit"} => queue # <<>>
  /\ st = "attaching" => committed = <<>>

\* While a session attaches, a board that has acknowledged it has nothing left of an older one.
FlushedInv ==
  /\ fw \in {"boot", "watch"} => fwRx = <<>>
  /\ br \in {"readHead", "discard", "expect"} \/ st = "attaching" =>
       /\ fw = "ack" /\ last = epoch => idx.h2tHead = idx.h2tTail
       /\ ack = epoch => idx.h2tHead = idx.h2tTail /\ fwRx = <<>>

\* What a produce has read of the ring stays true until it commits: the board only makes room.
ProduceInv ==
  /\ br \in {"head", "tail", "payload", "commit"} => Pending + FrameLen <= Cap
  /\ br \in {"tail", "payload", "commit"} => reg.head = idx.h2tHead
  /\ br \in {"payload", "commit"} => reg.n = FrameLen
  /\ br = "commit" => \A q \in 1 .. FrameLen :
       ring.h2t[(idx.h2tHead + q - 1) % Cap] = <<Head(queue), q>>

\* What the board handled and what is underway to it are what was committed.
StreamInv ==
  /\ fwRx \in Seq(Cells) /\ committed \in Seq(Nat) /\ taken \in Seq(Nat)
  /\ Pending <= Cap
  /\ Len(taken) <= Len(committed)
  /\ \A i \in 1 .. Len(taken) : taken[i] = committed[i]
  /\ Carries(fwRx, ring.h2t, idx.h2tTail, Pending, committed, Len(taken))

FifoInv ==
  /\ HandshakeInv /\ DataShape /\ PortPhases /\ FlushedInv
  /\ InSession => ProduceInv /\ StreamInv

-----------------------------------------------------------------------------
(* Remainders and indices. *)

\* Quotient and remainder determine each other.
LEMMA Remainder ==
  ASSUME NEW m \in Nat \ {0}, NEW q \in Int, NEW r \in 0 .. m - 1, NEW a \in Int, a = m * q + r
  PROVE  a % m = r
<1> DEFINE p == a \div m
<1>1. a = m * p + (a % m) /\ p \in Int /\ a % m \in 0 .. m - 1
  OBVIOUS
<1> HIDE DEF p
<1>2. m * (p - q) = r - (a % m)
  BY <1>1
<1>3. r - (a % m) < m /\ r - (a % m) > - m
  BY <1>1
<1>4. ~ (p - q >= 1)
  <2> SUFFICES ASSUME p - q >= 1 PROVE m * (p - q) >= m
    BY <1>2, <1>3
  <2> QED BY <1>1
<1>5. ~ (p - q <= -1)
  <2> SUFFICES ASSUME p - q <= -1 PROVE m * (p - q) <= - m
    BY <1>2, <1>3
  <2>1. m * (q - p) >= m BY <1>1
  <2>2. m * (p - q) = - (m * (q - p)) BY <1>1
  <2> QED BY <2>1, <2>2, <1>1
<1>6. p = q
  BY <1>1, <1>4, <1>5
<1> QED
  BY <1>1, <1>6

\* The multiples of m.
LEMMA Multiples ==
  ASSUME NEW m \in Int, NEW x \in Int, NEW y \in Int
  PROVE  /\ m * x \in Int
         /\ m * (x - y) = m * x - m * y
         /\ m * (x + y) = m * x + m * y
OBVIOUS

\* A remainder inside a sum does not show.
LEMMA RemainderOfSum ==
  ASSUME NEW m \in Nat \ {0}, NEW a \in Int, NEW b \in Int
  PROVE  ((a % m) + b) % m = (a + b) % m
<1> DEFINE p == a \div m
           s == a + b
           o == s \div m
           c == (a % m) + b
           ra == a % m
           rs == s % m
<1>1. a = m * p + ra /\ p \in Int /\ ra \in 0 .. m - 1 /\ c \in Int
  OBVIOUS
<1>2. s = m * o + rs /\ o \in Int /\ rs \in 0 .. m - 1
  OBVIOUS
<1>3. s = a + b /\ c = ra + b
  OBVIOUS
<1> HIDE DEF p, s, o, c, ra, rs
<1>4. m * (o - p) = m * o - m * p /\ m * o \in Int /\ m * p \in Int /\ o - p \in Int
  BY <1>1, <1>2, Multiples
<1>5. c = m * (o - p) + rs
  BY <1>1, <1>2, <1>3, <1>4
<1>6. c % m = rs
  <2> DEFINE q == o - p
  <2>1. q \in Int /\ c = m * q + rs
    BY <1>4, <1>5
  <2> HIDE DEF q
  <2> QED BY <1>1, <1>2, <2>1, Remainder
<1> QED
  BY <1>6 DEF c, s, rs

\* A number at most one turn away.
LEMMA SmallRemainder ==
  ASSUME NEW m \in Nat \ {0}, NEW a \in Int
  PROVE  /\ a \in 0 .. m - 1 => a % m = a
         /\ a \in -m .. -1 => a % m = a + m
         /\ a \in m .. 2 * m - 1 => a % m = a - m
<1>1. a \in 0 .. m - 1 => a % m = a
  BY Remainder, a = m * 0 + a
<1>2. a \in -m .. -1 => a % m = a + m
  <2> SUFFICES ASSUME a \in -m .. -1 PROVE a % m = a + m
    OBVIOUS
  <2>1. a = m * (-1) + (a + m) /\ a + m \in 0 .. m - 1
    OBVIOUS
  <2> QED BY <2>1, Remainder
<1>3. a \in m .. 2 * m - 1 => a % m = a - m
  <2> SUFFICES ASSUME a \in m .. 2 * m - 1 PROVE a % m = a - m
    OBVIOUS
  <2>1. a = m * 1 + (a - m) /\ a - m \in 0 .. m - 1
    OBVIOUS
  <2> QED BY <2>1, Remainder
<1> QED
  BY <1>1, <1>2, <1>3

\* The free-running indices stand for their remainders: a turn is whole rings.
LEMMA WholeRings ==
  ASSUME NEW a \in Int
  PROVE  (a - IdxMod) % Cap = a % Cap /\ (a + IdxMod) % Cap = a % Cap
<1> DEFINE d == IdxMod \div Cap
           p == a \div Cap
           lo == a - IdxMod
           hi == a + IdxMod
           r == a % Cap
<1>1. IdxMod = Cap * d /\ d \in Int /\ Cap \in Nat \ {0} /\ IdxMod \in Nat
  BY CapAssumption, IdxModAssumption
<1>2. a = Cap * p + r /\ p \in Int /\ r \in 0 .. Cap - 1
  BY CapAssumption
<1>3. lo = a - IdxMod /\ hi = a + IdxMod /\ lo \in Int /\ hi \in Int
  BY <1>1
<1> HIDE DEF d, p, lo, hi, r
<1>4. /\ Cap * (p - d) = Cap * p - Cap * d /\ Cap * (p + d) = Cap * p + Cap * d
      /\ Cap * p \in Int /\ Cap * d \in Int /\ p - d \in Int /\ p + d \in Int
  BY <1>1, <1>2, Multiples
<1>5. lo = Cap * (p - d) + r /\ hi = Cap * (p + d) + r
  BY <1>1, <1>2, <1>3, <1>4
<1> DEFINE u == p - d
           v == p + d
<1>6. u \in Int /\ v \in Int /\ lo = Cap * u + r /\ hi = Cap * v + r
  BY <1>4, <1>5
<1> HIDE DEF u, v
<1>7. lo % Cap = r /\ hi % Cap = r
  BY <1>1, <1>2, <1>3, <1>6, Remainder
<1> QED
  BY <1>7 DEF lo, hi, r

\* The distance of the indices.
LEMMA Distance ==
  ASSUME NEW h \in Indices, NEW t \in Indices
  PROVE  /\ Used(h, t) \in 0 .. IdxMod - 1
         /\ h = t + Used(h, t) \/ h = t + Used(h, t) - IdxMod
         /\ h = t => Used(h, t) = 0
<1> DEFINE x == h - t
<1>1. IdxMod \in Nat \ {0} /\ x \in Int /\ h \in Int /\ t \in Int
  BY IdxModAssumption, CapAssumption DEF Indices
<1>2. x \in 0 .. IdxMod - 1 \/ x \in -IdxMod .. -1
  BY <1>1 DEF Indices
<1>3. Used(h, t) = x % IdxMod /\ x = h - t
  BY DEF Used
<1> HIDE DEF x
<1>4. (x \in 0 .. IdxMod - 1 /\ Used(h, t) = x) \/ (x \in -IdxMod .. -1 /\ Used(h, t) = x + IdxMod)
  BY <1>1, <1>2, <1>3, SmallRemainder
<1> QED
  BY <1>1, <1>3, <1>4

\* An index moved on, by less than a turn.
LEMMA Moved ==
  ASSUME NEW i \in Indices, NEW n \in 0 .. IdxMod - 1
  PROVE  Plus(i, n) \in Indices /\ (Plus(i, n) = i + n \/ Plus(i, n) = i + n - IdxMod)
<1> DEFINE x == i + n
<1>1. IdxMod \in Nat \ {0} /\ x \in Int /\ i \in Int
  BY IdxModAssumption, CapAssumption DEF Indices
<1>2. x \in 0 .. IdxMod - 1 \/ x \in IdxMod .. 2 * IdxMod - 1
  BY <1>1 DEF Indices
<1>3. Plus(i, n) = x % IdxMod /\ x = i + n
  BY DEF Plus
<1> HIDE DEF x
<1>4. (x \in 0 .. IdxMod - 1 /\ Plus(i, n) = x) \/ (x \in IdxMod .. 2 * IdxMod - 1 /\ Plus(i, n) = x - IdxMod)
  BY <1>1, <1>2, <1>3, SmallRemainder
<1> QED
  BY <1>1, <1>3, <1>4 DEF Indices
\* What moving an index does to the distance.
LEMMA Apart ==
  ASSUME NEW h \in Indices, NEW t \in Indices, NEW n \in Nat
  PROVE  /\ Used(h, t) + n < IdxMod => Used(Plus(h, n), t) = Used(h, t) + n
         /\ n <= Used(h, t) => Used(h, Plus(t, n)) = Used(h, t) - n
         /\ Used(h, t) <= Cap => Free(h, t) = Cap - Used(h, t)
<1> DEFINE u == Used(h, t)
<1>1. IdxMod \in Nat \ {0} /\ IdxMod >= 2 * Cap /\ Cap \in Nat \ {0}
  BY IdxModAssumption, CapAssumption
<1>2. u \in 0 .. IdxMod - 1 /\ (h = t + u \/ h = t + u - IdxMod)
  BY Distance
<1>3. u <= Cap => Free(h, t) = Cap - u
  BY <1>1, <1>2, SmallRemainder, Cap - u \in Int DEF Free
<1>4. ASSUME u + n < IdxMod PROVE Used(Plus(h, n), t) = u + n
  <2>1. Plus(h, n) \in Indices /\ (Plus(h, n) = h + n \/ Plus(h, n) = h + n - IdxMod)
    BY <1>1, <1>2, <1>4, Moved
  <2>2. Used(Plus(h, n), t) \in 0 .. IdxMod - 1
        /\ (Plus(h, n) = t + Used(Plus(h, n), t) \/ Plus(h, n) = t + Used(Plus(h, n), t) - IdxMod)
    BY <2>1, Distance
  <2> HIDE DEF u
  <2> QED
    BY <1>1, <1>2, <1>4, <2>1, <2>2 DEF Indices
<1>5. ASSUME n <= u PROVE Used(h, Plus(t, n)) = u - n
  <2>1. Plus(t, n) \in Indices /\ (Plus(t, n) = t + n \/ Plus(t, n) = t + n - IdxMod)
    BY <1>1, <1>2, <1>5, Moved
  <2>2. Used(h, Plus(t, n)) \in 0 .. IdxMod - 1
        /\ (h = Plus(t, n) + Used(h, Plus(t, n)) \/ h = Plus(t, n) + Used(h, Plus(t, n)) - IdxMod)
    BY <2>1, Distance
  <2> HIDE DEF u
  <2> QED
    BY <1>1, <1>2, <1>5, <2>1, <2>2 DEF Indices
<1> QED
  BY <1>3, <1>4, <1>5

\* Where the ring's cells are, seen from the tail, from a tail moved on, and from the head.
LEMMA SameSlot ==
  ASSUME NEW h \in Indices, NEW t \in Indices, NEW n \in 0 .. IdxMod - 1, NEW j \in Int
  PROVE  /\ (Plus(t, n) + j) % Cap = (t + n + j) % Cap
         /\ (h + j) % Cap = (t + Used(h, t) + j) % Cap
<1> DEFINE u == Used(h, t)
<1>1. IdxMod \in Nat \ {0} /\ t \in Int /\ h \in Int
  BY IdxModAssumption, CapAssumption DEF Indices
<1>2. u \in Int /\ (h = t + u \/ h = t + u - IdxMod)
  BY <1>1, Distance
<1>3. Plus(t, n) = t + n \/ Plus(t, n) = t + n - IdxMod
  BY Moved
<1> HIDE DEF u
<1>4. (Plus(t, n) + j) % Cap = (t + n + j) % Cap
  <2>1. t + n + j \in Int /\ (t + n - IdxMod) + j = (t + n + j) - IdxMod
    BY <1>1
  <2> QED BY <1>3, <2>1, WholeRings
<1>5. (h + j) % Cap = (t + u + j) % Cap
  <2>1. t + u + j \in Int /\ (t + u - IdxMod) + j = (t + u + j) - IdxMod
    BY <1>1, <1>2
  <2> QED BY <1>2, <2>1, WholeRings
<1> QED
  BY <1>4, <1>5 DEF u

-----------------------------------------------------------------------------
(* What the framer and the ring carry. *)

\* The cells of frame after frame, counted through.
LEMMA Positions ==
  ASSUME NEW i \in Nat \ {0}, NEW q \in 1 .. FrameLen
  PROVE  /\ (i - 1) * FrameLen \in Nat /\ (i - 1) * FrameLen + q \in Nat \ {0}
         /\ i * FrameLen = (i - 1) * FrameLen + FrameLen
         /\ \A n \in Nat : i <= n => i * FrameLen <= n * FrameLen
<1>1. FrameLen \in Nat \ {0}
  BY FrameLenAssumption, CapAssumption
<1>2. (i - 1) * FrameLen \in Nat /\ i * FrameLen = (i - 1) * FrameLen + FrameLen
  BY <1>1
<1>3. ASSUME NEW n \in Nat, i <= n PROVE i * FrameLen <= n * FrameLen
  <2>1. n * FrameLen = i * FrameLen + (n - i) * FrameLen /\ (n - i) * FrameLen \in Nat
    BY <1>1, <1>3
  <2> QED BY <2>1, <1>1, <1>2
<1> QED
  BY <1>1, <1>2, <1>3

\* Nothing is hunted away in front of a frame.
LEMMA HuntedWhole ==
  ASSUME NEW rx \in Seq(Cells), NEW f, \A q \in 1 .. FrameLen : q <= Len(rx) => rx[q] = <<f, q>>
  PROVE  Hunted(rx) = rx
<1>1. FrameLen \in Nat \ {0} /\ 1 \in 1 .. FrameLen
  BY FrameLenAssumption, CapAssumption
<1>2. CASE Len(rx) = 0
  <2>1. Starts(rx) = {} BY <1>2 DEF Starts
  <2> QED BY <1>2, <2>1 DEF Hunted
<1>3. CASE Len(rx) # 0
  <2>1. 1 \in 1 .. Len(rx) /\ rx[1] = <<f, 1>>
    BY <1>1, <1>3
  <2>2. 1 \in Starts(rx)
    BY <1>1, <2>1 DEF Starts
  <2>3. \A j \in Starts(rx) : j \in 1 .. Len(rx)
    BY DEF Starts
  <2>4. (CHOOSE i \in Starts(rx) : \A j \in Starts(rx) : i <= j) = 1
    <3> DEFINE c == CHOOSE i \in Starts(rx) : \A j \in Starts(rx) : i <= j
    <3>1. c \in Starts(rx) /\ \A j \in Starts(rx) : c <= j
      BY <2>2, <2>3
    <3> QED BY <2>2, <2>3, <3>1
  <2>5. SubSeq(rx, 1, Len(rx)) = rx
    OBVIOUS
  <2> QED BY <2>2, <2>4, <2>5 DEF Hunted
<1> QED
  BY <1>2, <1>3

\* Of nothing, nothing is left.
LEMMA HuntedEmpty == Hunted(<<>>) = <<>>
<1>1. Starts(<<>>) = {}
  BY DEF Starts
<1> QED
  BY <1>1 DEF Hunted

\* What the board stages begins with a frame, or is empty.
LEMMA StagedWhole ==
  ASSUME NEW rx \in Seq(Cells), NEW buf, NEW tail, NEW used \in Nat, NEW cs \in Seq(Nat),
         NEW n \in 0 .. Len(cs), Carries(rx, buf, tail, used, cs, n)
  PROVE  /\ Hunted(rx) = rx
         /\ rx # <<>> => n < Len(cs) /\ rx[1] = <<cs[n + 1], 1>>
<1>1. FrameLen \in Nat \ {0} /\ 1 \in 1 .. FrameLen
  BY FrameLenAssumption, CapAssumption
<1>2. CASE Len(rx) = 0
  <2>1. \A q \in 1 .. FrameLen : q <= Len(rx) => rx[q] = <<0, q>>
    BY <1>1, <1>2
  <2>2. rx = <<>>
    BY <1>2
  <2> QED BY <2>1, <2>2, HuntedWhole
<1>3. CASE Len(rx) # 0
  <2> DEFINE m == Len(cs) - n
  <2>1. m \in Nat /\ m * FrameLen # 0
    BY <1>1, <1>3 DEF Carries
  <2> HIDE DEF m
  <2>a. m >= 1
    BY <1>1, <2>1
  <2>2. Len(cs) - n >= 1
    BY <2>a DEF m
  <2>3. ASSUME NEW q \in 1 .. FrameLen, q <= Len(rx) PROVE rx[q] = <<cs[n + 1], q>>
    <3>1. UnderwayAt(rx, buf, tail, (1 - 1) * FrameLen + q) = <<cs[n + 1], q>>
      BY <2>2 DEF Carries
    <3>2. (1 - 1) * FrameLen + q = q
      BY <1>1
    <3> QED BY <2>3, <3>1, <3>2 DEF UnderwayAt
  <2>4. rx[1] = <<cs[n + 1], 1>>
    BY <1>1, <1>3, <2>3
  <2>5. Hunted(rx) = rx
    BY <2>3, HuntedWhole
  <2> QED BY <2>2, <2>4, <2>5
<1> QED
  BY <1>2, <1>3

\* A run of cells of the ring, and what it is appended to.
LEMMA RunCells ==
  ASSUME NEW buf \in [Slots -> Cells], NEW tail \in Nat, NEW k \in Nat
  PROVE  /\ Taken(buf, tail, k) \in Seq(Cells) /\ Len(Taken(buf, tail, k)) = k
         /\ \A j \in 1 .. k : Taken(buf, tail, k)[j] = buf[(tail + j - 1) % Cap]
<1> DEFINE run == Taken(buf, tail, k)
<1>1. \A j \in 1 .. k : (tail + j - 1) % Cap \in Slots
  BY CapAssumption DEF Slots
<1>2. \A j \in 1 .. k : buf[(tail + j - 1) % Cap] \in Cells
  BY <1>1
<1>3. run = [j \in 1 .. k |-> buf[(tail + j - 1) % Cap]]
  BY DEF Taken
<1> QED
  BY <1>2, <1>3

\* What a concatenation holds.
LEMMA Joined ==
  ASSUME NEW s \in Seq(Cells), NEW t \in Seq(Cells)
  PROVE  /\ s \o t \in Seq(Cells) /\ Len(s \o t) = Len(s) + Len(t)
         /\ \A j \in 1 .. Len(s) : (s \o t)[j] = s[j]
         /\ \A j \in 1 .. Len(t) : (s \o t)[Len(s) + j] = t[j]
OBVIOUS

\* The next run of cells moves from the ring to the framer.
LEMMA CarriesPull ==
  ASSUME NEW rx \in Seq(Cells), NEW buf \in [Slots -> Cells], NEW tail \in Indices,
         NEW used \in 0 .. Cap, NEW cs \in Seq(Nat), NEW n \in 0 .. Len(cs), NEW k \in 1 .. used,
         Carries(rx, buf, tail, used, cs, n)
  PROVE  /\ rx \o Taken(buf, tail, k) \in Seq(Cells)
         /\ Carries(rx \o Taken(buf, tail, k), buf, Plus(tail, k), used - k, cs, n)
<1> DEFINE run == Taken(buf, tail, k)
           new == rx \o run
<1>1. Cap \in Nat \ {0} /\ tail \in Nat /\ k \in 0 .. IdxMod - 1 /\ FrameLen \in Nat \ {0} /\ IdxMod \in Nat
  BY CapAssumption, IdxModAssumption, FrameLenAssumption DEF Indices
<1>2. run \in Seq(Cells) /\ Len(run) = k /\ \A j \in 1 .. k : run[j] = buf[(tail + j - 1) % Cap]
  BY <1>1, k \in Nat, RunCells
<1> HIDE DEF run
<1>3. /\ new \in Seq(Cells) /\ Len(new) = Len(rx) + k
      /\ \A j \in 1 .. Len(rx) : new[j] = rx[j]
      /\ \A j \in 1 .. k : new[Len(rx) + j] = run[j]
  BY <1>2, Joined
<1> HIDE DEF new
<1>4. ASSUME NEW j \in Nat \ {0}
      PROVE  UnderwayAt(new, buf, Plus(tail, k), j) = UnderwayAt(rx, buf, tail, j)
  <2>1. CASE j <= Len(rx)
    BY <1>1, <1>3, <2>1 DEF UnderwayAt
  <2>2. CASE j > Len(rx) /\ j <= Len(rx) + k
    <3>1. j - Len(rx) \in 1 .. k /\ j = Len(rx) + (j - Len(rx))
      BY <1>1, <2>2
    <3>2. new[j] = buf[(tail + (j - Len(rx)) - 1) % Cap]
      BY <1>2, <1>3, <3>1
    <3> QED BY <1>3, <2>2, <3>2 DEF UnderwayAt
  <2>3. CASE j > Len(rx) + k
    <3> DEFINE x == j - Len(rx) - k - 1
    <3>1. x \in Int
      OBVIOUS
    <3>2. (Plus(tail, k) + x) % Cap = (tail + k + x) % Cap
      BY <1>1, <3>1, SameSlot
    <3>3. Plus(tail, k) \in Int
      BY <1>1, Moved DEF Indices
    <3>4. Plus(tail, k) + (j - (Len(rx) + k)) - 1 = Plus(tail, k) + x
          /\ tail + (j - Len(rx)) - 1 = tail + k + x
      BY <1>1, <3>3
    <3>5. ~ (j <= Len(rx)) /\ ~ (j <= Len(new))
      BY <1>1, <1>3, <2>3
    <3> QED BY <1>3, <3>2, <3>4, <3>5 DEF UnderwayAt
  <2> QED BY <2>1, <2>2, <2>3, <1>1
<1>5. Len(new) + (used - k) = (Len(cs) - n) * FrameLen
  <2>1. Len(rx) + used = (Len(cs) - n) * FrameLen
    BY DEF Carries
  <2>2. Len(new) + (used - k) = Len(rx) + used
    BY <1>1, <1>3
  <2> QED BY <2>1, <2>2
<1>6. ASSUME NEW i \in 1 .. Len(cs) - n, NEW q \in 1 .. FrameLen
      PROVE  UnderwayAt(new, buf, Plus(tail, k), (i - 1) * FrameLen + q) = <<cs[n + i], q>>
  <2>1. (i - 1) * FrameLen + q \in Nat \ {0}
    BY i \in Nat \ {0}, Positions
  <2> QED BY <1>4, <2>1 DEF Carries
<1> QED
  BY <1>3, <1>5, <1>6 DEF Carries, new, run

\* A whole frame leaves the framer: the oldest of those underway.
LEMMA CarriesTake ==
  ASSUME NEW rx \in Seq(Cells), NEW buf, NEW tail \in Int, NEW used \in Nat, NEW cs \in Seq(Nat),
         NEW n \in 0 .. Len(cs), Carries(rx, buf, tail, used, cs, n), HasFrame(rx)
  PROVE  /\ n < Len(cs) /\ FirstFrame(rx) = cs[n + 1] /\ AfterFrame(rx) \in Seq(Cells)
         /\ Carries(AfterFrame(rx), buf, tail, used, cs, n + 1)
<1> DEFINE rest == AfterFrame(rx)
<1>1. FrameLen \in Nat \ {0}
  BY FrameLenAssumption, CapAssumption
<1>2. Hunted(rx) = rx /\ Len(rx) >= FrameLen
  BY StagedWhole DEF HasFrame
<1>3. n < Len(cs) /\ FirstFrame(rx) = cs[n + 1]
  BY SMTT(30), <1>1, <1>2, StagedWhole DEF FirstFrame
<1>4. /\ rest \in Seq(Cells) /\ Len(rest) = Len(rx) - FrameLen
      /\ \A j \in 1 .. Len(rest) : rest[j] = rx[j + FrameLen]
  <2>1. rest = SubSeq(rx, FrameLen + 1, Len(rx))
    BY <1>2 DEF AfterFrame
  <2> QED BY <1>1, <1>2, <2>1
<1> HIDE DEF rest
<1>5. ASSUME NEW j \in Nat \ {0}
      PROVE  UnderwayAt(rest, buf, tail, j) = UnderwayAt(rx, buf, tail, j + FrameLen)
  <2>1. CASE j <= Len(rest)
    BY <1>1, <1>4, <2>1 DEF UnderwayAt
  <2>2. CASE j > Len(rest)
    <3>1. tail + (j - Len(rest)) - 1 = tail + ((j + FrameLen) - Len(rx)) - 1
          /\ ~ (j <= Len(rest)) /\ ~ (j + FrameLen <= Len(rx))
      BY <1>1, <1>4, <2>2
    <3> QED BY <3>1 DEF UnderwayAt
  <2> QED BY <2>1, <2>2, <1>4
<1> DEFINE m == Len(cs) - n
<1>6. m \in Nat \ {0} /\ Len(cs) - (n + 1) = m - 1
  BY <1>3
<1>7. Len(rest) + used = (Len(cs) - (n + 1)) * FrameLen
  <2>1. Len(rx) + used = m * FrameLen
    BY DEF Carries
  <2> HIDE DEF m
  <2>2. m * FrameLen = (m - 1) * FrameLen + FrameLen /\ (m - 1) * FrameLen \in Nat
    BY <1>1, <1>6, 1 \in 1 .. FrameLen, Positions
  <2> DEFINE y == (m - 1) * FrameLen
  <2>3. Len(rx) + used = y + FrameLen /\ y \in Nat
    BY <2>1, <2>2
  <2> HIDE DEF y
  <2>4. Len(rest) + used = y
    BY <1>1, <1>4, <2>3
  <2> QED BY <1>6, <2>4 DEF y
<1>8. ASSUME NEW i \in 1 .. Len(cs) - (n + 1), NEW q \in 1 .. FrameLen
      PROVE  UnderwayAt(rest, buf, tail, (i - 1) * FrameLen + q) = <<cs[(n + 1) + i], q>>
  <2>1. (i - 1) * FrameLen + q \in Nat \ {0}
    BY i \in Nat \ {0}, Positions
  <2>2. ((i - 1) * FrameLen + q) + FrameLen = ((i + 1) - 1) * FrameLen + q
    <3>1. i \in Nat \ {0} /\ (i + 1) - 1 = i
      OBVIOUS
    <3>2. i * FrameLen = (i - 1) * FrameLen + FrameLen /\ (i - 1) * FrameLen \in Nat
      BY <3>1, Positions
    <3> QED BY <1>1, <3>1, <3>2
  <2>3. i + 1 \in 1 .. Len(cs) - n /\ n + (i + 1) = (n + 1) + i
    BY <1>3
  <2>4. UnderwayAt(rx, buf, tail, ((i + 1) - 1) * FrameLen + q) = <<cs[n + (i + 1)], q>>
    BY <2>3 DEF Carries
  <2> QED BY <1>5, <2>1, <2>2, <2>3, <2>4
<1> QED
  BY <1>3, <1>4, <1>7, <1>8 DEF Carries, rest

\* A frame written in front of the head leaves what is behind it, and is there.
LEMMA PlacedCells ==
  ASSUME NEW buf, NEW tail \in Indices, NEW head \in Indices, NEW cells, Len(cells) = FrameLen,
         Used(head, tail) + FrameLen <= Cap
  PROVE  /\ \A j \in 0 .. Used(head, tail) - 1 :
              Placed(buf, head, cells)[(tail + j) % Cap] = buf[(tail + j) % Cap]
         /\ \A q \in 1 .. FrameLen : Placed(buf, head, cells)[(head + q - 1) % Cap] = cells[q]
<1> DEFINE used == Used(head, tail)
           new == Placed(buf, head, cells)
<1>1. /\ Cap \in Nat \ {0} /\ FrameLen \in 1 .. Cap /\ IdxMod \in Nat \ {0}
      /\ tail \in Nat /\ head \in Nat
  BY CapAssumption, IdxModAssumption, FrameLenAssumption DEF Indices
<1>2. used \in Nat /\ (head = tail + used \/ head = tail + used - IdxMod)
  BY Distance
<1> HIDE DEF used
<1>3. ASSUME NEW j \in 0 .. used - 1
      PROVE  new[(tail + j) % Cap] = buf[(tail + j) % Cap]
  <2> DEFINE s == (tail + j) % Cap
  <2>1. s \in Slots
    BY <1>1 DEF Slots
  <2>2. (s - head) % Cap = ((tail + j) - head) % Cap
    <3>1. tail + j \in Int /\ - head \in Int /\ (tail + j) + (- head) = (tail + j) - head
      BY <1>1
    <3>2. s + (- head) = s - head
      BY <1>1, <2>1 DEF Slots
    <3> QED BY <1>1, <3>1, <3>2, RemainderOfSum
  <2>3. (tail + j) - head = j - used \/ (tail + j) - head = (j - used) + IdxMod
    BY <1>1, <1>2
  <2>4. ((tail + j) - head) % Cap = (j - used) % Cap
    BY <1>2, <2>3, WholeRings, j - used \in Int
  <2>5. (j - used) % Cap = j - used + Cap
    <3>1. j - used \in -Cap .. -1
      BY <1>1, <1>2 DEF used
    <3> QED BY <1>1, <3>1, SmallRemainder
  <2>6. ~ ((s - head) % Cap < FrameLen)
    BY <1>1, <1>2, <2>2, <2>4, <2>5 DEF used
  <2> QED BY <2>1, <2>6 DEF Placed
<1>4. ASSUME NEW q \in 1 .. FrameLen PROVE new[(head + q - 1) % Cap] = cells[q]
  <2> DEFINE s == (head + q - 1) % Cap
  <2>1. s \in Slots
    BY <1>1 DEF Slots
  <2>2. (s - head) % Cap = q - 1
    <3>1. head + q - 1 \in Int /\ - head \in Int /\ (head + q - 1) + (- head) = q - 1
      BY <1>1
    <3>2. s + (- head) = s - head
      BY <1>1, <2>1 DEF Slots
    <3>3. (s - head) % Cap = (q - 1) % Cap
      BY <1>1, <3>1, <3>2, RemainderOfSum
    <3>4. q - 1 \in 0 .. Cap - 1
      BY <1>1
    <3> QED BY <1>1, <3>3, <3>4, SmallRemainder
  <2>3. q - 1 < FrameLen /\ (q - 1) + 1 = q
    BY <1>1
  <2> QED BY <2>1, <2>2, <2>3 DEF Placed
<1> QED
  BY <1>3, <1>4 DEF used

\* So it does not disturb what the ring carries.
LEMMA CarriesPlaced ==
  ASSUME NEW rx \in Seq(Cells), NEW buf \in [Slots -> Cells], NEW tail \in Indices, NEW head \in Indices,
         NEW cs \in Seq(Nat), NEW n \in 0 .. Len(cs), NEW cells, Len(cells) = FrameLen,
         Used(head, tail) + FrameLen <= Cap, Carries(rx, buf, tail, Used(head, tail), cs, n)
  PROVE  Carries(rx, Placed(buf, head, cells), tail, Used(head, tail), cs, n)
<1> DEFINE used == Used(head, tail)
           new == Placed(buf, head, cells)
<1>1. /\ Cap \in Nat \ {0} /\ FrameLen \in 1 .. Cap /\ IdxMod \in Nat \ {0}
      /\ tail \in Nat /\ head \in Nat
  BY CapAssumption, IdxModAssumption, FrameLenAssumption DEF Indices
<1>2. used \in Nat /\ (head = tail + used \/ head = tail + used - IdxMod)
  BY Distance
<1>3. \A j \in 0 .. used - 1 : new[(tail + j) % Cap] = buf[(tail + j) % Cap]
  BY PlacedCells
<1> HIDE DEF used
<1>5. ASSUME NEW k \in 1 .. Len(rx) + used
      PROVE  UnderwayAt(rx, new, tail, k) = UnderwayAt(rx, buf, tail, k)
  <2>1. CASE k <= Len(rx)
    BY <2>1 DEF UnderwayAt
  <2>2. CASE ~ (k <= Len(rx))
    <3>1. k - Len(rx) - 1 \in 0 .. used - 1 /\ tail + (k - Len(rx)) - 1 = tail + (k - Len(rx) - 1)
      BY <1>1, <1>2, <2>2
    <3> QED BY <1>3, <2>2, <3>1 DEF UnderwayAt
  <2> QED BY <2>1, <2>2
<1>6. ASSUME NEW i \in 1 .. Len(cs) - n, NEW q \in 1 .. FrameLen
      PROVE  UnderwayAt(rx, new, tail, (i - 1) * FrameLen + q) = <<cs[n + i], q>>
  <2>1. (i - 1) * FrameLen + q \in Nat \ {0} /\ i * FrameLen = (i - 1) * FrameLen + FrameLen
        /\ i * FrameLen <= (Len(cs) - n) * FrameLen
    BY i \in Nat \ {0}, Len(cs) - n \in Nat, i <= Len(cs) - n, Positions
  <2>2. Len(rx) + used = (Len(cs) - n) * FrameLen
    BY DEF Carries, used
  <2>3. (i - 1) * FrameLen + q \in 1 .. Len(rx) + used
    BY <1>1, <1>2, <2>1, <2>2
  <2> QED BY <1>5, <2>3 DEF Carries, used
<1> QED
  BY <1>6 DEF Carries, used

\* Its commit puts it last.
LEMMA CarriesCommit ==
  ASSUME NEW rx \in Seq(Cells), NEW buf, NEW tail \in Indices, NEW head \in Indices,
         NEW cs \in Seq(Nat), NEW n \in 0 .. Len(cs), NEW f \in Nat,
         Carries(rx, buf, tail, Used(head, tail), cs, n),
         \A q \in 1 .. FrameLen : buf[(head + q - 1) % Cap] = <<f, q>>
  PROVE  Carries(rx, buf, tail, Used(head, tail) + FrameLen, Append(cs, f), n)
<1> DEFINE used == Used(head, tail)
           new == Append(cs, f)
           m == Len(cs) - n
<1>1. /\ FrameLen \in Nat \ {0} /\ tail \in Nat /\ head \in Nat /\ used \in Nat /\ m \in Nat
      /\ IdxMod \in Nat \ {0}
  <2>1. used \in 0 .. IdxMod - 1
    BY Distance
  <2> HIDE DEF used
  <2> QED BY <2>1, CapAssumption, IdxModAssumption, FrameLenAssumption DEF Indices
<1>2. new \in Seq(Nat) /\ Len(new) = Len(cs) + 1 /\ new[Len(cs) + 1] = f
      /\ (\A i \in 1 .. Len(cs) : new[i] = cs[i]) /\ Len(new) - n = m + 1
  BY <1>1
<1>3. Len(rx) + used = m * FrameLen
  BY DEF Carries
<1>4. (m + 1) * FrameLen = m * FrameLen + FrameLen /\ m * FrameLen \in Nat
  <2> HIDE DEF m
  <2> QED BY <1>1
<1> HIDE DEF used, new
<1>5. ASSUME NEW i \in 1 .. m + 1, NEW q \in 1 .. FrameLen
      PROVE  UnderwayAt(rx, buf, tail, (i - 1) * FrameLen + q) = <<new[n + i], q>>
  <2>1. CASE i <= m
    <3>1. i \in 1 .. m /\ n + i \in 1 .. Len(cs)
      BY <2>1
    <3> QED BY <1>2, <3>1 DEF Carries
  <2>2. CASE i = m + 1
    <3> DEFINE k == (i - 1) * FrameLen + q
    <3>1. k = m * FrameLen + q
      BY <1>1, <2>2
    <3>2. ~ (k <= Len(rx)) /\ tail + (k - Len(rx)) - 1 = tail + used + (q - 1)
      <4> HIDE DEF k, m
      <4>1. k = Len(rx) + used + q
        BY <1>1, <1>3, <1>4, <3>1
      <4> QED BY <1>1, <4>1
    <3>3. (head + (q - 1)) % Cap = (tail + used + (q - 1)) % Cap
      BY <1>1, SameSlot, q - 1 \in Int, 0 \in 0 .. IdxMod - 1 DEF used
    <3>4. head + (q - 1) = head + q - 1
      BY <1>1
    <3>5. UnderwayAt(rx, buf, tail, k) = <<f, q>>
      BY <3>2, <3>3, <3>4 DEF UnderwayAt
    <3>6. n + i = Len(cs) + 1
      BY <2>2
    <3> QED BY <1>2, <3>5, <3>6
  <2> QED BY <2>1, <2>2, <1>1
<1>6. Len(rx) + (used + FrameLen) = (Len(new) - n) * FrameLen
  <2>1. Len(rx) + (used + FrameLen) = (m + 1) * FrameLen
    <3> DEFINE y == m * FrameLen
               z == (m + 1) * FrameLen
    <3>1. Len(rx) + used = y /\ z = y + FrameLen /\ y \in Nat
      BY <1>3, <1>4
    <3> HIDE DEF y, z, m
    <3>2. Len(rx) + (used + FrameLen) = z
      BY SMTT(30), <1>1, <3>1
    <3> QED BY <3>2 DEF z
  <2> QED BY <1>2, <2>1
<1> QED
  BY <1>2, <1>5, <1>6 DEF Carries, used, new

\* The stream as the handled frames and the underway ones.
LEMMA CarriesFifo ==
  ASSUME NEW rx, NEW buf, NEW tail, NEW used, NEW cs, NEW ts, Streams(rx, buf, tail, used, cs, ts)
  PROVE  /\ Len(rx \o Taken(buf, tail, used)) % FrameLen = 0
         /\ ts \o FramesOf(rx \o Taken(buf, tail, used)) = cs
<1>0. /\ rx \in Seq(Cells) /\ buf \in [Slots -> Cells] /\ tail \in Indices /\ used \in Nat
      /\ cs \in Seq(Nat) /\ ts \in Seq(Nat)
      /\ Len(ts) <= Len(cs) /\ \A i \in 1 .. Len(ts) : ts[i] = cs[i]
      /\ Carries(rx, buf, tail, used, cs, Len(ts))
  BY DEF Streams
<1> USE <1>0
<1> DEFINE run == Taken(buf, tail, used)
           underway == rx \o run
           n == Len(ts)
           m == Len(cs) - n
<1>1. /\ FrameLen \in Nat \ {0} /\ Cap \in Nat \ {0} /\ tail \in Nat /\ m \in Nat /\ n \in 0 .. Len(cs)
  BY CapAssumption, IdxModAssumption, FrameLenAssumption DEF Indices
<1>2. run \in Seq(Cells) /\ Len(run) = used /\ \A j \in 1 .. used : run[j] = buf[(tail + j - 1) % Cap]
  BY <1>1, RunCells
<1> HIDE DEF run
<1>3. /\ underway \in Seq(Cells) /\ Len(underway) = Len(rx) + used
      /\ \A j \in 1 .. Len(rx) : underway[j] = rx[j]
      /\ \A j \in 1 .. used : underway[Len(rx) + j] = run[j]
  BY <1>2, Joined
<1>4. Len(underway) = m * FrameLen
  BY <1>3 DEF Carries
<1> HIDE DEF underway
<1>5. Len(underway) % FrameLen = 0 /\ Len(underway) \div FrameLen = m
  <2> DEFINE x == Len(underway)
             d == x \div FrameLen
  <2>1. x = m * FrameLen
    BY <1>4
  <2>2. x \in Nat
    BY <1>3
  <2> HIDE DEF x, m
  <2>3. x = FrameLen * m + 0
    BY <1>1, <2>1, <2>2
  <2>4. x = FrameLen * d + (x % FrameLen) /\ d \in Int
    BY <1>1, <2>2
  <2>5. x % FrameLen = 0
    <3>1. FrameLen \in Nat \ {0} /\ m \in Int /\ 0 \in 0 .. FrameLen - 1 /\ x \in Int
      BY <1>1, <2>2
    <3> QED BY ONLY <2>3, <3>1, Remainder
  <2> HIDE DEF d
  <2>6. FrameLen * (d - m) = 0
    <3> DEFINE y == FrameLen * d
               z == FrameLen * m
    <3>1. FrameLen * (d - m) = y - z /\ y \in Int /\ z \in Int
      BY <1>1, <2>4, Multiples
    <3>2. x = y /\ x = z
      <4>1. x = y + 0 /\ x = z + 0
        BY <2>3, <2>4, <2>5
      <4> HIDE DEF y, z
      <4> QED BY <3>1, <4>1
    <3> HIDE DEF y, z
    <3> QED BY <3>1, <3>2
  <2>7. d = m
    BY <1>1, <2>4, <2>6
  <2> QED BY <2>5, <2>7 DEF x, d
<1>6. ASSUME NEW i \in 1 .. m PROVE underway[i * FrameLen] = <<cs[n + i], FrameLen>>
  <2> DEFINE k == (i - 1) * FrameLen + FrameLen
  <2>1. FrameLen \in 1 .. FrameLen
    BY <1>1
  <2>2. k \in Nat \ {0} /\ i * FrameLen = k /\ i * FrameLen <= m * FrameLen
    BY <1>1, <2>1, i \in Nat \ {0}, i <= m, Positions
  <2>3. UnderwayAt(rx, buf, tail, k) = <<cs[n + i], FrameLen>>
    BY <2>1 DEF Carries
  <2> HIDE DEF k
  <2>4. underway[k] = UnderwayAt(rx, buf, tail, k)
    <3>1. CASE k <= Len(rx)
      BY <1>3, <2>2, <3>1 DEF UnderwayAt
    <3>2. CASE ~ (k <= Len(rx))
      <4>1. k - Len(rx) \in 1 .. used /\ k = Len(rx) + (k - Len(rx))
        BY <1>3, <1>4, <2>2, <3>2
      <4> QED BY <1>2, <1>3, <3>2, <4>1 DEF UnderwayAt
    <3> QED BY <3>1, <3>2
  <2> QED BY <2>2, <2>3, <2>4
<1> DEFINE heads == [i \in 1 .. m |-> underway[i * FrameLen][1]]
<1>7. \A i \in 1 .. m : heads[i] = cs[n + i]
  BY <1>6
<1>8. \A i \in 1 .. m : n + i \in 1 .. Len(cs) /\ cs[n + i] \in Nat
  BY <1>1
<1>9. heads \in Seq(Nat) /\ Len(heads) = m
  <2>1. \A i \in 1 .. m : heads[i] \in Nat
    BY <1>7, <1>8
  <2> QED BY <1>1, <2>1
<1> HIDE DEF heads
<1>10. ts \o heads = cs
  <2>1. ts \o heads \in Seq(Nat) /\ Len(ts \o heads) = Len(cs)
    BY <1>1, <1>9
  <2>2. ASSUME NEW i \in 1 .. Len(cs) PROVE (ts \o heads)[i] = cs[i]
    <3>1. CASE i <= n
      BY <1>9, <3>1
    <3>2. CASE ~ (i <= n)
      <4>1. i - n \in 1 .. m /\ n + (i - n) = i
        BY <1>1, <3>2
      <4>2. (ts \o heads)[i] = heads[i - n]
        BY <1>9, <3>2, <4>1
      <4> QED BY <1>7, <4>1, <4>2
    <3> QED BY <3>1, <3>2
  <2> QED BY <2>1, <2>2, SeqEqual
<1> QED
  BY <1>5, <1>10 DEF FramesOf, heads, underway, run


-----------------------------------------------------------------------------
(* The stream through the steps of both sides. *)

\* The port closed, and the header as it was.
LEMMA ClosedKeeps ==
  ASSUME DataShape, FlushedInv, Closed, UNCHANGED <<header, board, reg>>, asked' = asked
  PROVE  DataShape' /\ PortPhases' /\ FlushedInv'
<1>1. UNCHANGED <<epoch, ack, idx, ring, fw, last, fwRx, reg>>
  BY DEF header, board
<1> QED
  BY <1>1 DEF Closed, NoSession, DataShape, PortPhases, FlushedInv

\* What Frame and Placed put into a ring are cells.
LEMMA PlacedType ==
  ASSUME NEW S, NEW buf \in [Slots -> S \X Nat], NEW at \in Int, NEW f \in S, NEW n \in Nat, n <= FrameLen
  PROVE  Placed(buf, at, SubSeq(Frame(f), 1, n)) \in [Slots -> S \X Nat]
<1> DEFINE cells == SubSeq(Frame(f), 1, n)
<1>1. FrameLen \in Nat
  BY FrameLenAssumption, CapAssumption
<1>2. Frame(f) \in Seq(S \X Nat) /\ Len(Frame(f)) = FrameLen
  BY <1>1 DEF Frame
<1>3. cells \in Seq(S \X Nat) /\ Len(cells) = n
  BY <1>1, <1>2
<1>4. ASSUME NEW s \in Slots
      PROVE  (LET k == (s - at) % Cap IN IF k < Len(cells) THEN cells[k + 1] ELSE buf[s]) \in S \X Nat
  <2> DEFINE k == (s - at) % Cap
  <2>1. k \in Nat
    BY CapAssumption DEF Slots
  <2> HIDE DEF k, cells
  <2>2. k < Len(cells) => cells[k + 1] \in S \X Nat
    BY <1>3, <2>1
  <2>3. (IF k < Len(cells) THEN cells[k + 1] ELSE buf[s]) \in S \X Nat
    BY <2>2
  <2> QED BY <2>3 DEF k
<1> QED
  BY <1>4 DEF Placed

\* The types of the data and the phases of the port.
LEMMA PortStep ==
  ASSUME FifoInv, Next
  PROVE  DataShape' /\ PortPhases' /\ FlushedInv'
<1> USE DEF FifoInv, HandshakeInv, TypeOK, WatchBehind, BumpAhead, DataShape, PortPhases, FlushedInv
<1>1. CASE Reset BY <1>1 DEF Reset, header, bridge
<1>2. CASE InitHeader BY <1>2 DEF InitHeader, bridge, ZeroIdx
<1>3. CASE StartWatch BY <1>3 DEF StartWatch, header, bridge, history
<1>4. CASE PollEpoch BY <1>4 DEF PollEpoch, bridge, history
<1>5. CASE AckEpoch BY <1>5 DEF AckEpoch, bridge, history
<1>6. CASE PullChunk
  <2>1. idx.h2tHead # idx.h2tTail
    <3>1. Lesser(Pull, Used(idx.h2tHead, idx.h2tTail)) > 0
      BY <1>6 DEF PullChunk
    <3>2. idx.h2tHead \in Indices /\ idx.h2tTail \in Indices
      OBVIOUS
    <3>3. Lesser(Pull, 0) = 0
      BY IndexTypes DEF Lesser
    <3> QED BY <3>1, <3>2, <3>3, Distance
  <2>2. fw = "drain" /\ ring' = ring
        /\ UNCHANGED <<epoch, ack, fw, last, st, br, queue, reg, asked, committed>>
    BY <1>6 DEF PullChunk, bridge, history
  <2>3. QED BY <2>1, <2>2
<1>7. CASE Handle
  <2>1. fwRx # <<>>
    BY <1>7, HuntedEmpty, IndexTypes, FrameLenAssumption DEF Handle, HasFrame
  <2>2. /\ fw = "drain" /\ fw' \in {"commit", "poll", "drain"}
        /\ UNCHANGED <<epoch, ack, idx, last, st, br, queue, reg, asked, committed>>
    BY <1>7, Zenon DEF Handle, bridge
  <2>3. DOMAIN ring' = DOMAIN ring /\ ring'.h2t = ring.h2t
    BY <1>7 DEF Handle
  <2>4. QED BY <2>1, <2>2, <2>3
<1>8. CASE CommitAnswer BY <1>8 DEF CommitAnswer, bridge, history
<1>9. CASE PassEnds BY <1>9, HuntedEmpty DEF PassEnds, header, bridge, history
<1>10. CASE AttachReadEpoch BY <1>10 DEF AttachReadEpoch, header, board, history
<1>11. CASE AttachBump BY <1>11 DEF AttachBump, board, history
<1>12. CASE AttachReadHead BY <1>12 DEF AttachReadHead, header, board, history
<1>13. CASE AttachDiscard BY <1>13 DEF AttachDiscard, board, history
<1>14. CASE AttachDone BY <1>14 DEF AttachDone, header, board
<1>15. CASE Acked BY <1>15 DEF Acked, header, board
<1>16. CASE AckTimeout BY <1>16, ClosedKeeps DEF AckTimeout, history
<1>17. CASE Send
  <2>1. asked + 1 \in Nat
    OBVIOUS
  <2>2. Queued(asked + 1) \in Seq(Nat)
    BY SMTT(30), <2>1 DEF Queued
  <2>3. QED BY <1>17, <2>1, <2>2 DEF Send, header, board
<1>18. CASE HeaderCheck BY <1>18, ClosedKeeps DEF HeaderCheck, history
<1>19. CASE WriteCheckSession
  <2>1. CASE Closed BY <1>19, <2>1, ClosedKeeps DEF WriteCheckSession, history
  <2>2. CASE ~ Closed BY <1>19, <2>2 DEF WriteCheckSession, header, board, history
  <2>3. QED BY <2>1, <2>2
<1>20. CASE WriteCheckFree BY <1>20 DEF WriteCheckFree, header, board, history
<1>21. CASE ProduceReadHead
  <2>1. CASE Closed /\ UNCHANGED reg BY <1>21, <2>1, ClosedKeeps DEF ProduceReadHead, history
  <2>2. CASE ~ (Closed /\ UNCHANGED reg) BY <1>21, <2>2 DEF ProduceReadHead, header, board, history
  <2>3. QED BY <2>1, <2>2
<1>22. CASE ProduceReadTail
  <2>1. reg'.n <= FrameLen
    <3> DEFINE free == Free(reg.head, idx.h2tTail)
    <3>1. free \in Nat
      BY IndexTypes
    <3>2. reg'.n = Lesser(FrameLen, free)
      BY <1>22 DEF ProduceReadTail
    <3> HIDE DEF free
    <3> QED BY <3>1, <3>2, IndexTypes DEF Lesser
  <2>2. QED BY <1>22, <2>1 DEF ProduceReadTail, header, board, history
<1>23. CASE ProducePayload
  <2>1. Head(queue) \in Nat
    BY <1>23 DEF ProducePayload
  <2>2. Placed(ring.h2t, reg.head, SubSeq(Frame(Head(queue)), 1, reg.n)) \in [Slots -> Cells]
    <3>1. reg.head \in Int /\ reg.n \in Nat /\ reg.n <= FrameLen /\ ring.h2t \in [Slots -> Cells]
      BY <1>23, IndexTypes DEF ProducePayload
    <3> QED BY ONLY <2>1, <3>1, PlacedType DEF Cells
  <2>3. DOMAIN ring' = DOMAIN ring /\ ring'.h2t \in [Slots -> Cells]
    BY <1>23, <2>2 DEF ProducePayload
  <2>4. /\ br = "payload" /\ br' = "commit"
        /\ UNCHANGED <<epoch, ack, idx, fw, last, fwRx, st, queue, asked, committed>>
    BY <1>23 DEF ProducePayload, board, history
  <2>5. QED BY <2>3, <2>4
<1>24. CASE ProduceCommit
  <2>1. queue' \in Seq(Nat)
    <3>1. queue' = Tail(queue) \/ queue' = queue
      BY <1>24 DEF ProduceCommit
    <3>2. queue \in Seq(Nat) /\ queue # <<>>
      BY <1>24 DEF ProduceCommit
    <3> QED BY ONLY <3>1, <3>2
  <2>2. /\ br = "commit" /\ br' = "idle"
        /\ UNCHANGED <<epoch, ack, ring, fw, last, fwRx, st, reg, asked>>
    BY <1>24 DEF ProduceCommit, board
  <2>3. QED BY <2>1, <2>2
<1>25. CASE ConsumeRead BY <1>25 DEF ConsumeRead, header, board, history
<1>26. CASE ConsumeCells BY <1>26 DEF ConsumeCells, header, board, history
<1>27. CASE ConsumeRelease BY <1>27 DEF ConsumeRelease, board, history
<1>28. CASE Deliver BY <1>28 DEF Deliver, header, board
<1>29. CASE Lose BY <1>29, ClosedKeeps DEF Lose
<1>30. CASE Pause BY <1>30 DEF Pause, header, board
<1>31. CASE Resume BY <1>31 DEF Resume, header, board, history
<1>32. QED
  BY <1>1, <1>2, <1>3, <1>4, <1>5, <1>6, <1>7, <1>8, <1>9, <1>10, <1>11, <1>12, <1>13, <1>14, <1>15, <1>16, <1>17, <1>18, <1>19, <1>20, <1>21, <1>22, <1>23, <1>24, <1>25, <1>26, <1>27, <1>28, <1>29, <1>30, <1>31
     DEF Next, Board, Attach, Service

\* A step that leaves the stream alone, and moves the port no further than it may.
LEMMA StreamKept ==
  ASSUME ProduceInv, StreamInv,
         idx'.h2tHead = idx.h2tHead, idx'.h2tTail = idx.h2tTail, ring'.h2t = ring.h2t,
         UNCHANGED <<fwRx, committed, taken>>,
         (br' = br /\ UNCHANGED <<reg, queue>>) \/ br' \notin {"head", "tail", "payload", "commit"}
  PROVE  ProduceInv' /\ StreamInv'
BY DEF ProduceInv, StreamInv, Pending

\* The ring of such a session, as the lemmas about it take it.
LEMMA SessionRing ==
  ASSUME TypeOK, StreamInv
  PROVE  /\ idx.h2tHead \in Indices /\ idx.h2tTail \in Indices
         /\ DOMAIN idx = {"h2tHead", "h2tTail", "t2hHead", "t2hTail"}
         /\ Pending \in Nat /\ Pending <= Cap /\ Pending < IdxMod
         /\ Pending = Used(idx.h2tHead, idx.h2tTail)
<1>1. idx.h2tHead \in Indices /\ idx.h2tTail \in Indices
      /\ DOMAIN idx = {"h2tHead", "h2tTail", "t2hHead", "t2hTail"}
  BY DEF TypeOK
<1>2. Pending \in 0 .. IdxMod - 1 /\ IdxMod \in Nat
  BY <1>1, Distance, IdxModAssumption DEF Pending
<1>3. Pending <= Cap
  BY DEF StreamInv
<1> QED
  BY <1>1, <1>2, <1>3 DEF Pending

\* A session that is up stays whole under every step of the board.
LEMMA BoardStream ==
  ASSUME FifoInv, InSession, Board, intact'
  PROVE  ProduceInv' /\ StreamInv'
<1> USE DEF FifoInv, InSession
<1>1. /\ st = "up" /\ intact /\ ProduceInv /\ StreamInv /\ TypeOK /\ CaughtUp
      /\ DOMAIN ring = {"h2t", "t2h"} /\ ring.h2t \in [Slots -> Cells]
      /\ idx.h2tHead \in Indices /\ idx.h2tTail \in Indices
      /\ DOMAIN idx = {"h2tHead", "h2tTail", "t2hHead", "t2hTail"}
  BY DEF HandshakeInv, TypeOK, DataShape
<1>2. /\ Pending \in Nat /\ Pending \in 0 .. Cap /\ Pending < IdxMod
      /\ Pending = Used(idx.h2tHead, idx.h2tTail)
  BY <1>1, SessionRing, CapAssumption
<1>3. fwRx \in Seq(Cells) /\ committed \in Seq(Nat) /\ taken \in Seq(Nat)
      /\ Len(taken) \in 0 .. Len(committed)
      /\ Carries(fwRx, ring.h2t, idx.h2tTail, Pending, committed, Len(taken))
  BY <1>1 DEF StreamInv
<1>4. Hunted(fwRx) = fwRx
  <2> DEFINE n == Len(taken)
             used == Pending
  <2>1. n \in 0 .. Len(committed) /\ used \in Nat
        /\ Carries(fwRx, ring.h2t, idx.h2tTail, used, committed, n)
    BY <1>2, <1>3
  <2> HIDE DEF n, used
  <2> QED BY <1>3, <2>1, StagedWhole
<1>5. CASE InitHeader
  BY <1>5 DEF InitHeader
<1>6. CASE StartWatch
  BY <1>1, <1>6, StreamKept DEF StartWatch, header, bridge, history
<1>7. CASE PollEpoch
  <2>1. last = epoch
    BY <1>1, <1>7 DEF PollEpoch, CaughtUp
  <2> QED BY <1>1, <1>7, <2>1, StreamKept DEF PollEpoch, bridge, history
<1>8. CASE AckEpoch
  BY <1>1, <1>8 DEF AckEpoch, CaughtUp
<1>9. CASE PullChunk
  <2> DEFINE n == Lesser(Pull, Used(idx.h2tHead, idx.h2tTail))
             run == Taken(ring.h2t, idx.h2tTail, n)
             tail == Plus(idx.h2tTail, n)
  <2>1. n \in 1 .. Pending
    <3>1. n > 0
      BY <1>9 DEF PullChunk
    <3> QED BY <1>2, <3>1, IndexTypes DEF Lesser
  <2>2. /\ fwRx' = fwRx \o run
        /\ idx' = [idx EXCEPT !.h2tTail = tail]
        /\ UNCHANGED <<ring, br, reg, queue, committed, taken>>
    BY <1>4, <1>9 DEF PullChunk, bridge, history
  <2>3. /\ fwRx \o run \in Seq(Cells)
        /\ Carries(fwRx \o run, ring.h2t, tail, Pending - n, committed, Len(taken))
    BY <1>1, <1>2, <1>3, <2>1, CarriesPull
  <2>4. Used(idx.h2tHead, tail) = Pending - n
    BY <1>1, <1>2, <2>1, Apart
  <2>5. idx'.h2tHead = idx.h2tHead /\ idx'.h2tTail = tail
    BY <1>1, <2>2
  <2> HIDE DEF n, run, tail
  <2>6. Pending' = Pending - n
    BY <2>4, <2>5 DEF Pending
  <2>a. Pending' \in Nat /\ Pending' <= Pending /\ Pending' <= Cap
    BY <1>2, <2>1, <2>6, CapAssumption
  <2>7. StreamInv'
    <3>1. fwRx' \in Seq(Cells) /\ committed' \in Seq(Nat) /\ taken' \in Seq(Nat)
          /\ Len(taken') <= Len(committed') /\ \A i \in 1 .. Len(taken') : taken'[i] = committed'[i]
      BY <1>1, <2>2, <2>3 DEF StreamInv
    <3>2. Carries(fwRx', ring'.h2t, idx'.h2tTail, Pending', committed', Len(taken'))
      BY <2>2, <2>3, <2>5, <2>6
    <3> QED BY <2>a, <3>1, <3>2 DEF StreamInv
  <2>8. ProduceInv'
    <3>1. Pending + FrameLen <= Cap => Pending' + FrameLen <= Cap
      <4> DEFINE new == Pending'
                 old == Pending
      <4>1. new \in Nat /\ new <= old /\ old \in Nat /\ FrameLen \in Nat /\ Cap \in Nat
        BY <1>2, <2>a, FrameLenAssumption, CapAssumption
      <4> HIDE DEF new, old
      <4>2. old + FrameLen <= Cap => new + FrameLen <= Cap
        BY <4>1
      <4> QED BY <4>2 DEF new, old
    <3> QED BY <1>1, <2>2, <2>5, <3>1 DEF ProduceInv
  <2> QED BY <2>7, <2>8
<1>10. CASE Handle
  <2>1. /\ HasFrame(fwRx)
        /\ fwRx' = AfterFrame(fwRx) /\ taken' = Append(taken, FirstFrame(fwRx))
        /\ UNCHANGED <<idx, br, reg, queue, committed>>
    BY <1>10 DEF Handle, bridge
  <2>2. ring'.h2t = ring.h2t
    BY <1>1, <1>10 DEF Handle
  <2>3. /\ Len(taken) < Len(committed) /\ FirstFrame(fwRx) = committed[Len(taken) + 1]
        /\ AfterFrame(fwRx) \in Seq(Cells)
        /\ Carries(AfterFrame(fwRx), ring.h2t, idx.h2tTail, Pending, committed, Len(taken) + 1)
    <3> DEFINE n == Len(taken)
               used == Pending
               buf == ring.h2t
               tail == idx.h2tTail
    <3>1. n \in 0 .. Len(committed) /\ used \in Nat /\ Carries(fwRx, buf, tail, used, committed, n)
      BY <1>2, <1>3
    <3>a. tail \in Int
      <4>1. idx.h2tTail \in Nat
        BY ONLY <1>1, IndexTypes
      <4>2. tail \in Nat
        BY ONLY <4>1
      <4> HIDE DEF tail
      <4> QED BY ONLY <4>2
    <3> HIDE DEF n, used, buf, tail
    <3>2. /\ n < Len(committed) /\ FirstFrame(fwRx) = committed[n + 1]
          /\ AfterFrame(fwRx) \in Seq(Cells)
          /\ Carries(AfterFrame(fwRx), buf, tail, used, committed, n + 1)
      BY <1>3, <2>1, <3>1, <3>a, CarriesTake
    <3> QED BY <3>2 DEF n, used, buf, tail
  <2>4. /\ taken' \in Seq(Nat) /\ Len(taken') = Len(taken) + 1
        /\ \A i \in 1 .. Len(taken') : taken'[i] = committed[i]
    <3>1. FirstFrame(fwRx) \in Nat
      BY <1>3, <2>3
    <3>2. \A i \in 1 .. Len(taken) : taken[i] = committed[i]
      BY <1>1 DEF StreamInv
    <3> QED BY <1>3, <2>1, <2>3, <3>1, <3>2
  <2>5. Pending' = Pending
    BY <2>1 DEF Pending
  <2>6. StreamInv'
    BY <1>1, <1>2, <1>3, <2>1, <2>2, <2>3, <2>4, <2>5 DEF StreamInv
  <2>7. ProduceInv'
    BY <1>1, <2>1, <2>2, <2>5 DEF ProduceInv
  <2> QED BY <2>6, <2>7
<1>11. CASE CommitAnswer
  BY <1>1, <1>11, StreamKept DEF CommitAnswer, bridge, history
<1>12. CASE PassEnds
  BY <1>1, <1>4, <1>12, StreamKept DEF PassEnds, header, bridge, history
<1> QED
  BY <1>5, <1>6, <1>7, <1>8, <1>9, <1>10, <1>11, <1>12 DEF Board

\* And under every step of a port that stays open.
LEMMA PortStream ==
  ASSUME FifoInv, InSession, Service \/ Send \/ Lose \/ Pause \/ Resume, st' = "up", Closed => FALSE
  PROVE  ProduceInv' /\ StreamInv'
<1> USE DEF FifoInv, InSession
<1>1. /\ st = "up" /\ intact /\ ProduceInv /\ StreamInv /\ TypeOK /\ PortPhases
      /\ DOMAIN ring = {"h2t", "t2h"} /\ ring.h2t \in [Slots -> Cells] /\ queue \in Seq(Nat)
      /\ idx.h2tHead \in Indices /\ idx.h2tTail \in Indices
      /\ DOMAIN idx = {"h2tHead", "h2tTail", "t2hHead", "t2hTail"}
      /\ DOMAIN reg = {"epoch", "head", "tail", "n", "cells"}
  BY DEF HandshakeInv, TypeOK, DataShape
<1>2. /\ Pending \in Nat /\ Pending \in 0 .. Cap /\ Pending < IdxMod
      /\ Pending = Used(idx.h2tHead, idx.h2tTail)
  BY <1>1, SessionRing, CapAssumption
<1>3. FrameLen \in Nat \ {0} /\ Cap \in Nat /\ IdxMod \in Nat /\ IdxMod >= 2 * Cap /\ Cap > 0
  BY CapAssumption, IdxModAssumption, FrameLenAssumption
<1>4. CASE Send
  BY <1>1, <1>4, StreamKept DEF Send, header, board
<1>5. CASE HeaderCheck
  BY <1>5 DEF HeaderCheck
<1>6. CASE WriteCheckSession
  BY <1>1, <1>6, StreamKept DEF WriteCheckSession, header, board, history
<1>7. CASE WriteCheckFree
  <2>1. CASE Free(idx.h2tHead, idx.h2tTail) < FrameLen
    BY <1>1, <1>7, <2>1, StreamKept DEF WriteCheckFree, header, board, history
  <2>2. CASE ~ (Free(idx.h2tHead, idx.h2tTail) < FrameLen)
    <3>1. Free(idx.h2tHead, idx.h2tTail) = Cap - Pending
      BY <1>1, <1>2, Apart, 0 \in Nat
    <3>2. Pending + FrameLen <= Cap
      BY <1>2, <1>3, <2>2, <3>1
    <3>3. br' = "head" /\ UNCHANGED <<idx, ring, fwRx, committed, taken>>
      BY <1>7, <2>2 DEF WriteCheckFree, header, board, history
    <3> QED BY <1>1, <3>2, <3>3 DEF ProduceInv, StreamInv, Pending
  <2> QED BY <2>1, <2>2
<1>8. CASE ProduceReadHead
  <2>1. /\ br = "head" /\ br' = "tail" /\ reg'.head = idx.h2tHead
        /\ UNCHANGED <<idx, ring, fwRx, committed, taken>>
    BY <1>1, <1>8 DEF ProduceReadHead, header, board, history
  <2> QED BY <1>1, <2>1 DEF ProduceInv, StreamInv, Pending
<1>9. CASE ProduceReadTail
  <2>1. /\ br = "tail" /\ br' = "payload" /\ reg'.head = reg.head
        /\ reg'.n = Lesser(FrameLen, Free(reg.head, idx.h2tTail))
        /\ UNCHANGED <<idx, ring, fwRx, committed, taken>>
    BY <1>1, <1>9 DEF ProduceReadTail, header, board, history
  <2>2. reg.head = idx.h2tHead /\ Pending + FrameLen <= Cap
    BY <1>1, <2>1 DEF ProduceInv
  <2>3. Free(idx.h2tHead, idx.h2tTail) = Cap - Pending
    BY <1>1, <1>2, Apart, 0 \in Nat
  <2>4. reg'.n = FrameLen
    BY <1>2, <1>3, <2>1, <2>2, <2>3 DEF Lesser
  <2> QED BY <1>1, <2>1, <2>2, <2>4 DEF ProduceInv, StreamInv, Pending
<1>10. CASE ProducePayload
  <2> DEFINE f == Head(queue)
             buf == Placed(ring.h2t, idx.h2tHead, Frame(f))
  <2>1. br = "payload" /\ queue # <<>>
    BY <1>1, <1>10 DEF ProducePayload, PortPhases
  <2>2. reg.head = idx.h2tHead /\ reg.n = FrameLen /\ Pending + FrameLen <= Cap
    BY <1>1, <2>1 DEF ProduceInv
  <2>3. f \in Nat
    BY <1>1, <2>1
  <2>4. Len(Frame(f)) = FrameLen /\ SubSeq(Frame(f), 1, FrameLen) = Frame(f)
        /\ \A q \in 1 .. FrameLen : Frame(f)[q] = <<f, q>>
    <3>1. Frame(f) \in Seq(Cells) /\ Len(Frame(f)) = FrameLen
      BY <1>3, <2>3 DEF Frame, Cells
    <3> QED BY <1>3, <3>1 DEF Frame
  <2>5. /\ br' = "commit" /\ ring'.h2t = buf
        /\ UNCHANGED <<idx, reg, queue, fwRx, committed, taken>>
    BY <1>1, <1>10, <2>2, <2>4 DEF ProducePayload, board, history
  <2>6. /\ Carries(fwRx, buf, idx.h2tTail, Pending, committed, Len(taken))
        /\ \A q \in 1 .. FrameLen : buf[(idx.h2tHead + q - 1) % Cap] = Frame(f)[q]
    <3>1. /\ fwRx \in Seq(Cells) /\ committed \in Seq(Nat) /\ Len(taken) \in 0 .. Len(committed)
          /\ Carries(fwRx, ring.h2t, idx.h2tTail, Pending, committed, Len(taken))
      BY <1>1 DEF StreamInv
    <3> DEFINE n == Len(taken)
               ahead == idx.h2tHead
               tail == idx.h2tTail
               old == ring.h2t
               cells == Frame(f)
    <3>2. /\ n \in 0 .. Len(committed) /\ Carries(fwRx, old, tail, Used(ahead, tail), committed, n)
          /\ ahead \in Indices /\ tail \in Indices /\ old \in [Slots -> Cells]
          /\ Len(cells) = FrameLen /\ Used(ahead, tail) + FrameLen <= Cap
      BY <1>1, <1>2, <2>2, <2>4, <3>1
    <3> HIDE DEF n, ahead, tail, old, cells
    <3>3. /\ Carries(fwRx, Placed(old, ahead, cells), tail, Used(ahead, tail), committed, n)
          /\ \A q \in 1 .. FrameLen : Placed(old, ahead, cells)[(ahead + q - 1) % Cap] = cells[q]
      BY <3>1, <3>2, CarriesPlaced, PlacedCells
    <3> QED BY <1>2, <3>3 DEF n, ahead, tail, old, cells
  <2> HIDE DEF buf, f
  <2>7. Pending' = Pending
    BY <2>5 DEF Pending
  <2>8. StreamInv'
    BY <1>1, <2>5, <2>6, <2>7 DEF StreamInv
  <2>9. ProduceInv'
    BY <2>2, <2>4, <2>5, <2>6, <2>7 DEF ProduceInv, f
  <2> QED BY <2>8, <2>9
<1>11. CASE ProduceCommit
  <2> DEFINE f == Head(queue)
             head == Plus(idx.h2tHead, FrameLen)
  <2>1. br = "commit" /\ queue # <<>>
    BY <1>1, <1>11 DEF ProduceCommit, PortPhases
  <2>2. /\ reg.head = idx.h2tHead /\ reg.n = FrameLen /\ Pending + FrameLen <= Cap
        /\ \A q \in 1 .. FrameLen : ring.h2t[(idx.h2tHead + q - 1) % Cap] = <<f, q>>
    BY <1>1, <2>1 DEF ProduceInv
  <2>3. f \in Nat
    BY <1>1, <2>1
  <2>4. /\ br' = "idle" /\ idx' = [idx EXCEPT !.h2tHead = head]
        /\ committed' = Append(committed, f) /\ UNCHANGED <<ring, fwRx, taken>>
    BY <1>11, <2>2 DEF ProduceCommit, board
  <2>5. idx'.h2tHead = head /\ idx'.h2tTail = idx.h2tTail
    BY <1>1, <2>4
  <2>6. Used(head, idx.h2tTail) = Pending + FrameLen
    BY <1>1, <1>2, <1>3, <2>2, Apart
  <2>7. /\ fwRx \in Seq(Cells) /\ committed \in Seq(Nat) /\ Len(taken) \in 0 .. Len(committed)
        /\ taken \in Seq(Nat) /\ \A i \in 1 .. Len(taken) : taken[i] = committed[i]
        /\ Carries(fwRx, ring.h2t, idx.h2tTail, Pending, committed, Len(taken))
    BY <1>1 DEF StreamInv
  <2>8. Carries(fwRx, ring.h2t, idx.h2tTail, Pending + FrameLen, Append(committed, f), Len(taken))
    BY <1>1, <1>2, <2>2, <2>3, <2>7, CarriesCommit
  <2> HIDE DEF f, head
  <2>9. Pending' = Pending + FrameLen
    BY <2>5, <2>6 DEF Pending
  <2>10. /\ committed' \in Seq(Nat) /\ Len(committed') = Len(committed) + 1
         /\ \A i \in 1 .. Len(taken) : taken[i] = committed'[i]
    BY <2>3, <2>4, <2>7
  <2>11. StreamInv'
    BY <2>2, <2>4, <2>5, <2>7, <2>8, <2>9, <2>10 DEF StreamInv
  <2>12. ProduceInv'
    BY <2>4 DEF ProduceInv
  <2> QED BY <2>11, <2>12
<1>12. CASE ConsumeRead
  BY <1>1, <1>12, StreamKept DEF ConsumeRead, header, board, history
<1>13. CASE ConsumeCells
  BY <1>1, <1>13, StreamKept DEF ConsumeCells, header, board, history
<1>14. CASE ConsumeRelease
  BY <1>1, <1>14, StreamKept DEF ConsumeRelease, board, history
<1>15. CASE Deliver
  BY <1>1, <1>15, StreamKept DEF Deliver, header, board
<1>16. CASE Lose
  BY <1>16 DEF Lose
<1>17. CASE Pause
  BY <1>1, <1>17, StreamKept DEF Pause, header, board
<1>18. CASE Resume
  BY <1>1, <1>18, StreamKept DEF Resume, header, board, history
<1> QED
  BY <1>4, <1>5, <1>6, <1>7, <1>8, <1>9, <1>10, <1>11, <1>12, <1>13, <1>14, <1>15, <1>16, <1>17, <1>18
     DEF Service

\* A session begins with nothing underway: the board has flushed and dropped all it had.
LEMMA AckedStream ==
  ASSUME FifoInv, Acked, intact'
  PROVE  ProduceInv' /\ StreamInv'
<1>1. /\ st = "attaching" /\ intact /\ TypeOK /\ br' = "idle" /\ taken' = <<>>
      /\ UNCHANGED <<idx, ring, fwRx, committed>>
  BY DEF Acked, header, board, FifoInv, HandshakeInv
<1>2. ack = epoch
  BY <1>1 DEF Acked, FifoInv, HandshakeInv, TypeOK, WatchBehind, BumpAhead
<1>3. idx.h2tHead = idx.h2tTail /\ fwRx = <<>> /\ committed = <<>>
  BY <1>1, <1>2 DEF FifoInv, FlushedInv, PortPhases
<1>4. Pending' = 0
  BY <1>1, <1>3, Distance DEF Pending, TypeOK
<1>5. Carries(<<>>, ring'.h2t, idx'.h2tTail, 0, <<>>, 0)
  BY FrameLenAssumption, CapAssumption DEF Carries
<1>6. StreamInv'
  BY <1>1, <1>3, <1>4, <1>5, CapAssumption DEF StreamInv
<1> QED
  BY <1>1, <1>6 DEF ProduceInv

\* A session that is up after a step was up before it, or has just come up.
LEMMA StreamStep ==
  ASSUME FifoInv, Next
  PROVE  InSession' => ProduceInv' /\ StreamInv'
<1> SUFFICES ASSUME st' = "up", intact' PROVE ProduceInv' /\ StreamInv'
  BY DEF InSession
<1>1. ~ Closed
  BY DEF Closed
<1>2. CASE Reset
  BY <1>2 DEF Reset
<1>3. CASE Board
  <2>1. InitHeader => ~ intact'
    BY DEF InitHeader
  <2>2. ~ InitHeader => UNCHANGED <<st, intact>>
    <3>1. ~ InitHeader => UNCHANGED bridge /\ intact' = intact
      BY <1>3 DEF Board, StartWatch, PollEpoch, AckEpoch, PullChunk, Handle, CommitAnswer, PassEnds, history
    <3> QED BY <3>1 DEF bridge
  <2> QED BY <1>3, <2>1, <2>2, BoardStream DEF InSession, FifoInv
<1>4. CASE Attach
  <2>1. CASE Acked
    BY <2>1, AckedStream
  <2>2. CASE AckTimeout
    BY <1>1, <2>2 DEF AckTimeout
  <2>3. CASE AttachReadEpoch \/ AttachBump \/ AttachReadHead \/ AttachDiscard \/ AttachDone
    BY <2>3 DEF AttachReadEpoch, AttachBump, AttachReadHead, AttachDiscard, AttachDone,
       FifoInv, HandshakeInv, BumpAhead
  <2> QED BY <1>4, <2>1, <2>2, <2>3 DEF Attach
<1>5. CASE Service \/ Send \/ Lose \/ Pause \/ Resume
  <2>1. st = "up"
    BY <1>1, <1>5 DEF Service, Send, Lose, Pause, Resume, HeaderCheck, WriteCheckSession, WriteCheckFree,
       ProduceReadHead, ProduceReadTail, ProducePayload, ProduceCommit, ConsumeRead, ConsumeCells,
       ConsumeRelease, Deliver
  <2>2. intact' = intact
    BY <1>5 DEF Service, Send, Lose, Pause, Resume, HeaderCheck, WriteCheckSession, WriteCheckFree,
       ProduceReadHead, ProduceReadTail, ProducePayload, ProduceCommit, ConsumeRead, ConsumeCells,
       ConsumeRelease, Deliver, history
  <2> QED BY <1>1, <1>5, <2>1, <2>2, PortStream DEF InSession, FifoInv
<1> QED
  BY <1>2, <1>3, <1>4, <1>5 DEF Next

\* The stream invariant holds at the start, and after every step.
LEMMA FifoInvStart ==
  ASSUME Init PROVE FifoInv
<1>1. HandshakeInv
  BY IndexTypes DEF Init, ZeroIdx, NoSession, HandshakeInv, TypeOK, WatchBehind, BumpAhead, CaughtUp
<1>2. ring.h2t \in [Slots -> Cells]
  BY DEF Init, Blank, Cells
<1> QED
  BY <1>1, <1>2 DEF Init, FifoInv, InSession, DataShape, PortPhases, FlushedInv

LEMMA FifoInvStep ==
  ASSUME FifoInv, [Next]_vars PROVE FifoInv'
<1>1. CASE Next
  <2>1. TypeOK /\ HandshakeInv
    BY DEF FifoInv, HandshakeInv
  <2>2. TypeOK'
    BY <1>1, <2>1, TypeStep
  <2>3. (WatchBehind /\ BumpAhead /\ CaughtUp)'
    BY <1>1, <2>1, HandshakeStep
  <2>4. DataShape' /\ PortPhases' /\ FlushedInv'
    BY <1>1, PortStep
  <2>5. InSession' => ProduceInv' /\ StreamInv'
    BY <1>1, StreamStep
  <2> QED BY ONLY <2>2, <2>3, <2>4, <2>5 DEF FifoInv, HandshakeInv
<1>2. CASE UNCHANGED vars
  <2>1. UNCHANGED <<epoch, ack, idx, ring, fw, last, fwRx, fwReg, st, br, sess, queue, reg,
                    asked, committed, taken, intact>>
    BY <1>2 DEF vars, header, board, bridge, history
  <2>2. HandshakeInv' = HandshakeInv
    BY <2>1 DEF HandshakeInv, TypeOK, WatchBehind, BumpAhead, CaughtUp
  <2>3. DataShape' /\ PortPhases' /\ FlushedInv'
    BY <2>1 DEF FifoInv, DataShape, PortPhases, FlushedInv
  <2>4. ProduceInv /\ StreamInv => ProduceInv' /\ StreamInv'
    <3>1. Pending' = Pending
      BY <2>1 DEF Pending
    <3>2. ProduceInv => ProduceInv'
      BY <2>1, <3>1 DEF ProduceInv
    <3>3. StreamInv => StreamInv'
      BY <2>1, <3>1 DEF StreamInv
    <3> QED BY <3>2, <3>3
  <2>5. InSession' = InSession
    BY <2>1 DEF InSession
  <2> QED BY <2>2, <2>3, <2>4, <2>5 DEF FifoInv
<1> QED
  BY <1>1, <1>2

\* So it holds always.
LEMMA FifoInvHolds == Spec => []FifoInv
<1>1. Init => FifoInv
  BY FifoInvStart
<1>2. FifoInv /\ [Next]_vars => FifoInv'
  BY FifoInvStep
<1> QED
  BY <1>1, <1>2, PTL DEF Spec

\* In a session on a board that stays up, the board handles exactly what was put in the ring,
\* in order, whatever size the chunks are cut to, however the accesses of the bridge fall
\* between its own and however often the indices wrap (Bridge::produce, the framer, drain).
THEOREM SessionIsFifoHolds == Spec => []SessionIsFifo
<1>1. FifoInv => SessionIsFifo
  <2> SUFFICES ASSUME FifoInv, InSession
               PROVE  LET underway == fwRx \o Taken(ring.h2t, idx.h2tTail, Pending)
                      IN  /\ Len(underway) % FrameLen = 0
                          /\ taken \o [i \in 1 .. Len(underway) \div FrameLen |-> underway[i * FrameLen][1]]
                               = committed
    BY DEF SessionIsFifo, InSession, Pending
  <2>1. StreamInv /\ TypeOK /\ ring.h2t \in [Slots -> Cells]
    BY DEF FifoInv, HandshakeInv, DataShape
  <2>2. Pending \in Nat /\ idx.h2tTail \in Indices
    BY <2>1, SessionRing
  <2> DEFINE used == Pending
             buf == ring.h2t
             tail == idx.h2tTail
  <2>3. used \in Nat /\ tail \in Indices /\ buf \in [Slots -> Cells]
    BY <2>1, <2>2
  <2>4. Streams(fwRx, buf, tail, used, committed, taken)
    BY <2>1, <2>3 DEF StreamInv, Streams
  <2> HIDE DEF used, buf, tail
  <2>5. /\ Len(fwRx \o Taken(buf, tail, used)) % FrameLen = 0
        /\ taken \o FramesOf(fwRx \o Taken(buf, tail, used)) = committed
    BY ONLY <2>4, CarriesFifo
  <2> QED BY <2>5 DEF FramesOf, used, buf, tail
<1> QED
  BY <1>1, FifoInvHolds, PTL

-----------------------------------------------------------------------------
(* The answers: what order they keep. *)

\* A set of naturals has a least element.
LEMMA Least ==
  ASSUME NEW T, T \subseteq Nat, T # {}
  PROVE  \E x \in T : \A y \in T : x <= y
<1>1. PICK x \in T : \A y \in T : ~ (<<y, x>> \in OpToRel(<, Nat))
  BY NatLessThanWellFounded, WFMin
<1>2. ASSUME NEW y \in T PROVE x <= y
  <2>1. ~ (y < x)
    BY <1>1 DEF OpToRel
  <2> QED BY <2>1
<1> QED
  BY <1>2

\* Hunting only drops cells at the front.
LEMMA HuntedType ==
  ASSUME NEW S, NEW rx \in Seq(S)
  PROVE  Hunted(rx) \in Seq(S) /\ Len(Hunted(rx)) <= Len(rx)
<1>1. CASE Starts(rx) = {}
  BY <1>1 DEF Hunted
<1>2. CASE Starts(rx) # {}
  <2> DEFINE c == CHOOSE i \in Starts(rx) : \A j \in Starts(rx) : i <= j
  <2>1. Starts(rx) \subseteq 1 .. Len(rx)
    BY DEF Starts
  <2>2. \E i \in Starts(rx) : \A j \in Starts(rx) : i <= j
    BY <1>2, <2>1, Least, 1 .. Len(rx) \subseteq Nat
  <2>3. c \in Starts(rx)
    BY <2>2
  <2> HIDE DEF c
  <2>4. c \in 1 .. Len(rx)
    BY <2>1, <2>3
  <2>5. SubSeq(rx, c, Len(rx)) \in Seq(S) /\ Len(SubSeq(rx, c, Len(rx))) <= Len(rx)
    BY <2>4
  <2> QED BY <1>2, <2>5 DEF Hunted, c
<1> QED
  BY <1>1, <1>2

\* What the bridge sees of the answers: entries w of a stream, to the requests cs in the ring,
\* the first n of them handled, and qs still to be sent.  Answers follow the order of the requests.
Ordered(w, cs, qs, n) ==
  /\ \A i \in DOMAIN w, k \in DOMAIN cs : w[i] = cs[k] => k <= n
  /\ \A i \in DOMAIN w, k \in DOMAIN qs : w[i] # qs[k]
  /\ \A i, j \in DOMAIN w : \A k, l \in DOMAIN cs : i < j /\ w[i] = cs[k] /\ w[j] = cs[l] => k < l

\* The frames committed and queued are different ones.
Unlike(cs, qs) ==
  /\ \A k, l \in DOMAIN cs : cs[k] = cs[l] => k = l
  /\ \A k \in DOMAIN cs, l \in DOMAIN qs : cs[k] # qs[l]

\* The board answers the next request.
LEMMA OrderedAnswer ==
  ASSUME NEW w \in Seq(Nat), NEW cs \in Seq(Nat), NEW qs \in Seq(Nat), NEW n \in Nat, n < Len(cs),
         Ordered(w, cs, qs, n), Unlike(cs, qs)
  PROVE  Ordered(Append(w, cs[n + 1]), cs, qs, n + 1)
<1> DEFINE f == cs[n + 1]
           v == Append(w, f)
<1>1. n + 1 \in DOMAIN cs /\ DOMAIN cs = 1 .. Len(cs) /\ f \in Nat
  OBVIOUS
<1>2. /\ DOMAIN v = 1 .. Len(w) + 1 /\ DOMAIN w = 1 .. Len(w) /\ v[Len(w) + 1] = f
      /\ \A i \in DOMAIN w : v[i] = w[i]
  BY <1>1
<1>3. \A k \in DOMAIN cs : cs[k] = f => k = n + 1
  BY <1>1 DEF Unlike
<1>4. \A k \in DOMAIN qs : f # qs[k]
  BY <1>1 DEF Unlike
<1> HIDE DEF f, v
<1>5. ASSUME NEW i \in DOMAIN v, NEW k \in DOMAIN cs, v[i] = cs[k] PROVE k <= n + 1
  <2>1. CASE i \in DOMAIN w
    <3>1. k <= n
      BY <1>2, <1>5, <2>1 DEF Ordered
    <3> QED BY <1>1, <3>1
  <2>2. CASE i \notin DOMAIN w
    <3>1. v[i] = f
      BY <1>2, <2>2
    <3>2. k = n + 1
      BY <1>3, <1>5, <3>1
    <3> QED BY <1>1, <3>2
  <2> QED BY <2>1, <2>2
<1>6. ASSUME NEW i \in DOMAIN v, NEW k \in DOMAIN qs PROVE v[i] # qs[k]
  <2>1. CASE i \in DOMAIN w
    <3>1. w[i] # qs[k]
      BY <2>1 DEF Ordered
    <3> QED BY <1>2, <2>1, <3>1
  <2>2. CASE i \notin DOMAIN w
    <3>1. v[i] = f
      BY <1>2, <2>2
    <3> QED BY <1>4, <3>1
  <2> QED BY <2>1, <2>2
<1>7. ASSUME NEW i \in DOMAIN v, NEW j \in DOMAIN v, NEW k \in DOMAIN cs, NEW l \in DOMAIN cs,
             i < j, v[i] = cs[k], v[j] = cs[l]
      PROVE  k < l
  <2>1. i \in DOMAIN w /\ w[i] = cs[k] /\ k <= n
    BY <1>2, <1>7 DEF Ordered
  <2>2. CASE j \in DOMAIN w
    BY <1>2, <1>7, <2>1, <2>2 DEF Ordered
  <2>3. CASE j \notin DOMAIN w
    <3>1. j = Len(w) + 1
      BY <1>2, <2>3
    <3>2. l = n + 1
      BY <1>2, <1>3, <1>7, <3>1
    <3> QED BY <1>1, <2>1, <3>2
  <2> QED BY <2>2, <2>3
<1> QED
  BY <1>5, <1>6, <1>7 DEF Ordered, f, v

\* A request goes into the ring: no answer to it is on its way.
LEMMA OrderedPut ==
  ASSUME NEW w \in Seq(Nat), NEW cs \in Seq(Nat), NEW qs \in Seq(Nat), NEW n \in Nat, qs # <<>>,
         Ordered(w, cs, qs, n)
  PROVE  Ordered(w, Append(cs, Head(qs)), Tail(qs), n)
<1> DEFINE f == Head(qs)
           ds == Append(cs, f)
           rs == Tail(qs)
<1>1. 1 \in DOMAIN qs /\ f = qs[1] /\ f \in Nat
  OBVIOUS
<1>2. \A i \in DOMAIN w : w[i] # f
  BY <1>1 DEF Ordered
<1>3. DOMAIN ds = DOMAIN cs \cup {Len(cs) + 1} /\ ds[Len(cs) + 1] = f /\ \A k \in DOMAIN cs : ds[k] = cs[k]
  BY <1>1
<1>4. \A k \in DOMAIN rs : k + 1 \in DOMAIN qs /\ rs[k] = qs[k + 1]
  OBVIOUS
<1> HIDE DEF f, ds, rs
<1>5. \A i \in DOMAIN w, k \in DOMAIN ds : w[i] = ds[k] => k \in DOMAIN cs /\ w[i] = cs[k]
  BY <1>2, <1>3
<1> QED
  BY <1>4, <1>5 DEF Ordered, f, ds, rs

\* More of the requests are handled.
LEMMA OrderedMore ==
  ASSUME NEW w \in Seq(Nat), NEW cs \in Seq(Nat), NEW qs, NEW n \in Nat, NEW m \in Nat, n <= m,
         Ordered(w, cs, qs, n)
  PROVE  Ordered(w, cs, qs, m)
<1>1. \A i \in DOMAIN w, k \in DOMAIN cs : w[i] = cs[k] => k <= m
  <2>1. DOMAIN cs \subseteq Nat
    OBVIOUS
  <2> QED BY <2>1 DEF Ordered
<1> QED
  BY <1>1 DEF Ordered

\* Other requests wait, none of them answered.
LEMMA OrderedQueue ==
  ASSUME NEW w, NEW cs, NEW qs, NEW rs, NEW n, Ordered(w, cs, qs, n),
         \A i \in DOMAIN w, k \in DOMAIN rs : w[i] # rs[k]
  PROVE  Ordered(w, cs, rs, n)
BY DEF Ordered

-----------------------------------------------------------------------------
(* Frames, requests and ports, in any session or none. *)

\* Every frame anywhere is one that the bridge was asked to send, or the blank.
Known == (0 .. asked) \X Nat

KnownInv ==
  /\ ring.h2t \in [Slots -> Known] /\ ring.t2h \in [Slots -> Known] /\ fwRx \in Seq(Known)
  /\ committed \in Seq(0 .. asked) /\ queue \in Seq(0 .. asked)

\* The requests of a session are different frames, and one drive frame at most waits.
RequestsInv ==
  /\ Unlike(committed, queue)
  /\ \A k, l \in DOMAIN queue : queue[k] = queue[l] => k = l
  /\ \A k, l \in DOMAIN queue : queue[k] \in Drive /\ queue[l] \in Drive => k = l

\* What a port that is not up has not got.
Emptied ==
  /\ st # "up" => queue = <<>>
  /\ st = "closed" => brRx = <<>>
  /\ st = "attaching" => got = <<>> /\ brRx = <<>> /\ br \in {"idle", "paused"}

\* Sequences over any set.
LEMMA SeqKinds ==
  ASSUME NEW S, NEW s \in Seq(S)
  PROVE  /\ <<>> \in Seq(S)
         /\ \A e \in S : Append(s, e) \in Seq(S)
         /\ s # <<>> => Head(s) \in S /\ Tail(s) \in Seq(S)
         /\ \A T : S \subseteq T => s \in Seq(T)
         /\ \A k \in DOMAIN s : s[k] \in S
OBVIOUS

\* The steps that write no frame anywhere but drop some.
LEMMA KnownKept ==
  ASSUME KnownInv, ring' = ring, asked' = asked, fwRx' \in {fwRx, <<>>, Hunted(fwRx)},
         committed' \in {committed, <<>>}, queue' \in {queue, <<>>}
  PROVE  KnownInv'
<1>1. fwRx' \in Seq(Known)
  <2>1. fwRx \in Seq(Known)
    BY DEF KnownInv
  <2>2. Hunted(fwRx) \in Seq(Known) /\ <<>> \in Seq(Known)
    BY ONLY <2>1, HuntedType, SeqKinds
  <2> QED BY <2>1, <2>2
<1>2. committed' \in Seq(0 .. asked) /\ queue' \in Seq(0 .. asked)
  <2>1. committed \in Seq(0 .. asked) /\ queue \in Seq(0 .. asked)
    BY DEF KnownInv
  <2>2. <<>> \in Seq(0 .. asked)
    BY ONLY <2>1, SeqKinds
  <2> QED BY <2>1, <2>2
<1>3. Known' = Known
  BY DEF Known
<1> QED
  BY <1>1, <1>2, <1>3 DEF KnownInv

\* A frame of the board's is one it was sent.
LEMMA KnownFrame ==
  ASSUME NEW S, NEW rx \in Seq(S \X Nat), HasFrame(rx)
  PROVE  FirstFrame(rx) \in S /\ AfterFrame(rx) \in Seq(S \X Nat)
<1> DEFINE h == Hunted(rx)
<1>1. h \in Seq(S \X Nat) /\ Len(h) >= FrameLen /\ FrameLen \in Nat \ {0}
  BY HuntedType, FrameLenAssumption, CapAssumption DEF HasFrame
<1> HIDE DEF h
<1>2. h[1] \in S \X Nat
  BY <1>1
<1>3. h[1][1] \in S
  BY <1>2
<1>4. SubSeq(h, FrameLen + 1, Len(h)) \in Seq(S \X Nat)
  BY <1>1
<1> QED
  BY <1>3, <1>4 DEF FirstFrame, AfterFrame, h

\* What a send leaves in the queue.
LEMMA QueuedType ==
  ASSUME NEW S, queue \in Seq(S), NEW f \in S PROVE Queued(f) \in Seq(S)
<1>1. Append(queue, f) \in Seq(S)
  BY SeqKinds
<1>2. [i \in DOMAIN queue |-> IF queue[i] \in Drive THEN f ELSE queue[i]] \in Seq(S)
  OBVIOUS
<1> QED
  BY <1>1, <1>2 DEF Queued

\* Every step puts only asked-for frames anywhere.
LEMMA KnownStep ==
  ASSUME FifoInv, KnownInv, Next PROVE KnownInv'
<1>1. /\ TypeOK /\ DOMAIN ring = {"h2t", "t2h"} /\ asked \in Nat /\ FrameLen \in Nat \ {0}
      /\ br = "payload" => reg.n <= FrameLen
      /\ br \in {"free", "head", "tail", "payload", "commit"} => queue # <<>>
  BY FrameLenAssumption, CapAssumption DEF FifoInv, HandshakeInv, DataShape, PortPhases
<1>2. CASE Reset \/ InitHeader \/ StartWatch \/ PollEpoch \/ AckEpoch \/ CommitAnswer \/ PassEnds
  <2>1. ring' = ring /\ asked' = asked /\ fwRx' \in {fwRx, <<>>, Hunted(fwRx)}
        /\ committed' = committed /\ queue' = queue
    BY <1>2 DEF Reset, InitHeader, StartWatch, PollEpoch, AckEpoch, CommitAnswer, PassEnds, header, bridge, history
  <2> QED BY <2>1, KnownKept
<1>3. CASE Attach
  <2>1. ring' = ring /\ asked' = asked /\ fwRx' = fwRx
        /\ committed' \in {committed, <<>>} /\ queue' \in {queue, <<>>}
    BY <1>3 DEF Attach, AttachReadEpoch, AttachBump, AttachReadHead, AttachDiscard, AttachDone,
       Acked, AckTimeout, Closed, header, board, history
  <2> QED BY <2>1, KnownKept
<1>4. CASE \/ HeaderCheck \/ WriteCheckSession \/ WriteCheckFree \/ ProduceReadHead \/ ProduceReadTail
           \/ ConsumeRead \/ ConsumeCells \/ ConsumeRelease \/ Deliver \/ Lose \/ Pause \/ Resume
  <2>1. ring' = ring /\ asked' = asked /\ fwRx' = fwRx /\ committed' = committed
        /\ queue' \in {queue, <<>>}
    BY <1>4 DEF HeaderCheck, WriteCheckSession, WriteCheckFree, ProduceReadHead, ProduceReadTail,
       ConsumeRead, ConsumeCells, ConsumeRelease, Deliver, Lose, Pause, Resume, Closed, header, board, history
  <2> QED BY <2>1, KnownKept
<1>5. CASE PullChunk
  <2> DEFINE n == Lesser(Pull, Used(idx.h2tHead, idx.h2tTail))
             run == Taken(ring.h2t, idx.h2tTail, n)
  <2>1. n \in Nat /\ idx.h2tTail \in Nat
    BY <1>1, IndexTypes DEF TypeOK
  <2>2. run \in Seq(Known)
    <3> HIDE DEF n
    <3>1. \A j \in 1 .. n : (idx.h2tTail + j - 1) % Cap \in Slots
      BY <2>1, CapAssumption DEF Slots
    <3>2. \A j \in 1 .. n : ring.h2t[(idx.h2tTail + j - 1) % Cap] \in Known
      BY <3>1 DEF KnownInv
    <3> QED BY <2>1, <3>2 DEF Taken
  <2>3. Hunted(fwRx) \in Seq(Known)
    BY HuntedType DEF KnownInv
  <2>4. fwRx' = Hunted(fwRx) \o run /\ UNCHANGED <<ring, asked, committed, queue>>
    BY <1>5 DEF PullChunk, bridge, history
  <2>5. fwRx' \in Seq(Known)
    <3> HIDE DEF run
    <3> QED BY <2>2, <2>3, <2>4
  <2> QED BY <2>4, <2>5 DEF KnownInv, Known
<1>6. CASE Handle
  <2> DEFINE f == FirstFrame(fwRx)
  <2>1. f \in 0 .. asked /\ AfterFrame(fwRx) \in Seq(Known)
    BY <1>6, KnownFrame DEF Handle, KnownInv, Known
  <2>2. Placed(ring.t2h, idx.t2hHead, Frame(f)) \in [Slots -> Known]
    <3>1. SubSeq(Frame(f), 1, FrameLen) = Frame(f)
      <4>1. Frame(f) \in Seq((0 .. asked) \X Nat) /\ Len(Frame(f)) = FrameLen
        BY <1>1, <2>1 DEF Frame
      <4> QED BY <4>1
    <3>2. idx.t2hHead \in Int /\ ring.t2h \in [Slots -> (0 .. asked) \X Nat]
      <4>1. idx.t2hHead \in Indices
        BY <1>1 DEF TypeOK
      <4>2. idx.t2hHead \in Nat
        BY ONLY <4>1, IndexTypes
      <4> QED BY <4>2 DEF KnownInv, Known
    <3>3. Placed(ring.t2h, idx.t2hHead, SubSeq(Frame(f), 1, FrameLen)) \in [Slots -> (0 .. asked) \X Nat]
      <4> DEFINE S == 0 .. asked
      <4>1. f \in S /\ ring.t2h \in [Slots -> S \X Nat] /\ idx.t2hHead \in Int
            /\ FrameLen \in Nat /\ FrameLen <= FrameLen
        BY <1>1, <2>1, <3>2
      <4> HIDE DEF S, f
      <4>2. Placed(ring.t2h, idx.t2hHead, SubSeq(Frame(f), 1, FrameLen)) \in [Slots -> S \X Nat]
        BY ONLY <4>1, PlacedType
      <4> QED BY <4>2 DEF S
    <3> QED BY <3>1, <3>3 DEF Known
  <2> HIDE DEF f
  <2>3. ring'.h2t = ring.h2t /\ ring'.t2h \in {ring.t2h, Placed(ring.t2h, idx.t2hHead, Frame(f))}
    BY <1>1, <1>6 DEF Handle, f
  <2>4. fwRx' = AfterFrame(fwRx) /\ UNCHANGED <<asked, committed, queue>>
    BY <1>6 DEF Handle, bridge
  <2> QED BY <2>1, <2>2, <2>3, <2>4 DEF KnownInv, Known
<1>7. CASE Send
  <2> DEFINE f == asked + 1
  <2>1. 0 .. asked \subseteq 0 .. f /\ f \in 0 .. f
    BY <1>1
  <2>2. asked' = f /\ queue' = Queued(f) /\ UNCHANGED <<ring, fwRx, committed>>
    BY <1>7 DEF Send, header, board
  <2>3. queue \in Seq(0 .. f) /\ committed \in Seq(0 .. f)
    <3>1. queue \in Seq(0 .. asked) /\ committed \in Seq(0 .. asked)
      BY DEF KnownInv
    <3> QED BY ONLY <2>1, <3>1, SeqKinds
  <2> HIDE DEF f
  <2>4. Queued(f) \in Seq(0 .. f)
    BY <2>1, <2>3, QueuedType
  <2>5. Known \subseteq Known'
    BY <2>1, <2>2 DEF Known
  <2>6. ring.h2t \in [Slots -> Known'] /\ ring.t2h \in [Slots -> Known'] /\ fwRx \in Seq(Known')
    BY <2>5 DEF KnownInv
  <2> QED BY <2>2, <2>3, <2>4, <2>6 DEF KnownInv
<1>8. CASE ProducePayload
  <2>1. Head(queue) \in 0 .. asked
    BY <1>1, <1>8 DEF ProducePayload, KnownInv
  <2>2. reg.head \in Int /\ reg.n \in Nat /\ reg.n <= FrameLen /\ ring.h2t \in [Slots -> (0 .. asked) \X Nat]
    BY <1>1, <1>8, IndexTypes DEF ProducePayload, TypeOK, KnownInv, Known
  <2>3. Placed(ring.h2t, reg.head, SubSeq(Frame(Head(queue)), 1, reg.n)) \in [Slots -> (0 .. asked) \X Nat]
    BY ONLY <2>1, <2>2, PlacedType
  <2>4. /\ ring'.h2t = Placed(ring.h2t, reg.head, SubSeq(Frame(Head(queue)), 1, reg.n))
        /\ ring'.t2h = ring.t2h /\ UNCHANGED <<fwRx, asked, committed, queue>>
    BY <1>1, <1>8 DEF ProducePayload, board, history
  <2> QED BY <2>3, <2>4 DEF KnownInv, Known
<1>9. CASE ProduceCommit
  <2>1. queue # <<>> /\ queue \in Seq(0 .. asked) /\ committed \in Seq(0 .. asked)
    BY <1>1, <1>9 DEF ProduceCommit, KnownInv
  <2>2. \/ queue' = Tail(queue) /\ committed' = Append(committed, Head(queue))
        \/ queue' = queue /\ committed' = committed
    BY <1>9 DEF ProduceCommit
  <2>3. queue' \in Seq(0 .. asked) /\ committed' \in Seq(0 .. asked)
    BY ONLY <2>1, <2>2, SeqKinds
  <2>4. UNCHANGED <<ring, fwRx, asked>>
    BY <1>9 DEF ProduceCommit, board
  <2> QED BY <2>3, <2>4 DEF KnownInv, Known
<1> QED
  BY <1>2, <1>3, <1>4, <1>5, <1>6, <1>7, <1>8, <1>9 DEF Next, Board, Service

\* Every step leaves a port that is not up empty.
LEMMA EmptiedStep ==
  ASSUME FifoInv, Emptied, Next PROVE Emptied'
<1>1. /\ br \in {"bump", "readHead", "discard", "expect"} => st = "closed"
      /\ br \in {"free", "head", "tail", "payload", "commit", "cells", "release"} => st = "up"
  BY DEF FifoInv, HandshakeInv, BumpAhead, PortPhases
<1>2. CASE Closed /\ got' = got
  BY <1>2 DEF Closed, Emptied
<1>3. CASE Reset \/ Board
  <2>1. UNCHANGED bridge /\ got' = got
    BY <1>3 DEF Reset, Board, InitHeader, StartWatch, PollEpoch, AckEpoch, PullChunk, Handle, CommitAnswer,
       PassEnds, history
  <2> QED BY <2>1 DEF Emptied, bridge
<1>4. CASE Attach
  BY <1>1, <1>2, <1>4 DEF Attach, AttachReadEpoch, AttachBump, AttachReadHead, AttachDiscard, AttachDone,
     Acked, AckTimeout, Emptied, history
<1>5. CASE Service \/ Send
  BY <1>1, <1>2, <1>5 DEF Service, Send, HeaderCheck, WriteCheckSession, WriteCheckFree, ProduceReadHead,
     ProduceReadTail, ProducePayload, ProduceCommit, ConsumeRead, ConsumeCells, ConsumeRelease, Deliver,
     Emptied, history
<1>6. CASE Lose \/ Pause \/ Resume
  BY <1>1, <1>2, <1>6 DEF Lose, Pause, Resume, Emptied, history
<1> QED
  BY <1>3, <1>4, <1>5, <1>6 DEF Next

\* The steps that put no request anywhere but drop some.
LEMMA RequestsKept ==
  ASSUME RequestsInv, committed' \in {committed, <<>>}, queue' \in {queue, <<>>}
  PROVE  RequestsInv'
BY DEF RequestsInv, Unlike

\* Every step keeps the requests of a session different.
LEMMA RequestsStep ==
  ASSUME FifoInv, KnownInv, RequestsInv, Next PROVE RequestsInv'
<1>0. asked \in Nat /\ (br = "commit" => queue # <<>>)
  BY DEF FifoInv, DataShape, PortPhases
<1>1. committed \in Seq(0 .. asked) /\ queue \in Seq(0 .. asked)
  BY DEF KnownInv
<1>2. CASE Reset \/ Board
  <2>1. UNCHANGED <<committed, queue>>
    BY <1>2 DEF Reset, Board, InitHeader, StartWatch, PollEpoch, AckEpoch, PullChunk, Handle, CommitAnswer,
       PassEnds, bridge, history
  <2> QED BY <2>1, RequestsKept
<1>3. CASE Attach
  <2>1. committed' \in {committed, <<>>} /\ queue' \in {queue, <<>>}
    BY <1>3 DEF Attach, AttachReadEpoch, AttachBump, AttachReadHead, AttachDiscard, AttachDone,
       Acked, AckTimeout, Closed, history
  <2> QED BY <2>1, RequestsKept
<1>4. CASE \/ HeaderCheck \/ WriteCheckSession \/ WriteCheckFree \/ ProduceReadHead \/ ProduceReadTail
           \/ ProducePayload \/ ConsumeRead \/ ConsumeCells \/ ConsumeRelease \/ Deliver
           \/ Lose \/ Pause \/ Resume
  <2>1. committed' = committed /\ queue' \in {queue, <<>>}
    BY <1>4 DEF HeaderCheck, WriteCheckSession, WriteCheckFree, ProduceReadHead, ProduceReadTail,
       ProducePayload, ConsumeRead, ConsumeCells, ConsumeRelease, Deliver, Lose, Pause, Resume, Closed, history
  <2> QED BY <2>1, RequestsKept
<1>5. CASE Send
  <2> DEFINE f == asked + 1
             new == Queued(f)
  <2>1. queue' = new /\ committed' = committed
    BY <1>5 DEF Send
  <2>2. /\ \A k \in DOMAIN committed : committed[k] # f
        /\ \A k \in DOMAIN queue : queue[k] # f
    <3>1. f \notin 0 .. asked
      BY <1>0
    <3> HIDE DEF f
    <3>2. /\ \A k \in DOMAIN committed : committed[k] \in 0 .. asked
          /\ \A k \in DOMAIN queue : queue[k] \in 0 .. asked
      BY ONLY <1>1, SeqKinds
    <3> QED BY ONLY <3>1, <3>2
  <2> HIDE DEF f
  <2>3. CASE f \in Drive /\ \E i \in DOMAIN queue : queue[i] \in Drive
    <3>1. new = [i \in DOMAIN queue |-> IF queue[i] \in Drive THEN f ELSE queue[i]]
      BY <2>3 DEF Queued
    <3> HIDE DEF new
    <3> QED BY <2>1, <2>2, <2>3, <3>1 DEF RequestsInv, Unlike
  <2>4. CASE ~ (f \in Drive /\ \E i \in DOMAIN queue : queue[i] \in Drive) /\ Len(queue) < QueueCap
    <3>1. new = Append(queue, f)
      BY <2>4 DEF Queued
    <3>2. /\ DOMAIN new = DOMAIN queue \cup {Len(queue) + 1} /\ new[Len(queue) + 1] = f
          /\ \A k \in DOMAIN queue : new[k] = queue[k]
      BY <1>1, <3>1
    <3> HIDE DEF new
    <3> QED BY <2>1, <2>2, <2>4, <3>2 DEF RequestsInv, Unlike
  <2>5. CASE ~ (f \in Drive /\ \E i \in DOMAIN queue : queue[i] \in Drive) /\ ~ (Len(queue) < QueueCap)
    <3>1. new = queue
      BY <2>5 DEF Queued
    <3> QED BY <2>1, <3>1, RequestsKept
  <2> QED BY <2>3, <2>4, <2>5
<1>6. CASE ProduceCommit
  <2>1. CASE queue' = queue /\ committed' = committed
    BY <2>1, RequestsKept
  <2>2. CASE queue' = Tail(queue) /\ committed' = Append(committed, Head(queue))
    <3>1. queue # <<>>
      BY <1>0, <1>6 DEF ProduceCommit
    <3>2. /\ \A k \in DOMAIN queue' : k + 1 \in DOMAIN queue /\ queue'[k] = queue[k + 1] /\ k \in Nat \ {0}
          /\ 1 \in DOMAIN queue /\ Head(queue) = queue[1]
      BY <1>1, <2>2, <3>1
    <3>3. /\ DOMAIN committed' = DOMAIN committed \cup {Len(committed) + 1}
          /\ committed'[Len(committed) + 1] = queue[1]
          /\ \A k \in DOMAIN committed : committed'[k] = committed[k]
      BY <1>1, <2>2, <3>2
    <3>4. ASSUME NEW k \in DOMAIN committed', NEW l \in DOMAIN committed', committed'[k] = committed'[l]
          PROVE  k = l
      BY <3>2, <3>3, <3>4 DEF RequestsInv, Unlike
    <3>5. ASSUME NEW k \in DOMAIN committed', NEW l \in DOMAIN queue' PROVE committed'[k] # queue'[l]
      <4>1. l + 1 \in DOMAIN queue /\ l + 1 # 1 /\ queue'[l] = queue[l + 1]
        BY <3>2
      <4>2. queue[1] # queue[l + 1]
        BY <3>2, <4>1 DEF RequestsInv
      <4> QED BY <3>3, <4>1, <4>2 DEF RequestsInv, Unlike
    <3>6. ASSUME NEW k \in DOMAIN queue', NEW l \in DOMAIN queue'
          PROVE  /\ queue'[k] = queue'[l] => k = l
                 /\ queue'[k] \in Drive /\ queue'[l] \in Drive => k = l
      <4>1. /\ k + 1 \in DOMAIN queue /\ queue'[k] = queue[k + 1] /\ k \in Nat
            /\ l + 1 \in DOMAIN queue /\ queue'[l] = queue[l + 1] /\ l \in Nat
        BY <3>2
      <4>2. /\ queue[k + 1] = queue[l + 1] => k + 1 = l + 1
            /\ queue[k + 1] \in Drive /\ queue[l + 1] \in Drive => k + 1 = l + 1
        BY <4>1 DEF RequestsInv
      <4>3. k + 1 = l + 1 => k = l
        BY <4>1
      <4> QED BY ONLY <4>1, <4>2, <4>3
    <3>7. Unlike(committed', queue')
      BY ONLY <3>4, <3>5 DEF Unlike
    <3> QED BY ONLY <3>6, <3>7, Zenon DEF RequestsInv
  <2>3. \/ queue' = Tail(queue) /\ committed' = Append(committed, Head(queue))
        \/ queue' = queue /\ committed' = committed
    BY <1>6 DEF ProduceCommit
  <2> QED BY <2>1, <2>2, <2>3
<1> QED
  BY <1>2, <1>3, <1>4, <1>5, <1>6 DEF Next, Service

-----------------------------------------------------------------------------
(* The ring of answers, in any session or none. *)

Answers == Used(idx.t2hHead, idx.t2hTail)

\* The answer in front of the head, while it is not committed.
Pend == ring.t2h[idx.t2hHead % Cap][1]

\* Nothing has arrived that the board could answer.
Drained == idx.h2tHead = idx.h2tTail /\ fwRx = <<>> /\ fw # "commit"

Producing == br \in {"free", "head", "tail", "payload", "commit"}

\* A board that booted under an attach has nothing to answer until the next one.
AttachFresh == br \in {"readHead", "discard", "expect"} /\ epoch # reg.epoch => Drained

\* Indices that a boot and the bridge left at odds meet no answer, and no session that goes on.
AnswersFit ==
  Answers > Cap =>
    /\ Drained /\ ~ Producing
    /\ br = "expect" => epoch # reg.epoch
    /\ st # "closed" => epoch # sess.epoch

\* An answer is written where the bridge is not reading.
CommitRoom ==
  fw = "commit" =>
    /\ Answers + FrameLen <= Cap /\ fwReg = Plus(idx.t2hHead, FrameLen)
    /\ \A q \in 1 .. FrameLen : ring.t2h[(idx.t2hHead + q - 1) % Cap] = <<Pend, q>>

\* The head that an attach takes for the tail is no further back than the tail.
DiscardBehind ==
  br = "discard" /\ epoch = reg.epoch =>
    /\ Used(idx.t2hHead, reg.head) <= Cap
    /\ Answers <= Cap => Used(idx.t2hHead, reg.head) <= Answers

\* What a consume has read of the indices stays true, or belongs to a session that is over.
ConsumeInv ==
  br \in {"cells", "release"} =>
    \/ reg.tail = idx.t2hTail /\ reg.n \in 1 .. Answers
    \/ Drained /\ epoch # sess.epoch

RoomInv == AttachFresh /\ AnswersFit /\ CommitRoom /\ DiscardBehind /\ ConsumeInv

\* The steps that leave the ring of answers alone.
LEMMA RoomKept ==
  ASSUME RoomInv, epoch' = epoch, idx'.t2hHead = idx.t2hHead, idx'.t2hTail = idx.t2hTail,
         ring'.t2h = ring.t2h, fw' = "commit" => fw = "commit" /\ fwReg' = fwReg,
         Drained /\ ~ Producing => Drained',
         br' \in {"readHead", "discard", "expect"} => br' = br /\ reg' = reg,
         br' \in {"free", "head", "tail", "payload", "commit"} =>
           Producing \/ (st # "closed" /\ epoch = sess.epoch),
         st' # "closed" => st # "closed" /\ sess'.epoch = sess.epoch,
         br' \in {"cells", "release"} =>
           br \in {"cells", "release"} /\ reg'.tail = reg.tail /\ reg'.n = reg.n /\ sess'.epoch = sess.epoch
  PROVE  RoomInv'
<1>1. Answers' = Answers
  BY DEF Answers
<1>2. Producing => ~ (Answers > Cap)
  BY DEF RoomInv, AnswersFit
<1>3. AttachFresh'
  BY DEF RoomInv, AttachFresh, Producing
<1>4. AnswersFit'
  BY <1>1 DEF RoomInv, AnswersFit, Producing
<1>5. CommitRoom'
  BY <1>1 DEF RoomInv, CommitRoom, Pend
<1>6. DiscardBehind'
  BY <1>1 DEF RoomInv, DiscardBehind
<1>7. ConsumeInv'
  BY <1>1 DEF RoomInv, ConsumeInv, Producing
<1> QED
  BY <1>3, <1>4, <1>5, <1>6, <1>7 DEF RoomInv

\* The indices and phases that the steps below start from.
LEMMA RoomFacts ==
  ASSUME FifoInv
  PROVE  /\ idx.t2hHead \in Indices /\ idx.t2hTail \in Indices /\ idx.h2tHead \in Indices
         /\ DOMAIN idx = {"h2tHead", "h2tTail", "t2hHead", "t2hTail"}
         /\ reg.head \in Indices /\ reg.tail \in Indices /\ reg.n \in Nat
         /\ DOMAIN reg = {"epoch", "head", "tail", "n", "cells"} /\ DOMAIN ring = {"h2t", "t2h"}
         /\ Answers \in 0 .. IdxMod - 1
         /\ br \in {"bump", "readHead", "discard", "expect"} => st = "closed"
         /\ br \in {"free", "head", "tail", "payload", "commit", "cells", "release"} => st = "up"
         /\ fw = "boot" => fwRx = <<>>
         /\ br \in {"readHead", "discard", "expect"} => reg.epoch > 0
         /\ st # "closed" => sess.epoch > 0
<1>1. idx.t2hHead \in Indices /\ idx.t2hTail \in Indices /\ idx.h2tHead \in Indices
  BY DEF FifoInv, HandshakeInv, TypeOK
<1>2. Answers \in 0 .. IdxMod - 1
  BY <1>1, Distance DEF Answers
<1> QED
  BY <1>1, <1>2 DEF FifoInv, HandshakeInv, TypeOK, BumpAhead, PortPhases, FlushedInv, DataShape

\* A step of the board that leaves the ring of answers alone.
LEMMA BoardRoomKept ==
  ASSUME RoomInv, UNCHANGED <<epoch, br, st, sess, reg>>, idx'.t2hHead = idx.t2hHead,
         idx'.t2hTail = idx.t2hTail, fw' # "commit", Drained => Drained'
  PROVE  RoomInv'
<1>1. Answers' = Answers
  BY DEF Answers
<1>2. AttachFresh' /\ AnswersFit' /\ ConsumeInv'
  BY <1>1 DEF RoomInv, AttachFresh, AnswersFit, Producing, ConsumeInv
<1>3. CommitRoom' /\ DiscardBehind'
  BY <1>1 DEF RoomInv, CommitRoom, DiscardBehind
<1> QED
  BY <1>2, <1>3 DEF RoomInv

\* The answer that Handle writes fits in front of the head, and is what waits there then.
LEMMA AnswerPut ==
  ASSUME FifoInv, RoomInv, Handle, TakesAnswer
  PROVE  /\ Answers + FrameLen <= Cap /\ Answers' = Answers
         /\ ring'.t2h = Placed(ring.t2h, idx.t2hHead, Frame(FirstFrame(fwRx)))
         /\ fwReg' = Plus(idx.t2hHead, FrameLen) /\ fw' = "commit"
         /\ \A q \in 1 .. FrameLen : ring'.t2h[(idx.t2hHead + q - 1) % Cap] = <<FirstFrame(fwRx), q>>
         /\ Pend' = FirstFrame(fwRx)
<1> DEFINE f == FirstFrame(fwRx)
           new == Placed(ring.t2h, idx.t2hHead, Frame(f))
<1>1. /\ idx.t2hHead \in Indices /\ idx.t2hTail \in Indices /\ DOMAIN ring = {"h2t", "t2h"}
      /\ Answers \in Nat /\ Answers = Used(idx.t2hHead, idx.t2hTail)
  BY RoomFacts DEF Answers
<1>2. FrameLen \in Nat \ {0} /\ FrameLen <= Cap /\ Cap \in Nat /\ Cap > 0
  BY CapAssumption, FrameLenAssumption
<1>3. ~ Drained
  BY <1>2, HuntedEmpty DEF Handle, HasFrame, Drained
<1>4. idx' = idx /\ fw' = "commit" /\ ring'.t2h = new /\ fwReg' = Plus(idx.t2hHead, FrameLen)
  BY <1>1 DEF Handle
<1>5. Answers <= Cap
  BY <1>1, <1>2, <1>3 DEF RoomInv, AnswersFit
<1>6. Answers + FrameLen <= Cap
  <2>1. Free(idx.t2hHead, idx.t2hTail) = Cap - Answers
    BY <1>1, <1>5, Apart, 0 \in Nat
  <2> QED BY <1>1, <1>2, <2>1 DEF TakesAnswer
<1>7. \A q \in 1 .. FrameLen : new[(idx.t2hHead + q - 1) % Cap] = <<f, q>>
  <2> DEFINE cells == Frame(f)
             buf == ring.t2h
             head == idx.t2hHead
             tail == idx.t2hTail
  <2>1. Len(cells) = FrameLen /\ \A q \in 1 .. FrameLen : cells[q] = <<f, q>>
    BY <1>2 DEF Frame
  <2>2. head \in Indices /\ tail \in Indices /\ Used(head, tail) + FrameLen <= Cap
    BY <1>1, <1>6
  <2> HIDE DEF cells, buf, head, tail
  <2>3. Len(cells) = FrameLen
    BY <2>1
  <2>4. /\ \A j \in 0 .. Used(head, tail) - 1 :
              Placed(buf, head, cells)[(tail + j) % Cap] = buf[(tail + j) % Cap]
        /\ \A q \in 1 .. FrameLen : Placed(buf, head, cells)[(head + q - 1) % Cap] = cells[q]
    BY ONLY <2>2, <2>3, PlacedCells
  <2> QED BY <2>1, <2>4 DEF cells, head, buf
<1> HIDE DEF new
<1>8. new[idx.t2hHead % Cap] = <<f, 1>>
  <2>1. idx.t2hHead + 1 - 1 = idx.t2hHead
    BY <1>1 DEF Indices
  <2> QED BY <1>2, <1>7, <2>1
<1>9. Answers' = Answers /\ Pend' = f
  BY <1>4, <1>8 DEF Answers, Pend
<1> QED
  BY <1>4, <1>6, <1>7, <1>9 DEF new

\* Every step of the board keeps the answers in the room there is for them.
LEMMA BoardRoom ==
  ASSUME FifoInv, RoomInv, Reset \/ Board PROVE RoomInv'
<1>1. /\ idx.t2hHead \in Indices /\ idx.t2hTail \in Indices /\ idx.h2tHead \in Indices
      /\ DOMAIN idx = {"h2tHead", "h2tTail", "t2hHead", "t2hTail"} /\ DOMAIN ring = {"h2t", "t2h"}
      /\ reg.head \in Indices
      /\ Answers \in Nat /\ Answers = Used(idx.t2hHead, idx.t2hTail)
  BY RoomFacts DEF Answers
<1>2. FrameLen \in Nat \ {0} /\ FrameLen <= Cap /\ Cap \in Nat /\ IdxMod \in Nat /\ IdxMod >= 2 * Cap /\ Cap > 0
  BY CapAssumption, IdxModAssumption, FrameLenAssumption
<1>3. CASE Reset
  <2>1. Drained => Drained'
    BY <1>3 DEF Reset, Drained, header
  <2>2. UNCHANGED <<epoch, idx, br, st, sess, reg>> /\ fw' # "commit"
    BY <1>3 DEF Reset, header, bridge
  <2> QED BY ONLY RoomInv, <2>1, <2>2, BoardRoomKept
<1>4. CASE InitHeader
  <2>1. fw = "boot" /\ fw' = "watch" /\ epoch' = 0 /\ idx' = ZeroIdx /\ UNCHANGED <<fwRx, st, br, sess, reg>>
    BY <1>4 DEF InitHeader, bridge
  <2>2. Drained' /\ fwRx = <<>>
    BY <2>1, RoomFacts DEF Drained, ZeroIdx
  <2>3. Answers' = 0
    BY <2>1, Distance, IndexTypes DEF Answers, ZeroIdx
  <2>4. AttachFresh' /\ CommitRoom'
    BY <2>1, <2>2 DEF AttachFresh, CommitRoom
  <2>5. AnswersFit'
    BY <1>2, <2>3 DEF AnswersFit
  <2>6. DiscardBehind'
    BY <2>1, RoomFacts DEF DiscardBehind
  <2>7. ConsumeInv'
    BY <2>1, <2>2, RoomFacts DEF ConsumeInv
  <2> QED BY <2>4, <2>5, <2>6, <2>7 DEF RoomInv
<1>5. CASE StartWatch \/ PollEpoch \/ AckEpoch \/ PassEnds
  <2>1. idx'.t2hHead = idx.t2hHead /\ idx'.t2hTail = idx.t2hTail /\ fw' # "commit"
    BY <1>1, <1>5 DEF StartWatch, PollEpoch, AckEpoch, PassEnds, header
  <2>2. Drained => Drained'
    BY <1>1, <1>5, HuntedEmpty DEF StartWatch, PollEpoch, AckEpoch, PassEnds, header, Drained
  <2>3. UNCHANGED <<epoch, br, st, sess, reg>>
    BY <1>5 DEF StartWatch, PollEpoch, AckEpoch, PassEnds, header, bridge
  <2> QED BY ONLY RoomInv, <2>1, <2>2, <2>3, BoardRoomKept
<1>6. CASE PullChunk
  <2>1. idx'.t2hHead = idx.t2hHead /\ idx'.t2hTail = idx.t2hTail /\ fw' # "commit"
        /\ UNCHANGED <<epoch, ring, br, st, sess, reg>>
    BY <1>1, <1>6 DEF PullChunk, bridge
  <2>2. ~ Drained
    <3>1. Lesser(Pull, Used(idx.h2tHead, idx.h2tTail)) > 0
      BY <1>6 DEF PullChunk
    <3>2. Used(idx.h2tHead, idx.h2tHead) = 0
      BY <1>1, Distance
    <3>3. Lesser(Pull, 0) = 0
      BY PullAssumption DEF Lesser
    <3>4. SUFFICES ASSUME idx.h2tHead = idx.h2tTail PROVE FALSE
      BY DEF Drained
    <3>5. Used(idx.h2tHead, idx.h2tTail) = 0
      BY <3>2, <3>4
    <3> QED BY <3>1, <3>3, <3>5
  <2> QED BY ONLY RoomInv, <2>1, <2>2, BoardRoomKept
<1>7. CASE Handle
  <2>1. ~ Drained
    BY <1>2, <1>7, HuntedEmpty DEF Handle, HasFrame, Drained
  <2>2. UNCHANGED <<epoch, idx, br, st, sess, reg>>
    BY <1>7 DEF Handle, bridge
  <2>3. CASE ~ TakesAnswer
    <3>1. ring' = ring /\ fw' # "commit"
      BY <1>7, <2>3 DEF Handle
    <3> QED BY ONLY RoomInv, <2>1, <2>2, <3>1, BoardRoomKept
  <2>4. CASE TakesAnswer
    <3>1. /\ Answers + FrameLen <= Cap /\ Answers' = Answers /\ fwReg' = Plus(idx.t2hHead, FrameLen)
          /\ \A q \in 1 .. FrameLen : ring'.t2h[(idx.t2hHead + q - 1) % Cap] = <<Pend', q>>
      BY <1>7, <2>4, AnswerPut
    <3>2. CommitRoom'
      BY <2>2, <3>1 DEF CommitRoom
    <3>3. AttachFresh' /\ ConsumeInv'
      BY <2>1, <2>2, <3>1 DEF RoomInv, AttachFresh, ConsumeInv
    <3>4. AnswersFit'
      BY <1>1, <1>2, <3>1 DEF AnswersFit
    <3>5. DiscardBehind'
      BY <2>2, <3>1 DEF RoomInv, DiscardBehind
    <3> QED BY <3>2, <3>3, <3>4, <3>5 DEF RoomInv
  <2> QED BY <2>3, <2>4
<1>8. CASE CommitAnswer
  <2>1. /\ fw = "commit" /\ fw' # "commit" /\ idx'.t2hHead = fwReg /\ idx'.t2hTail = idx.t2hTail
        /\ UNCHANGED <<epoch, br, st, sess, reg>>
    BY <1>1, <1>8 DEF CommitAnswer, bridge
  <2>2. Answers + FrameLen <= Cap /\ fwReg = Plus(idx.t2hHead, FrameLen) /\ ~ Drained
    BY <2>1 DEF RoomInv, CommitRoom, Drained
  <2>3. Answers' = Answers + FrameLen
    BY <1>1, <1>2, <2>1, <2>2, Apart DEF Answers
  <2>4. AttachFresh' /\ CommitRoom'
    BY <2>1, <2>2 DEF RoomInv, AttachFresh, CommitRoom
  <2>5. AnswersFit'
    BY <1>1, <1>2, <2>2, <2>3 DEF AnswersFit
  <2>6. DiscardBehind'
    <3> SUFFICES ASSUME br = "discard", epoch = reg.epoch
                 PROVE  LET u == Used(fwReg, reg.head) IN u <= Cap /\ u <= Answers + FrameLen
      BY <2>1, <2>3 DEF DiscardBehind
    <3> DEFINE u == Used(idx.t2hHead, reg.head)
    <3>a. u \in 0 .. IdxMod - 1
      BY <1>1, Distance
    <3>b. Answers <= Cap
      BY <1>1, <1>2, <2>2
    <3>1. u \in Nat /\ u <= Answers
      BY <1>2, <3>a, <3>b DEF RoomInv, DiscardBehind
    <3>2. Used(idx.t2hHead, reg.head) + FrameLen < IdxMod
      BY <1>1, <1>2, <2>2, <3>1
    <3>3. Used(fwReg, reg.head) = u + FrameLen
      BY <1>1, <1>2, <2>2, <3>2, Apart
    <3> HIDE DEF u
    <3> QED BY <1>1, <1>2, <2>2, <3>1, <3>3
  <2>7. ConsumeInv'
    <3> SUFFICES ASSUME br \in {"cells", "release"} PROVE reg.tail = idx.t2hTail /\ reg.n \in 1 .. Answers'
      BY <2>1 DEF ConsumeInv
    <3>1. reg.tail = idx.t2hTail /\ reg.n \in 1 .. Answers
      BY <2>2 DEF RoomInv, ConsumeInv
    <3> QED BY <1>1, <1>2, <2>3, <3>1
  <2> QED BY <2>4, <2>5, <2>6, <2>7 DEF RoomInv
<1> QED
  BY <1>3, <1>4, <1>5, <1>6, <1>7, <1>8 DEF Board

\* So does every step of the bridge.
LEMMA PortRoom ==
  ASSUME FifoInv, RoomInv, Attach \/ Service \/ Send \/ Lose \/ Pause \/ Resume PROVE RoomInv'
<1>1. /\ idx.t2hHead \in Indices /\ idx.t2hTail \in Indices
      /\ DOMAIN idx = {"h2tHead", "h2tTail", "t2hHead", "t2hTail"} /\ DOMAIN ring = {"h2t", "t2h"}
      /\ DOMAIN reg = {"epoch", "head", "tail", "n", "cells"}
      /\ reg.head \in Indices /\ reg.tail \in Indices /\ reg.n \in Nat
      /\ Answers \in Nat /\ Answers = Used(idx.t2hHead, idx.t2hTail)
      /\ br \in {"bump", "readHead", "discard", "expect"} => st = "closed"
      /\ br \in {"free", "head", "tail", "payload", "commit", "cells", "release"} => st = "up"
  BY RoomFacts DEF Answers
<1>2. FrameLen \in Nat \ {0} /\ FrameLen <= Cap /\ Cap \in Nat /\ IdxMod \in Nat /\ IdxMod >= 2 * Cap /\ Cap > 0
  BY CapAssumption, IdxModAssumption, FrameLenAssumption
<1>3. CASE Closed /\ UNCHANGED <<header, board>>
  <2>1. Drained => Drained'
    BY <1>3 DEF Drained, header, board
  <2> QED BY <1>3, <2>1, RoomKept DEF Closed, header, board
<1>4. CASE \/ AttachReadEpoch \/ Acked \/ Send \/ (WriteCheckSession /\ ~ Closed) \/ WriteCheckFree
           \/ (ProduceReadHead /\ ~ Closed) \/ ProduceReadTail \/ Deliver \/ Pause \/ Resume
  <2>1. UNCHANGED <<header, board>>
    BY <1>4 DEF AttachReadEpoch, Acked, Send, WriteCheckSession, WriteCheckFree, ProduceReadHead,
       ProduceReadTail, Deliver, Pause, Resume
  <2>2. Drained => Drained'
    BY <2>1 DEF Drained, header, board
  <2>3. br' \notin {"readHead", "discard", "expect", "cells", "release"}
    BY <1>4 DEF AttachReadEpoch, Acked, Send, WriteCheckSession, WriteCheckFree, ProduceReadHead,
       ProduceReadTail, Deliver, Pause, Resume
  <2>4. br' \in {"free", "head", "tail", "payload", "commit"} => Producing \/ (st # "closed" /\ epoch = sess.epoch)
    <3>1. CASE AttachReadEpoch \/ Acked \/ Send \/ Deliver \/ Pause \/ Resume
      BY <3>1 DEF AttachReadEpoch, Acked, Send, Deliver, Pause, Resume
    <3>2. CASE WriteCheckSession /\ ~ Closed
      BY <3>2 DEF WriteCheckSession
    <3>3. CASE WriteCheckFree \/ ProduceReadHead \/ ProduceReadTail
      BY <3>3 DEF WriteCheckFree, ProduceReadHead, ProduceReadTail, Producing
    <3> QED BY <1>4, <3>1, <3>2, <3>3
  <2>5. st' # "closed" => st # "closed" /\ sess'.epoch = sess.epoch
    BY <1>4 DEF AttachReadEpoch, Acked, Send, WriteCheckSession, WriteCheckFree, ProduceReadHead,
       ProduceReadTail, Deliver, Pause, Resume
  <2>6. UNCHANGED <<epoch, idx, ring, fw, fwReg>>
    BY <2>1 DEF header, board
  <2> QED BY ONLY RoomInv, <2>2, <2>3, <2>4, <2>5, <2>6, RoomKept
<1>5. CASE ProducePayload \/ ProduceCommit \/ ConsumeCells
  <2>1. idx'.t2hHead = idx.t2hHead /\ idx'.t2hTail = idx.t2hTail /\ ring'.t2h = ring.t2h
        /\ UNCHANGED <<epoch, fw, fwReg, st>> /\ sess'.epoch = sess.epoch
    BY <1>1, <1>5 DEF ProducePayload, ProduceCommit, ConsumeCells, header, board, FifoInv, HandshakeInv, TypeOK
  <2>2. Drained /\ ~ Producing => Drained'
    BY <1>5 DEF ProducePayload, ProduceCommit, ConsumeCells, Producing, Drained, header, board
  <2>3. /\ br' \notin {"readHead", "discard", "expect"}
        /\ br' \in {"free", "head", "tail", "payload", "commit"} => Producing
        /\ br' \in {"cells", "release"} =>
              br \in {"cells", "release"} /\ reg'.tail = reg.tail /\ reg'.n = reg.n
    BY <1>1, <1>5 DEF ProducePayload, ProduceCommit, ConsumeCells, Producing
  <2>4. /\ epoch' = epoch /\ (fw' = "commit" => fw = "commit" /\ fwReg' = fwReg)
        /\ br' \in {"readHead", "discard", "expect"} => br' = br /\ reg' = reg
        /\ br' \in {"free", "head", "tail", "payload", "commit"} => Producing \/ (st # "closed" /\ epoch = sess.epoch)
        /\ st' # "closed" => st # "closed" /\ sess'.epoch = sess.epoch
    BY ONLY <2>1, <2>3
  <2> QED BY ONLY RoomInv, <2>1, <2>2, <2>3, <2>4, RoomKept
<1>6. CASE AttachBump
  <2>1. /\ br = "bump" /\ br' = "readHead" /\ epoch' = reg.epoch
        /\ UNCHANGED <<idx, ring, fw, fwReg, fwRx, st, sess, reg>>
    BY <1>6 DEF AttachBump, board
  <2>2. Answers' = Answers /\ Drained' = Drained /\ Pend' = Pend
    BY <2>1 DEF Answers, Drained, Pend
  <2>3. AttachFresh' /\ DiscardBehind' /\ ConsumeInv'
    BY <2>1 DEF AttachFresh, DiscardBehind, ConsumeInv
  <2>4. AnswersFit'
    BY <1>1, <2>1, <2>2 DEF RoomInv, AnswersFit, Producing
  <2>5. CommitRoom'
    BY <2>1, <2>2 DEF RoomInv, CommitRoom
  <2> QED BY <2>3, <2>4, <2>5 DEF RoomInv
<1>7. CASE AttachReadHead
  <2>1. /\ br = "readHead" /\ br' = "discard" /\ reg'.head = idx.t2hHead /\ reg'.epoch = reg.epoch
        /\ UNCHANGED <<epoch, idx, ring, fw, fwReg, fwRx, st, sess>>
    BY <1>1, <1>7 DEF AttachReadHead, header, board
  <2>2. Answers' = Answers /\ Drained' = Drained /\ Pend' = Pend
    BY <2>1 DEF Answers, Drained, Pend
  <2>3. AttachFresh' /\ ConsumeInv'
    BY <2>1, <2>2 DEF RoomInv, AttachFresh, ConsumeInv
  <2>4. DiscardBehind'
    <3>1. Used(idx.t2hHead, idx.t2hHead) = 0
      BY <1>1, Distance
    <3> QED BY <1>1, <1>2, <2>1, <2>2, <3>1 DEF DiscardBehind
  <2>5. AnswersFit'
    BY <1>1, <2>1, <2>2 DEF RoomInv, AnswersFit, Producing
  <2>6. CommitRoom'
    BY <2>1, <2>2 DEF RoomInv, CommitRoom
  <2> QED BY <2>3, <2>4, <2>5, <2>6 DEF RoomInv
<1>8. CASE AttachDiscard
  <2>1. /\ br = "discard" /\ br' = "expect" /\ idx'.t2hTail = reg.head
        /\ idx'.t2hHead = idx.t2hHead /\ idx'.h2tHead = idx.h2tHead /\ idx'.h2tTail = idx.h2tTail
        /\ UNCHANGED <<epoch, ring, fw, fwReg, fwRx, st, sess, reg>>
    BY <1>1, <1>8 DEF AttachDiscard, board
  <2>2. Answers' = Used(idx.t2hHead, reg.head) /\ Drained' = Drained /\ Pend' = Pend
    BY <2>1 DEF Answers, Drained, Pend
  <2>3. AttachFresh' /\ ConsumeInv' /\ DiscardBehind'
    BY <2>1, <2>2 DEF RoomInv, AttachFresh, ConsumeInv, DiscardBehind
  <2> DEFINE u == Used(idx.t2hHead, reg.head)
  <2>4. u \in Nat /\ (epoch = reg.epoch => u <= Cap /\ (Answers <= Cap => u <= Answers))
        /\ (epoch # reg.epoch => Drained)
    BY <1>1, <2>1, IndexTypes DEF RoomInv, DiscardBehind, AttachFresh
  <2>5. Answers' = u
    BY <2>2
  <2> HIDE DEF u
  <2>6. AnswersFit'
    <3> SUFFICES ASSUME u > Cap PROVE Drained' /\ ~ Producing' /\ epoch # reg.epoch /\ st = "closed"
      BY <2>1, <2>5 DEF AnswersFit
    <3>1. epoch # reg.epoch
      BY <1>2, <2>4
    <3> QED BY <1>1, <2>1, <2>2, <2>4, <3>1 DEF Producing
  <2>7. CommitRoom'
    <3> SUFFICES ASSUME fw = "commit" PROVE u + FrameLen <= Cap /\ CommitRoom
      BY <2>1, <2>2, <2>5 DEF CommitRoom
    <3>1. Answers + FrameLen <= Cap /\ ~ Drained /\ CommitRoom
      BY DEF RoomInv, CommitRoom, Drained
    <3> QED BY <1>1, <1>2, <2>4, <3>1
  <2> QED BY <2>3, <2>6, <2>7 DEF RoomInv
<1>9. CASE AttachDone
  <2>1. /\ br = "expect" /\ br' = "idle" /\ st' = "attaching" /\ sess'.epoch = reg.epoch
        /\ UNCHANGED <<epoch, idx, ring, fw, fwReg, fwRx>>
    BY <1>9 DEF AttachDone, header, board
  <2>2. Answers' = Answers /\ Drained' = Drained /\ Pend' = Pend
    BY <2>1 DEF Answers, Drained, Pend
  <2>3. AttachFresh' /\ DiscardBehind' /\ ConsumeInv'
    BY <2>1 DEF AttachFresh, DiscardBehind, ConsumeInv
  <2>4. AnswersFit'
    BY <2>1, <2>2 DEF RoomInv, AnswersFit, Producing
  <2>5. CommitRoom'
    BY <2>1, <2>2 DEF RoomInv, CommitRoom
  <2> QED BY <2>3, <2>4, <2>5 DEF RoomInv
<1>10. CASE ConsumeRead
  <2> DEFINE n == Lesser(Pull, Answers)
  <2>1. /\ st = "up" /\ br = "idle" /\ br' = "cells" /\ n > 0
        /\ reg'.tail = idx.t2hTail /\ reg'.n = n
        /\ UNCHANGED <<epoch, idx, ring, fw, fwReg, fwRx, st, sess>>
    BY <1>1, <1>10 DEF ConsumeRead, header, board
  <2>2. Answers' = Answers /\ Drained' = Drained /\ Pend' = Pend
    BY <2>1 DEF Answers, Drained, Pend
  <2>3. AttachFresh' /\ DiscardBehind'
    BY <2>1 DEF AttachFresh, DiscardBehind
  <2>4. n \in 1 .. Answers
    BY <1>1, <2>1, PullAssumption DEF Lesser
  <2> HIDE DEF n
  <2>5. ConsumeInv'
    BY <2>1, <2>2, <2>4 DEF ConsumeInv
  <2>6. AnswersFit'
    BY <2>1, <2>2 DEF RoomInv, AnswersFit, Producing
  <2>7. CommitRoom'
    BY <2>1, <2>2 DEF RoomInv, CommitRoom
  <2> QED BY <2>3, <2>5, <2>6, <2>7 DEF RoomInv
<1>11. CASE ConsumeRelease
  <2>1. /\ br = "release" /\ br' = "idle" /\ idx'.t2hTail = Plus(reg.tail, reg.n)
        /\ idx'.t2hHead = idx.t2hHead /\ idx'.h2tHead = idx.h2tHead /\ idx'.h2tTail = idx.h2tTail
        /\ UNCHANGED <<epoch, ring, fw, fwReg, fwRx, st, sess>>
    BY <1>1, <1>11 DEF ConsumeRelease, board
  <2>2. Drained' = Drained /\ Pend' = Pend
    BY <2>1 DEF Drained, Pend
  <2>3. AttachFresh' /\ DiscardBehind' /\ ConsumeInv'
    BY <2>1 DEF AttachFresh, DiscardBehind, ConsumeInv
  <2>4. CASE Drained /\ epoch # sess.epoch
    <3>1. AnswersFit'
      BY <2>1, <2>2, <2>4 DEF AnswersFit, Producing
    <3>2. CommitRoom'
      BY <2>1, <2>4 DEF CommitRoom, Drained
    <3> QED BY <2>3, <3>1, <3>2 DEF RoomInv
  <2>5. CASE reg.tail = idx.t2hTail /\ reg.n \in 1 .. Answers
    <3>1. Answers' = Answers - reg.n /\ Answers' \in Nat /\ Answers' <= Answers
      <4>1. Used(idx.t2hHead, Plus(idx.t2hTail, reg.n)) = Answers - reg.n
        BY <1>1, <2>5, Apart
      <4>2. Answers' = Answers - reg.n
        BY <2>1, <2>5, <4>1 DEF Answers
      <4> QED BY <1>1, <2>5, <4>2
    <3>2. AnswersFit'
      <4> SUFFICES ASSUME Answers' > Cap PROVE Drained' /\ ~ Producing' /\ epoch # sess.epoch
        BY <2>1 DEF AnswersFit
      <4>1. Answers > Cap
        BY <1>1, <1>2, <3>1
      <4> QED BY <1>1, <2>1, <2>2, <4>1 DEF RoomInv, AnswersFit, Producing
    <3>3. CommitRoom'
      <4> SUFFICES ASSUME fw = "commit" PROVE Answers' + FrameLen <= Cap /\ CommitRoom
        BY <2>1, <2>2 DEF CommitRoom
      <4>1. Answers + FrameLen <= Cap /\ CommitRoom
        BY DEF RoomInv, CommitRoom
      <4> QED BY <1>1, <1>2, <3>1, <4>1
    <3> QED BY <2>3, <3>2, <3>3 DEF RoomInv
  <2> QED BY <2>1, <2>4, <2>5 DEF RoomInv, ConsumeInv
<1>12. CASE AckTimeout \/ HeaderCheck \/ Lose
  BY <1>3, <1>12 DEF AckTimeout, HeaderCheck, Lose
<1>13. CASE WriteCheckSession \/ ProduceReadHead
  <2>1. UNCHANGED <<header, board>>
    BY <1>13 DEF WriteCheckSession, ProduceReadHead
  <2> QED BY <1>3, <1>4, <1>13, <2>1
<1>14. CASE Attach
  BY <1>4, <1>6, <1>7, <1>8, <1>9, <1>12, <1>14 DEF Attach
<1>15. CASE Service
  BY <1>4, <1>5, <1>10, <1>11, <1>12, <1>13, <1>15 DEF Service
<1>16. CASE Send \/ Lose \/ Pause \/ Resume
  BY <1>4, <1>12, <1>16
<1> QED
  BY <1>14, <1>15, <1>16

-----------------------------------------------------------------------------
(* The answers since an attach: given, staged, or in the ring. *)

\* There is an attach or a session that the answers in the ring belong to.
Tracked ==
  \/ br \in {"discard", "expect"} /\ epoch = reg.epoch
  \/ st # "closed" /\ intact /\ epoch = sess.epoch

\* Where the bridge's own answers begin: at the tail, or where it is about to move it.
Base ==
  IF br = "discard" THEN reg.head
  ELSE IF br = "release" THEN Plus(reg.tail, reg.n) ELSE idx.t2hTail

Behind == Used(idx.t2hHead, Base)

\* What the bridge has taken out of the ring, and what it has handed over.
Staged == IF br = "release" THEN brRx \o reg.cells ELSE brRx
Given == IF st = "closed" THEN <<>> ELSE got

\* The answer that the board is about to commit comes after the others.
Coming(an) == IF fw = "commit" THEN Append(an, Pend) ELSE an

\* The answers an since the attach: given, staged or in the ring, and in the order of the
\* requests.
AnswersAre(an) ==
  /\ an \in Seq(0 .. asked)
  /\ Given \in Seq(Nat) /\ Len(Given) <= Len(an) /\ \A i \in 1 .. Len(Given) : Given[i] = an[i]
  /\ Staged \in Seq(Cells) /\ Carries(Staged, ring.t2h, Base, Behind, an, Len(Given))
  /\ br = "release" => Hunted(brRx) = brRx
  /\ st = "up" => Ordered(Coming(an), committed, queue, Len(taken))

AnswerInv == Tracked => \E an : AnswersAre(an)

\* The ring behind the head holds the bridge's answers.
LEMMA BehindFacts ==
  ASSUME FifoInv, RoomInv, Tracked
  PROVE  /\ Base \in Indices /\ Behind \in 0 .. Cap
         /\ Answers <= Cap => Behind <= Answers
         /\ br # "discard" => Answers <= Cap
         /\ br \in {"cells", "release"} => reg.tail = idx.t2hTail /\ reg.n \in 1 .. Answers
<1>1. /\ idx.t2hHead \in Indices /\ idx.t2hTail \in Indices /\ reg.head \in Indices
      /\ Answers \in 0 .. IdxMod - 1 /\ Answers = Used(idx.t2hHead, idx.t2hTail)
      /\ br \in {"discard", "expect"} => st = "closed"
      /\ br \in {"cells", "release"} => st = "up"
  BY RoomFacts DEF Answers
<1>2. Cap \in Nat /\ IdxMod \in Nat
  BY CapAssumption, IdxModAssumption
<1>3. CASE br = "discard"
  <2>1. epoch = reg.epoch /\ Base = reg.head
    BY <1>1, <1>3 DEF Tracked, Base
  <2>2. Behind \in 0 .. IdxMod - 1 /\ Behind = Used(idx.t2hHead, reg.head)
    BY <1>1, <2>1, Distance DEF Behind
  <2>3. Behind <= Cap /\ (Answers <= Cap => Behind <= Answers)
    BY <1>3, <2>1, <2>2 DEF RoomInv, DiscardBehind
  <2> QED BY <1>1, <1>2, <1>3, <2>1, <2>2, <2>3
<1>4. CASE br # "discard"
  <2>1. Answers <= Cap
    <3> SUFFICES ASSUME Answers > Cap PROVE FALSE
      BY <1>1, <1>2
    <3> QED BY <1>1, <1>4 DEF RoomInv, AnswersFit, Tracked
  <2>2. br \in {"cells", "release"} => reg.tail = idx.t2hTail /\ reg.n \in 1 .. Answers
    BY <1>1, <1>4 DEF RoomInv, ConsumeInv, Tracked
  <2>3. CASE br = "release"
    <3>1. Base = Plus(idx.t2hTail, reg.n) /\ reg.n \in Nat /\ reg.n <= Answers /\ reg.n \in 0 .. IdxMod - 1
      BY <1>1, <1>2, <2>2, <2>3 DEF Base
    <3>2. Base \in Indices
      BY <1>1, <3>1, Moved
    <3>3. Behind = Answers - reg.n
      BY <1>1, <3>1, Apart DEF Behind
    <3> QED BY <1>1, <1>2, <2>1, <2>2, <2>3, <3>1, <3>2, <3>3
  <2>4. CASE br # "release"
    <3>1. Base = idx.t2hTail /\ Behind = Answers
      BY <1>1, <1>4, <2>4 DEF Base, Behind
    <3> QED BY <1>1, <1>2, <2>1, <2>2, <2>4, <3>1
  <2> QED BY <2>3, <2>4
<1> QED
  BY <1>3, <1>4

\* The answer about to be committed is to a frame that was asked for.
LEMMA ComingType ==
  ASSUME FifoInv, KnownInv, NEW an, an \in Seq(0 .. asked)
  PROVE  Coming(an) \in Seq(0 .. asked) /\ Pend \in 0 .. asked
<1>1. idx.t2hHead \in Nat /\ Cap \in Nat \ {0}
  <2>1. idx.t2hHead \in Indices
    BY RoomFacts
  <2> QED BY ONLY <2>1, IndexTypes, CapAssumption
<1>2. idx.t2hHead % Cap \in Slots
  BY <1>1 DEF Slots
<1>3. ring.t2h[idx.t2hHead % Cap] \in (0 .. asked) \X Nat
  BY <1>2 DEF KnownInv, Known
<1>4. Pend \in 0 .. asked
  BY <1>3 DEF Pend
<1>5. Append(an, Pend) \in Seq(0 .. asked)
  BY ONLY <1>4, an \in Seq(0 .. asked), SeqKinds
<1> QED
  BY <1>4, <1>5 DEF Coming

\* The steps that leave the answers where they are.
LEMMA AnswersKept ==
  ASSUME NEW an, AnswersAre(an), asked' = asked, Given' = Given, Staged' = Staged,
         ring'.t2h = ring.t2h, Base' = Base, Behind' = Behind,
         br' = "release" => br = "release" /\ brRx' = brRx,
         st' = "up" => Ordered(Coming(an)', committed', queue', Len(taken)')
  PROVE  AnswersAre(an)'
<1>1. /\ an \in Seq(0 .. asked')
      /\ Given' \in Seq(Nat) /\ Len(Given') <= Len(an) /\ \A i \in 1 .. Len(Given') : Given'[i] = an[i]
  BY DEF AnswersAre
<1>2. Staged' \in Seq(Cells) /\ Carries(Staged', ring'.t2h, Base', Behind', an, Len(Given'))
  BY DEF AnswersAre
<1>3. br' = "release" => Hunted(brRx') = brRx'
  BY DEF AnswersAre
<1> QED
  BY <1>1, <1>2, <1>3 DEF AnswersAre

\* Nothing was answered since an attach that begins.
LEMMA AnswersNone ==
  ASSUME FifoInv, Emptied, AttachReadHead PROVE AnswersAre(<<>>)'
<1>1. /\ br' = "discard" /\ st = "closed" /\ st' = "closed" /\ brRx' = <<>> /\ reg'.head = idx.t2hHead
      /\ UNCHANGED <<idx, ring, asked>> /\ idx.t2hHead \in Indices
  BY RoomFacts DEF AttachReadHead, Emptied, header, board, history
<1>2. Given' = <<>> /\ Staged' = <<>> /\ Base' = idx.t2hHead
  BY <1>1 DEF Given, Staged, Base
<1>3. Behind' = 0
  BY <1>1, <1>2, Distance DEF Behind
<1>4. Carries(<<>>, ring'.t2h, Base', 0, <<>>, 0)
  BY FrameLenAssumption, CapAssumption DEF Carries
<1>5. Given' \in Seq(Nat) /\ Len(Given') = 0 /\ Staged' \in Seq(Cells) /\ <<>> \in Seq(0 .. asked')
  BY <1>2
<1>6. Carries(Staged', ring'.t2h, Base', Behind', <<>>, Len(Given'))
  BY <1>2, <1>3, <1>4, <1>5
<1>7. Len(Given') <= Len(<<>>) /\ \A i \in 1 .. Len(Given') : Given'[i] = <<>>[i]
  BY <1>5
<1> QED
  BY <1>1, <1>5, <1>6, <1>7 DEF AnswersAre

-----------------------------------------------------------------------------
(* What the steps do to them. *)

\* In the session whose answers these are, the board handles what was committed, in order.
LEMMA HandledNext ==
  ASSUME FifoInv, Tracked, st = "up", Handle
  PROVE  /\ committed \in Seq(Nat) /\ Len(taken) \in Nat /\ Len(taken) < Len(committed)
         /\ FirstFrame(fwRx) = committed[Len(taken) + 1] /\ Len(taken') = Len(taken) + 1
<1>1. InSession
  BY RoomFacts DEF Tracked, InSession
<1>2. StreamInv /\ idx.h2tTail \in Indices /\ idx.h2tHead \in Indices
  BY <1>1 DEF FifoInv, HandshakeInv, TypeOK
<1>3. HasFrame(fwRx) /\ taken' = Append(taken, FirstFrame(fwRx))
  BY DEF Handle
<1> DEFINE n == Len(taken)
           used == Pending
           buf == ring.h2t
           tail == idx.h2tTail
<1>4. /\ fwRx \in Seq(Cells) /\ committed \in Seq(Nat) /\ n \in 0 .. Len(committed)
      /\ Carries(fwRx, buf, tail, used, committed, n)
  BY <1>2 DEF StreamInv
<1>5. used \in Nat /\ tail \in Int
  <2>1. used \in 0 .. IdxMod - 1
    BY <1>2, Distance DEF Pending
  <2>2. tail \in Nat
    BY ONLY <1>2, IndexTypes
  <2> HIDE DEF used, tail
  <2> QED BY <2>1, <2>2
<1>6. Len(taken') = n + 1
  BY <1>2, <1>3 DEF StreamInv
<1> HIDE DEF n, used, buf, tail
<1>7. n < Len(committed) /\ FirstFrame(fwRx) = committed[n + 1]
  BY ONLY <1>3, <1>4, <1>5, CarriesTake
<1> QED
  BY <1>4, <1>6, <1>7 DEF n

\* The board handles a request, and writes its answer in front of the others.
LEMMA AnswersHandle ==
  ASSUME FifoInv, KnownInv, RequestsInv, RoomInv, Tracked, NEW an, AnswersAre(an), Handle
  PROVE  AnswersAre(an)'
<1> DEFINE f == FirstFrame(fwRx)
<1>1. /\ fw = "drain" /\ UNCHANGED <<idx, br, st, brRx, reg, asked, committed, queue, got>>
      /\ TakesAnswer => fw' = "commit"
      /\ ~ TakesAnswer => fw' # "commit" /\ ring' = ring
  BY DEF Handle, bridge
<1>2. Given' = Given /\ Staged' = Staged /\ Base' = Base /\ Behind' = Behind
  <2>1. Base' = Base
    BY <1>1 DEF Base
  <2> QED BY <1>1, <2>1 DEF Given, Staged, Behind
<1>3. /\ Base \in Indices /\ idx.t2hHead \in Indices /\ Behind = Used(idx.t2hHead, Base)
      /\ Behind \in Nat /\ Answers \in Nat /\ (Answers <= Cap => Behind <= Answers)
  BY BehindFacts, RoomFacts DEF Behind
<1>4. FrameLen \in Nat \ {0} /\ Cap \in Nat
  BY CapAssumption, FrameLenAssumption
<1>5. Carries(Staged, ring'.t2h, Base, Behind, an, Len(Given))
  <2>1. Carries(Staged, ring.t2h, Base, Behind, an, Len(Given))
    BY DEF AnswersAre
  <2>2. CASE ~ TakesAnswer
    BY <1>1, <2>1, <2>2
  <2>3. CASE TakesAnswer
    <3> DEFINE buf == ring.t2h
               head == idx.t2hHead
               cells == Frame(f)
               n == Len(Given)
               S == 0 .. asked
    <3>1. Answers + FrameLen <= Cap /\ ring'.t2h = Placed(buf, head, cells)
      BY <2>3, AnswerPut
    <3>2. Len(cells) = FrameLen
      BY <1>4 DEF Frame
    <3>3. Used(head, Base) + FrameLen <= Cap
      BY <1>3, <1>4, <3>1
    <3>4. buf \in [Slots -> Cells]
      BY DEF KnownInv, Known, Cells
    <3>5. an \in Seq(Nat)
      <4>1. an \in Seq(S) /\ S \subseteq Nat
        BY DEF AnswersAre
      <4> HIDE DEF S
      <4> QED BY ONLY <4>1, SeqKinds
    <3>6. n \in 0 .. Len(an) /\ Staged \in Seq(Cells)
      BY <3>5 DEF AnswersAre
    <3>7. Carries(Staged, buf, Base, Used(head, Base), an, n) /\ head \in Indices
      BY <1>3, <2>1
    <3> HIDE DEF buf, head, cells, n
    <3>8. Carries(Staged, Placed(buf, head, cells), Base, Used(head, Base), an, n)
      BY ONLY <1>3, <3>2, <3>3, <3>4, <3>5, <3>6, <3>7, CarriesPlaced
    <3> QED BY <1>3, <3>1, <3>8 DEF head, n
  <2> QED BY <2>2, <2>3
<1>6. ASSUME st = "up" PROVE Ordered(Coming(an)', committed, queue, Len(taken'))
  <2>1. /\ committed \in Seq(Nat) /\ Len(taken) \in Nat /\ Len(taken) < Len(committed)
        /\ f = committed[Len(taken) + 1] /\ Len(taken') = Len(taken) + 1
    BY <1>6, HandledNext
  <2>2. an \in Seq(Nat) /\ queue \in Seq(Nat)
    <3> DEFINE S == 0 .. asked
    <3>1. an \in Seq(S) /\ queue \in Seq(S) /\ S \subseteq Nat
      BY DEF AnswersAre, KnownInv
    <3> HIDE DEF S
    <3> QED BY ONLY <3>1, SeqKinds
  <2>3. Ordered(an, committed, queue, Len(taken)) /\ Unlike(committed, queue)
    BY <1>1, <1>6 DEF AnswersAre, Coming, RequestsInv
  <2> DEFINE n == Len(taken)
  <2>4. CASE TakesAnswer
    <3>1. Coming(an)' = Append(an, f)
      BY <1>1, <2>4, AnswerPut DEF Coming
    <3> HIDE DEF f, n
    <3>2. n \in Nat /\ n < Len(committed) /\ f = committed[n + 1] /\ Ordered(an, committed, queue, n)
      BY <2>1, <2>3 DEF n
    <3>3. Ordered(Append(an, committed[n + 1]), committed, queue, n + 1)
      BY ONLY <2>1, <2>2, <2>3, <3>2, OrderedAnswer
    <3> QED BY <2>1, <3>1, <3>2, <3>3 DEF n
  <2>5. CASE ~ TakesAnswer
    <3>1. Coming(an)' = an
      BY <1>1, <2>5 DEF Coming
    <3> HIDE DEF n
    <3>2. n \in Nat /\ n + 1 \in Nat /\ n <= n + 1 /\ Ordered(an, committed, queue, n)
      BY <2>1, <2>3 DEF n
    <3>3. Ordered(an, committed, queue, n + 1)
      BY ONLY <2>1, <2>2, <3>2, OrderedMore
    <3> QED BY <2>1, <3>1, <3>3 DEF n
  <2> QED BY <2>4, <2>5
<1>7. /\ an \in Seq(0 .. asked')
      /\ Given' \in Seq(Nat) /\ Len(Given') <= Len(an) /\ \A i \in 1 .. Len(Given') : Given'[i] = an[i]
  BY <1>1, <1>2 DEF AnswersAre
<1>8. Staged' \in Seq(Cells) /\ Carries(Staged', ring'.t2h, Base', Behind', an, Len(Given'))
  BY <1>2, <1>5 DEF AnswersAre
<1>9. br' = "release" => Hunted(brRx') = brRx'
  BY <1>1 DEF AnswersAre
<1>10. st' = "up" => Ordered(Coming(an)', committed', queue', Len(taken'))
  BY <1>1, <1>6
<1> QED
  BY <1>7, <1>8, <1>9, <1>10 DEF AnswersAre

\* Its commit makes it the last of the answers.
LEMMA AnswersCommit ==
  ASSUME FifoInv, KnownInv, RoomInv, Tracked, NEW an, AnswersAre(an), CommitAnswer
  PROVE  \E all : AnswersAre(all)'
<1> DEFINE f == Pend
           n == Len(Given)
           head == idx.t2hHead
           buf == ring.t2h
<1>0. PICK all : all = Append(an, f)
  OBVIOUS
<1>1. /\ fw = "commit" /\ fw' # "commit" /\ idx'.t2hHead = fwReg /\ idx'.t2hTail = idx.t2hTail
      /\ UNCHANGED <<ring, br, st, brRx, reg, asked, committed, taken, queue, got>>
  BY RoomFacts DEF CommitAnswer, bridge, history
<1>2. /\ Answers + FrameLen <= Cap /\ fwReg = Plus(head, FrameLen)
      /\ \A q \in 1 .. FrameLen : buf[(head + q - 1) % Cap] = <<f, q>>
  BY <1>1 DEF RoomInv, CommitRoom
<1>3. /\ Base \in Indices /\ head \in Indices /\ Behind = Used(head, Base)
      /\ Behind \in Nat /\ Answers \in Nat /\ (Answers <= Cap => Behind <= Answers)
  BY BehindFacts, RoomFacts DEF Behind
<1>4. FrameLen \in Nat \ {0} /\ Cap \in Nat /\ IdxMod \in Nat /\ IdxMod >= 2 * Cap /\ Cap > 0
  BY CapAssumption, FrameLenAssumption, IdxModAssumption
<1>5. Given' = Given /\ Staged' = Staged /\ Base' = Base /\ ring' = ring
  BY <1>1 DEF Given, Staged, Base
<1>6. Behind' = Behind + FrameLen
  <2>1. Used(head, Base) + FrameLen < IdxMod
    BY <1>2, <1>3, <1>4
  <2>2. Used(Plus(head, FrameLen), Base) = Used(head, Base) + FrameLen
    BY ONLY <1>3, <1>4, <2>1, Apart
  <2> QED BY <1>1, <1>2, <1>3, <1>5, <2>2 DEF Behind
<1>7. /\ f \in 0 .. asked /\ all \in Seq(0 .. asked) /\ an \in Seq(0 .. asked)
      /\ f \in Nat /\ an \in Seq(Nat)
  <2> DEFINE S == 0 .. asked
  <2>1. an \in Seq(S) /\ S \subseteq Nat
    BY DEF AnswersAre
  <2>2. f \in S
    BY <2>1, ComingType
  <2> HIDE DEF S, f
  <2>3. all \in Seq(S) /\ an \in Seq(Nat) /\ f \in Nat
    BY ONLY <1>0, <2>1, <2>2, SeqKinds
  <2> QED BY <2>1, <2>2, <2>3 DEF S
<1>8. /\ Len(all) = Len(an) + 1 /\ \A i \in 1 .. Len(an) : all[i] = an[i]
  <2> HIDE DEF f
  <2> QED BY <1>0, <1>7
<1>9. n \in 0 .. Len(an) /\ Staged \in Seq(Cells) /\ Carries(Staged, buf, Base, Used(head, Base), an, n)
  BY <1>3, <1>7 DEF AnswersAre
<1> HIDE DEF f, n, head, buf
<1>10. Carries(Staged, buf, Base, Used(head, Base) + FrameLen, all, n)
  BY ONLY <1>0, <1>2, <1>3, <1>7, <1>9, CarriesCommit
<1>11. /\ Given' \in Seq(Nat) /\ Len(Given') <= Len(all) /\ \A i \in 1 .. Len(Given') : Given'[i] = all[i]
  BY <1>5, <1>7, <1>8, <1>9 DEF AnswersAre, n
<1>12. Staged' \in Seq(Cells) /\ Carries(Staged', ring'.t2h, Base', Behind', all, Len(Given'))
  BY <1>3, <1>5, <1>6, <1>9, <1>10 DEF n, buf, head
<1>13. br' = "release" => Hunted(brRx') = brRx'
  BY <1>1 DEF AnswersAre
<1>14. st' = "up" => Ordered(Coming(all)', committed', queue', Len(taken'))
  BY <1>0, <1>1 DEF AnswersAre, Coming, f
<1>15. AnswersAre(all)'
  BY <1>1, <1>7, <1>11, <1>12, <1>13, <1>14 DEF AnswersAre
<1> QED
  BY <1>15

\* The bridge puts a request into the ring.
LEMMA OrderedCommit ==
  ASSUME FifoInv, KnownInv, NEW an, an \in Seq(0 .. asked), queue # <<>>,
         Ordered(Coming(an), committed, queue, Len(taken)), InSession
  PROVE  Ordered(Coming(an), Append(committed, Head(queue)), Tail(queue), Len(taken))
<1> DEFINE S == 0 .. asked
           w == Coming(an)
           n == Len(taken)
<1>1. w \in Seq(S) /\ committed \in Seq(S) /\ queue \in Seq(S) /\ S \subseteq Nat
  BY ComingType DEF KnownInv
<1>2. n \in Nat
  BY DEF FifoInv, StreamInv
<1> HIDE DEF S, w, n
<1>3. w \in Seq(Nat) /\ committed \in Seq(Nat) /\ queue \in Seq(Nat)
  BY ONLY <1>1, SeqKinds
<1>4. Ordered(w, committed, queue, n)
  BY DEF w, n
<1>5. Ordered(w, Append(committed, Head(queue)), Tail(queue), n)
  BY ONLY <1>2, <1>3, <1>4, queue # <<>>, OrderedPut
<1> QED
  BY <1>5 DEF w, n

\* The bridge is asked for another frame: nobody has answered it.
LEMMA AnswersSend ==
  ASSUME FifoInv, KnownInv, NEW an, AnswersAre(an), Send PROVE AnswersAre(an)'
<1> DEFINE S == 0 .. asked
           T == 0 .. asked'
           w == Coming(an)
<1>1. /\ asked' = asked + 1 /\ queue' = Queued(asked + 1) /\ st = "up"
      /\ UNCHANGED <<ring, idx, fw, br, st, brRx, reg, committed, taken, got>>
  BY DEF Send, header, board
<1>2. /\ Given' = Given /\ Staged' = Staged /\ Base' = Base /\ Coming(an)' = w
  BY <1>1 DEF Given, Staged, Base, Coming, Pend
<1>3. Behind' = Behind
  BY <1>1, <1>2 DEF Behind
<1>4. an \in Seq(S) /\ w \in Seq(S) /\ queue \in Seq(S)
  BY ComingType DEF AnswersAre, KnownInv
<1>5. S \subseteq T /\ asked + 1 \notin S
  <2>1. asked \in Nat
    BY DEF FifoInv, DataShape
  <2> QED BY <1>1, <2>1
<1> HIDE DEF S, T
<1>6. an \in Seq(T) /\ \A i \in DOMAIN w : w[i] # asked + 1
  <2>1. \A i \in DOMAIN w : w[i] \in S
    BY ONLY <1>4, SeqKinds
  <2>2. an \in Seq(T)
    BY ONLY <1>4, <1>5, SeqKinds
  <2> QED BY ONLY <1>5, <2>1, <2>2
<1>7. \A k \in DOMAIN queue' : queue'[k] = asked + 1 \/ \E l \in DOMAIN queue : queue'[k] = queue[l]
  <2> DEFINE f == asked + 1
  <2>1. \A k \in DOMAIN Append(queue, f) :
          \/ k \in DOMAIN queue /\ Append(queue, f)[k] = queue[k]
          \/ Append(queue, f)[k] = f
    <3> HIDE DEF f
    <3> QED BY <1>4
  <2> HIDE DEF f
  <2>2. \A k \in DOMAIN Queued(f) : Queued(f)[k] = f \/ \E l \in DOMAIN queue : Queued(f)[k] = queue[l]
    BY <2>1 DEF Queued
  <2> QED BY <1>1, <2>2 DEF f
<1>8. Ordered(w, committed, queue, Len(taken))
  BY <1>1 DEF AnswersAre
<1> HIDE DEF w
<1>9. \A i \in DOMAIN w, k \in DOMAIN queue' : w[i] # queue'[k]
  BY <1>6, <1>7, <1>8 DEF Ordered
<1>10. Ordered(w, committed, queue', Len(taken))
  BY <1>8, <1>9, OrderedQueue
<1>11. /\ an \in Seq(0 .. asked')
       /\ Given' \in Seq(Nat) /\ Len(Given') <= Len(an) /\ \A i \in 1 .. Len(Given') : Given'[i] = an[i]
  BY <1>2, <1>6 DEF AnswersAre, T
<1>12. Staged' \in Seq(Cells) /\ Carries(Staged', ring'.t2h, Base', Behind', an, Len(Given'))
  BY <1>1, <1>2, <1>3 DEF AnswersAre
<1>13. br' = "release" => Hunted(brRx') = brRx'
  BY <1>1 DEF AnswersAre
<1>14. st' = "up" => Ordered(Coming(an)', committed', queue', Len(taken'))
  BY <1>1, <1>2, <1>10
<1> QED
  BY <1>11, <1>12, <1>13, <1>14 DEF AnswersAre

\* The bridge takes a run of the answers out of the ring.
LEMMA AnswersPull ==
  ASSUME FifoInv, KnownInv, RoomInv, Tracked, NEW an, AnswersAre(an), ConsumeCells
  PROVE  AnswersAre(an)'
<1> DEFINE n == Len(Given)
           k == reg.n
           buf == ring.t2h
           tail == idx.t2hTail
<1>1. /\ br = "cells" /\ br' = "release" /\ reg'.cells = Taken(buf, reg.tail, k) /\ reg'.tail = reg.tail
      /\ reg'.n = k /\ UNCHANGED <<ring, idx, fw, st, brRx, asked, committed, taken, queue, got>>
  BY RoomFacts DEF ConsumeCells, header, board, history
<1>2. /\ Base = tail /\ Behind = Used(idx.t2hHead, tail) /\ tail \in Indices /\ idx.t2hHead \in Indices
      /\ Behind \in 0 .. Cap /\ reg.tail = tail /\ k \in 1 .. Behind /\ k \in Nat
  BY <1>1, BehindFacts, RoomFacts DEF Base, Behind, Answers
<1>3. /\ Staged = brRx /\ Staged' = brRx \o Taken(buf, tail, k) /\ Base' = Plus(tail, k)
      /\ Given' = Given /\ Coming(an)' = Coming(an)
  BY <1>1, <1>2 DEF Staged, Base, Given, Coming, Pend
<1>4. Behind' = Behind - k
  <2>1. Used(idx.t2hHead, Plus(tail, k)) = Used(idx.t2hHead, tail) - k
    BY <1>2, Apart
  <2> QED BY <1>1, <1>2, <1>3, <2>1 DEF Behind
<1>5. buf \in [Slots -> Cells]
  BY DEF KnownInv, Known, Cells
<1>6. an \in Seq(Nat)
  <2> DEFINE S == 0 .. asked
  <2>1. an \in Seq(S) /\ S \subseteq Nat
    BY DEF AnswersAre
  <2> HIDE DEF S
  <2> QED BY ONLY <2>1, SeqKinds
<1>7. brRx \in Seq(Cells) /\ n \in 0 .. Len(an) /\ Carries(brRx, buf, tail, Behind, an, n)
  BY <1>2, <1>3, <1>6 DEF AnswersAre
<1> HIDE DEF n, k, buf, tail
<1>8. /\ brRx \o Taken(buf, tail, k) \in Seq(Cells)
      /\ Carries(brRx \o Taken(buf, tail, k), buf, Plus(tail, k), Behind - k, an, n)
  BY ONLY <1>2, <1>5, <1>6, <1>7, CarriesPull
<1>9. Hunted(brRx) = brRx
  <2>1. Behind \in Nat
    BY <1>2, CapAssumption
  <2> QED BY ONLY <1>6, <1>7, <2>1, StagedWhole
<1>10. /\ an \in Seq(0 .. asked')
       /\ Given' \in Seq(Nat) /\ Len(Given') <= Len(an) /\ \A i \in 1 .. Len(Given') : Given'[i] = an[i]
  BY <1>1, <1>3 DEF AnswersAre
<1>11. Staged' \in Seq(Cells) /\ Carries(Staged', ring'.t2h, Base', Behind', an, Len(Given'))
  BY <1>1, <1>3, <1>4, <1>8 DEF buf, n
<1>12. st' = "up" => Ordered(Coming(an)', committed', queue', Len(taken'))
  BY <1>1, <1>3 DEF AnswersAre
<1> QED
  BY <1>1, <1>9, <1>10, <1>11, <1>12 DEF AnswersAre

\* The bridge hands over the next answer.
LEMMA AnswersDeliver ==
  ASSUME FifoInv, KnownInv, RoomInv, Tracked, NEW an, AnswersAre(an), Deliver
  PROVE  AnswersAre(an)'
<1> DEFINE n == Len(Given)
           buf == ring.t2h
           f == FirstFrame(brRx)
<1>1. /\ st = "up" /\ br = "idle" /\ HasFrame(brRx) /\ brRx' = AfterFrame(brRx) /\ got' = Append(got, f)
      /\ UNCHANGED <<ring, idx, fw, st, br, reg, asked, committed, taken, queue>>
  BY DEF Deliver, header, board
<1>2. /\ Base \in Indices /\ Behind \in 0 .. Cap /\ Cap \in Nat
  BY BehindFacts, CapAssumption
<1>3. Base \in Int /\ Behind \in Nat
  <2>1. Base \in Nat
    BY ONLY <1>2, IndexTypes
  <2> QED BY <1>2, <2>1
<1>4. /\ Staged = brRx /\ Staged' = AfterFrame(brRx) /\ Given = got /\ Given' = Append(got, f)
      /\ Base' = Base /\ Coming(an)' = Coming(an)
  BY <1>1 DEF Staged, Base, Given, Coming, Pend
<1>5. Behind' = Behind
  BY <1>1, <1>4 DEF Behind
<1>6. an \in Seq(Nat)
  <2> DEFINE S == 0 .. asked
  <2>1. an \in Seq(S) /\ S \subseteq Nat
    BY DEF AnswersAre
  <2> HIDE DEF S
  <2> QED BY ONLY <2>1, SeqKinds
<1>7. brRx \in Seq(Cells) /\ n \in 0 .. Len(an) /\ Carries(brRx, buf, Base, Behind, an, n)
  BY <1>4, <1>6 DEF AnswersAre
<1>8. got \in Seq(Nat) /\ n = Len(got) /\ \A i \in 1 .. n : got[i] = an[i]
  BY <1>4 DEF AnswersAre
<1> HIDE DEF n, buf, f
<1>9. /\ n < Len(an) /\ FirstFrame(brRx) = an[n + 1] /\ AfterFrame(brRx) \in Seq(Cells)
      /\ Carries(AfterFrame(brRx), buf, Base, Behind, an, n + 1)
  BY ONLY <1>1, <1>3, <1>6, <1>7, CarriesTake
<1>10. /\ Given' \in Seq(Nat) /\ Len(Given') = n + 1 /\ n + 1 <= Len(an)
       /\ \A i \in 1 .. n + 1 : Given'[i] = an[i]
  <2>1. f \in Nat /\ f = an[n + 1] /\ n \in Nat
    BY <1>6, <1>7, <1>9 DEF f
  <2> QED BY <1>4, <1>6, <1>8, <1>9, <2>1
<1>11. Staged' \in Seq(Cells) /\ Carries(Staged', ring'.t2h, Base', Behind', an, Len(Given'))
  BY <1>1, <1>4, <1>5, <1>9, <1>10 DEF buf
<1>12. st' = "up" => Ordered(Coming(an)', committed', queue', Len(taken'))
  BY <1>1, <1>4 DEF AnswersAre
<1>13. an \in Seq(0 .. asked')
  BY <1>1 DEF AnswersAre
<1> QED
  BY <1>1, <1>10, <1>11, <1>12, <1>13 DEF AnswersAre

\* What a step starts from.
AnswersInv == FifoInv /\ KnownInv /\ RequestsInv /\ Emptied /\ RoomInv /\ AnswerInv

\* The steps of the board.
LEMMA AnswersBoard ==
  ASSUME AnswersInv, Reset \/ Board, Tracked' PROVE \E an : AnswersAre(an)'
<1> USE DEF AnswersInv
<1>1. ~ InitHeader
  <2> SUFFICES ASSUME InitHeader PROVE FALSE
    OBVIOUS
  <2>1. epoch' = 0 /\ intact' = FALSE /\ UNCHANGED <<br, reg>>
    BY DEF InitHeader, bridge
  <2> QED BY <2>1, RoomFacts DEF Tracked
<1>2. UNCHANGED <<epoch, bridge>> /\ (intact' => intact)
  BY <1>1 DEF Reset, Board, StartWatch, PollEpoch, AckEpoch, PullChunk, Handle, CommitAnswer, PassEnds,
     header, history
<1>3. Tracked
  BY <1>2 DEF Tracked, bridge
<1>4. PICK an : AnswersAre(an)
  BY <1>3 DEF AnswerInv
<1>5. CASE Handle
  <2>1. AnswersAre(an)'
    BY <1>3, <1>4, <1>5, AnswersHandle
  <2> QED BY <2>1
<1>6. CASE CommitAnswer
  BY <1>3, <1>4, <1>6, AnswersCommit
<1>7. CASE Reset \/ StartWatch \/ PollEpoch \/ AckEpoch \/ PullChunk \/ PassEnds
  <2>1. /\ idx'.t2hHead = idx.t2hHead /\ idx'.t2hTail = idx.t2hTail
        /\ UNCHANGED <<ring, br, st, brRx, reg, asked, committed, taken, queue, got>>
    BY <1>7, RoomFacts DEF Reset, StartWatch, PollEpoch, AckEpoch, PullChunk, PassEnds, header, bridge, history
  <2>2. Given' = Given /\ Staged' = Staged /\ Base' = Base
    BY <2>1 DEF Given, Staged, Base
  <2>3. Behind' = Behind
    BY <2>1, <2>2 DEF Behind
  <2>4. st' = "up" => Ordered(Coming(an)', committed', queue', Len(taken)')
    <3>1. CASE Reset
      <4>1. intact' = FALSE /\ UNCHANGED <<st, br>>
        BY <3>1 DEF Reset, bridge
      <4> QED BY <4>1, RoomFacts DEF Tracked
    <3>2. CASE ~ Reset
      <4>1. fw # "commit" /\ fw' # "commit"
        BY <1>7, <3>2 DEF StartWatch, PollEpoch, AckEpoch, PullChunk, PassEnds
      <4> QED BY <1>4, <2>1, <4>1 DEF AnswersAre, Coming
    <3> QED BY <3>1, <3>2
  <2>5. AnswersAre(an)'
    BY <1>4, <2>1, <2>2, <2>3, <2>4, AnswersKept
  <2> QED BY <2>5
<1> QED
  BY <1>1, <1>5, <1>6, <1>7 DEF Board

\* A port that is not up belongs to nothing unless it attaches; then nothing was answered.
LEMMA AnswersAttach ==
  ASSUME AnswersInv, Attach, Tracked' PROVE \E an : AnswersAre(an)'
<1> USE DEF AnswersInv
<1>1. /\ br \in {"bump", "readHead", "discard", "expect"} => st = "closed"
      /\ st = "attaching" => committed = <<>> /\ queue = <<>>
  BY RoomFacts DEF FifoInv, PortPhases, Emptied
<1>2. CASE AttachReadEpoch \/ AttachBump \/ AckTimeout
  <2>1. st' = "closed" /\ br' \notin {"discard", "expect"}
    BY <1>1, <1>2 DEF AttachReadEpoch, AttachBump, AckTimeout, Closed
  <2> QED BY <2>1 DEF Tracked
<1>3. CASE AttachReadHead
  BY <1>3, AnswersNone
<1>4. CASE AttachDiscard
  <2>1. /\ br = "discard" /\ br' = "expect" /\ st = "closed" /\ idx'.t2hTail = reg.head
        /\ idx'.t2hHead = idx.t2hHead
        /\ UNCHANGED <<epoch, ring, st, brRx, reg, asked, got>>
    BY <1>1, <1>4, RoomFacts DEF AttachDiscard, history
  <2>2. Tracked
    BY <2>1 DEF Tracked
  <2>3. PICK an : AnswersAre(an)
    BY <2>2 DEF AnswerInv
  <2>4. Given' = Given /\ Staged' = Staged /\ Base' = Base
    BY <2>1 DEF Given, Staged, Base
  <2>5. Behind' = Behind
    BY <2>1, <2>4 DEF Behind
  <2>6. AnswersAre(an)'
    BY <2>1, <2>3, <2>4, <2>5, AnswersKept
  <2> QED BY <2>6
<1>5. CASE AttachDone
  <2>1. /\ br = "expect" /\ br' = "idle" /\ st = "closed" /\ st' = "attaching" /\ brRx' = <<>> /\ brRx = <<>>
        /\ got' = <<>> /\ sess'.epoch = reg.epoch
        /\ UNCHANGED <<epoch, idx, ring, reg, asked>>
    BY <1>1, <1>5 DEF AttachDone, header, Emptied
  <2>2. Tracked
    BY <2>1 DEF Tracked
  <2>3. PICK an : AnswersAre(an)
    BY <2>2 DEF AnswerInv
  <2>4. Given' = Given /\ Staged' = Staged /\ Base' = Base
    BY <2>1 DEF Given, Staged, Base
  <2>5. Behind' = Behind
    BY <2>1, <2>4 DEF Behind
  <2>6. AnswersAre(an)'
    BY <2>1, <2>3, <2>4, <2>5, AnswersKept
  <2> QED BY <2>6
<1>6. CASE Acked
  <2>1. /\ br = "idle" /\ st = "attaching" /\ st' = "up" /\ taken' = <<>>
        /\ committed' = <<>> /\ queue' = <<>>
        /\ UNCHANGED <<epoch, idx, ring, br, sess, brRx, reg, asked, got, intact>>
    BY <1>1, <1>6 DEF Acked, header
  <2>2. Tracked
    BY <2>1 DEF Tracked
  <2>3. PICK an : AnswersAre(an)
    BY <2>2 DEF AnswerInv
  <2>4. Given' = Given /\ Staged' = Staged /\ Base' = Base
    BY <2>1 DEF Given, Staged, Base
  <2>5. Behind' = Behind
    BY <2>1, <2>4 DEF Behind
  <2>6. Ordered(Coming(an)', <<>>, <<>>, Len(taken)')
    BY DEF Ordered
  <2>7. AnswersAre(an)'
    BY <2>1, <2>3, <2>4, <2>5, <2>6, AnswersKept
  <2> QED BY <2>7
<1> QED
  BY <1>2, <1>3, <1>4, <1>5, <1>6 DEF Attach

\* The steps of an open port, and what interrupts it.
LEMMA AnswersPort ==
  ASSUME AnswersInv, Service \/ Send \/ Lose \/ Pause \/ Resume, Tracked' PROVE \E an : AnswersAre(an)'
<1> USE DEF AnswersInv
<1>1. ~ Closed
  BY DEF Closed, Tracked
<1>2. /\ br \in {"discard", "expect"} => st = "closed"
      /\ br \in {"commit", "cells", "release"} => st = "up"
      /\ br = "commit" => queue # <<>>
  BY RoomFacts DEF FifoInv, PortPhases
<1>3. UNCHANGED <<epoch, fw, st, intact, taken>> /\ sess'.epoch = sess.epoch /\ ring'.t2h = ring.t2h
  <2>1. UNCHANGED <<epoch, fw, st, intact, taken>>
    BY <1>1 DEF Service, Send, Lose, Pause, Resume, HeaderCheck, WriteCheckSession, WriteCheckFree,
       ProduceReadHead, ProduceReadTail, ProducePayload, ProduceCommit, ConsumeRead, ConsumeCells,
       ConsumeRelease, Deliver, header, board, history
  <2>2. CASE ProduceCommit
    BY <2>1, <2>2 DEF ProduceCommit, FifoInv, HandshakeInv, TypeOK
  <2>3. CASE ProducePayload
    BY <2>1, <2>3, RoomFacts DEF ProducePayload
  <2>4. CASE ~ ProduceCommit /\ ~ ProducePayload
    <3>1. UNCHANGED <<sess, ring>>
      BY <1>1, <2>4 DEF Service, Send, Lose, Pause, Resume, HeaderCheck, WriteCheckSession, WriteCheckFree,
         ProduceReadHead, ProduceReadTail, ConsumeRead, ConsumeCells, ConsumeRelease, Deliver, header
    <3> QED BY <2>1, <3>1
  <2> QED BY <2>2, <2>3, <2>4
<1>4. br' \notin {"discard", "expect"} /\ br \notin {"discard", "expect"}
  BY <1>1 DEF Service, Send, Lose, Pause, Resume, HeaderCheck, WriteCheckSession, WriteCheckFree,
     ProduceReadHead, ProduceReadTail, ProducePayload, ProduceCommit, ConsumeRead, ConsumeCells,
     ConsumeRelease, Deliver
<1>5. Tracked /\ st # "closed" /\ intact
  BY <1>3, <1>4 DEF Tracked
<1>6. PICK an : AnswersAre(an)
  BY <1>5 DEF AnswerInv
<1>7. ASSUME idx'.t2hHead = idx.t2hHead, idx'.t2hTail = idx.t2hTail, UNCHANGED <<brRx, asked, got>>,
             br # "release", br' # "release",
             st = "up" => Ordered(Coming(an), committed', queue', Len(taken))
      PROVE  AnswersAre(an)'
  <2>1. Given' = Given /\ Staged' = Staged /\ Base' = Base
    BY <1>3, <1>4, <1>7 DEF Given, Staged, Base
  <2>2. Behind' = Behind
    BY <1>7, <2>1 DEF Behind
  <2>3. Coming(an)' = Coming(an)
    BY <1>3, <1>7 DEF Coming, Pend
  <2>4. st' = "up" => Ordered(Coming(an)', committed', queue', Len(taken)')
    BY <1>3, <1>7, <2>3
  <2> QED BY <1>3, <1>6, <1>7, <2>1, <2>2, <2>4, AnswersKept
<1>8. st = "up" => Ordered(Coming(an), committed, queue, Len(taken))
  BY <1>6 DEF AnswersAre
<1>9. CASE \/ WriteCheckSession \/ WriteCheckFree \/ ProduceReadHead \/ ProduceReadTail \/ ProducePayload
           \/ ConsumeRead \/ Resume
  <2>1. /\ UNCHANGED <<idx, brRx, asked, got, committed, queue>> /\ br # "release" /\ br' # "release"
    BY <1>1, <1>9 DEF WriteCheckSession, WriteCheckFree, ProduceReadHead, ProduceReadTail, ProducePayload,
       ConsumeRead, Resume, header, history
  <2> QED BY <1>7, <1>8, <2>1
<1>10. CASE ProduceCommit
  <2>1. /\ idx'.t2hHead = idx.t2hHead /\ idx'.t2hTail = idx.t2hTail /\ br = "commit" /\ br' = "idle"
        /\ UNCHANGED <<brRx, asked, got>>
        /\ \/ UNCHANGED <<committed, queue>>
           \/ committed' = Append(committed, Head(queue)) /\ queue' = Tail(queue)
    BY <1>10, RoomFacts DEF ProduceCommit
  <2>2. an \in Seq(0 .. asked) /\ queue # <<>> /\ InSession
    BY <1>2, <1>5, <1>6, <2>1 DEF AnswersAre, InSession
  <2>3. st = "up" => Ordered(Coming(an), committed', queue', Len(taken))
    BY <1>8, <2>1, <2>2, OrderedCommit
  <2> QED BY <1>7, <2>1, <2>3
<1>11. CASE Pause
  <2>1. /\ UNCHANGED <<idx, brRx, asked, got, committed>> /\ queue' = <<>> /\ br = "idle" /\ br' = "paused"
    BY <1>11 DEF Pause, header
  <2>2. st = "up" => Ordered(Coming(an), committed', queue', Len(taken))
    BY <1>8, <2>1, OrderedQueue
  <2> QED BY <1>7, <2>1, <2>2
<1>12. CASE ConsumeCells
  <2>1. AnswersAre(an)'
    BY <1>5, <1>6, <1>12, AnswersPull
  <2> QED BY <2>1
<1>13. CASE ConsumeRelease
  <2>1. /\ br = "release" /\ br' = "idle" /\ idx'.t2hTail = Plus(reg.tail, reg.n)
        /\ brRx' = Hunted(brRx) \o reg.cells /\ idx'.t2hHead = idx.t2hHead
        /\ UNCHANGED <<asked, got, committed, queue>>
    BY <1>13, RoomFacts DEF ConsumeRelease, history
  <2>2. Given' = Given /\ Staged' = Staged /\ Base' = Base
    BY <1>3, <1>6, <2>1 DEF Given, Staged, Base, AnswersAre
  <2>3. Behind' = Behind /\ Coming(an)' = Coming(an)
    BY <1>3, <2>1, <2>2 DEF Behind, Coming, Pend
  <2>4. st' = "up" => Ordered(Coming(an)', committed', queue', Len(taken)')
    BY <1>3, <1>8, <2>1, <2>3
  <2>5. AnswersAre(an)'
    BY <1>3, <1>6, <2>1, <2>2, <2>3, <2>4, AnswersKept
  <2> QED BY <2>5
<1>14. CASE Deliver
  <2>1. AnswersAre(an)'
    BY <1>5, <1>6, <1>14, AnswersDeliver
  <2> QED BY <2>1
<1>15. CASE Send
  <2>1. AnswersAre(an)'
    BY <1>6, <1>15, AnswersSend
  <2> QED BY <2>1
<1>16. CASE HeaderCheck \/ Lose
  BY <1>1, <1>16 DEF HeaderCheck, Lose
<1> QED
  BY <1>9, <1>10, <1>11, <1>12, <1>13, <1>14, <1>15, <1>16 DEF Service

\* Together these are inductive, and hold always.
LEMMA AnswersInvHolds == Spec => []AnswersInv
<1>1. Init => AnswersInv
  <2> SUFFICES ASSUME Init PROVE AnswersInv
    OBVIOUS
  <2>1. FifoInv
    BY FifoInvStart
  <2>2. KnownInv
    <3>1. Blank \in Known
      BY DEF Init, Blank, Known
    <3>2. ring.h2t \in [Slots -> Known] /\ ring.t2h \in [Slots -> Known]
      BY <3>1 DEF Init
    <3> QED BY <3>2 DEF Init, KnownInv
  <2>3. RequestsInv /\ Emptied
    BY DEF Init, RequestsInv, Unlike, Emptied
  <2>4. RoomInv
    <3>1. Answers = 0
      BY IndexTypes, Distance DEF Init, ZeroIdx, Answers
    <3>2. AnswersFit
      BY <3>1, CapAssumption DEF AnswersFit
    <3> QED BY <3>2 DEF Init, RoomInv, AttachFresh, CommitRoom, DiscardBehind, ConsumeInv
  <2>5. AnswerInv
    BY DEF Init, AnswerInv, Tracked
  <2> QED BY <2>1, <2>2, <2>3, <2>4, <2>5 DEF AnswersInv
<1>2. AnswersInv /\ [Next]_vars => AnswersInv'
  <2> SUFFICES ASSUME AnswersInv, [Next]_vars PROVE AnswersInv'
    OBVIOUS
  <2>1. CASE Next
    <3>1. FifoInv /\ KnownInv /\ RequestsInv /\ Emptied /\ RoomInv
      BY DEF AnswersInv
    <3>2. FifoInv'
      BY <2>1, <3>1, FifoInvStep
    <3>3. KnownInv' /\ RequestsInv' /\ Emptied'
      BY <2>1, <3>1, KnownStep, RequestsStep, EmptiedStep
    <3>4. RoomInv'
      BY <2>1, <3>1, BoardRoom, PortRoom DEF Next
    <3>5. AnswerInv'
      <4> SUFFICES ASSUME Tracked' PROVE \E an : AnswersAre(an)'
        BY DEF AnswerInv
      <4> QED BY <2>1, AnswersBoard, AnswersAttach, AnswersPort DEF Next
    <3> QED BY <3>2, <3>3, <3>4, <3>5 DEF AnswersInv
  <2>2. CASE UNCHANGED vars
    <3>1. UNCHANGED <<epoch, ack, idx, ring, fw, last, fwRx, fwReg, st, br, sess, brRx, queue, reg,
                      asked, committed, taken, intact, got>>
      BY <2>2 DEF vars, header, board, bridge, history
    <3>2. FifoInv'
      BY <2>2, FifoInvStep DEF AnswersInv
    <3>3. KnownInv' /\ RequestsInv' /\ Emptied'
      BY <3>1 DEF AnswersInv, KnownInv, Known, RequestsInv, Emptied
    <3>4. RoomInv'
      BY <3>1 DEF AnswersInv, RoomInv, AttachFresh, AnswersFit, CommitRoom, DiscardBehind, ConsumeInv,
         Answers, Pend, Drained, Producing
    <3>5. AnswerInv'
      <4> SUFFICES ASSUME Tracked' PROVE \E an : AnswersAre(an)'
        BY DEF AnswerInv
      <4>1. Tracked
        BY <3>1 DEF Tracked
      <4>2. PICK an : AnswersAre(an)
        BY <4>1 DEF AnswersInv, AnswerInv
      <4>3. Given' = Given /\ Staged' = Staged /\ Base' = Base
        BY <3>1 DEF Given, Staged, Base
      <4>4. Behind' = Behind /\ Coming(an)' = Coming(an)
        BY <3>1, <4>3 DEF Behind, Coming, Pend
      <4>5. st' = "up" => Ordered(Coming(an)', committed', queue', Len(taken)')
        BY <3>1, <4>2, <4>4 DEF AnswersAre
      <4>6. AnswersAre(an)'
        BY <3>1, <4>2, <4>3, <4>4, <4>5, AnswersKept
      <4> QED BY <4>6
    <3> QED BY <3>2, <3>3, <3>4, <3>5 DEF AnswersInv
  <2> QED BY <2>1, <2>2
<1> QED
  BY <1>1, <1>2, PTL DEF Spec

\* The answers of a session that is up come once each, in the order of its requests, and never
\* before the board has handled the request: whatever an earlier session left in the ring, and
\* wherever the accesses of the bridge fall between the board's (Bridge::attach's discard,
\* MailboxSerial::write and Bridge::consume on the t2h ring).
THEOREM AnswersInOrderHolds == Spec => []AnswersInOrder
<1>1. AnswersInv => AnswersInOrder
  <2> SUFFICES ASSUME AnswersInv, st = "up", intact, NEW i \in DOMAIN got, NEW j \in DOMAIN got, i <= j,
                      {got[i], got[j]} \subseteq ToSet(committed)
               PROVE  \E a, b \in DOMAIN taken :
                        /\ taken[a] = got[i] /\ taken[b] = got[j]
                        /\ i < j => a < b /\ got[i] # got[j]
    BY DEF AnswersInOrder
  <2>1. Tracked
    BY DEF AnswersInv, FifoInv, HandshakeInv, CaughtUp, Tracked
  <2>2. PICK an : AnswersAre(an)
    BY <2>1 DEF AnswersInv, AnswerInv
  <2> DEFINE w == Coming(an)
             S == 0 .. asked
  <2>3. /\ got \in Seq(Nat) /\ an \in Seq(S) /\ Len(got) <= Len(an)
        /\ \A x \in 1 .. Len(got) : got[x] = an[x]
    BY <2>2 DEF AnswersAre, Given
  <2>4. Ordered(w, committed, queue, Len(taken))
    BY <2>2 DEF AnswersAre
  <2>5. w = an \/ w = Append(an, Pend)
    BY DEF Coming
  <2> HIDE DEF w, S
  <2>6. /\ i \in DOMAIN w /\ w[i] = got[i] /\ j \in DOMAIN w /\ w[j] = got[j]
        /\ i \in Nat /\ j \in Nat
    <3>1. i \in 1 .. Len(an) /\ j \in 1 .. Len(an) /\ got[i] = an[i] /\ got[j] = an[j]
      BY <2>3
    <3> QED BY <2>3, <2>5, <3>1
  <2>7. PICK k \in DOMAIN committed, l \in DOMAIN committed : got[i] = committed[k] /\ got[j] = committed[l]
    BY DEF ToSet
  <2>8. /\ committed \in Seq(Nat) /\ taken \in Seq(Nat)
        /\ Len(taken) <= Len(committed) /\ \A x \in 1 .. Len(taken) : taken[x] = committed[x]
    BY DEF AnswersInv, FifoInv, InSession, StreamInv
  <2>9. k <= Len(taken) /\ l <= Len(taken) /\ (i < j => k < l)
    BY <2>4, <2>6, <2>7 DEF Ordered
  <2>10. k \in DOMAIN taken /\ taken[k] = got[i] /\ l \in DOMAIN taken /\ taken[l] = got[j]
    BY <2>7, <2>8, <2>9
  <2>11. i < j => got[i] # got[j]
    <3>1. k # l => committed[k] # committed[l]
      BY DEF AnswersInv, RequestsInv, Unlike
    <3>2. k < l => k # l
      BY <2>8
    <3> QED BY <2>7, <2>9, <3>1, <3>2
  <2> QED BY <2>9, <2>10, <2>11
<1> QED
  BY <1>1, AnswersInvHolds, PTL
=============================================================================
