------------------------------- MODULE Mailbox -------------------------------
(***************************************************************************)
(* The SWD RAM mailbox (shared/swd-mailbox) between the board's main loop  *)
(* and the bridge (shared/swd-bridge-core under the port of                *)
(* bridge/core/src/mailbox.rs): two rings of bytes and an epoch handshake  *)
(* in a RAM that both sides address, one through memory accesses over SWD. *)
(*                                                                         *)
(* Each access of the bridge to the RAM is a step of its own.  A step of   *)
(* the board is one call of its side, cut where the bridge could see it    *)
(* half done: payload and commit, flush and acknowledgement.  The board    *)
(* may reset between any two steps; its RAM keeps what it held until the   *)
(* boot writes the header.  init_header is one step: at most one access of *)
(* the bridge fits in its thirteen stores.                                 *)
(*                                                                         *)
(* A ring cell stands for a run of bytes, a frame for FrameLen cells.  The *)
(* framer recognises exactly the frames that were encoded (its CRC).  The  *)
(* epoch is a natural number: a board's life has fewer than 2^32 attaches. *)
(***************************************************************************)
EXTENDS Integers, Sequences, SequencesExt

CONSTANTS
  Cap,        \* cells of a ring, RING_CAP bytes in the code
  IdxMod,     \* the free-running indices wrap here: 2^32 in the code
  FrameLen,   \* cells of a frame
  Pull,       \* cells of one chunked read of the framer, PULL_CHUNK
  Budget,     \* frames the board handles per pass of its loop, DRAIN_BUDGET
  QueueCap,   \* frames the bridge holds for room in the ring, QUEUE
  MaxFrames,  \* bound: frames the bridge is asked to send
  Drive,      \* the frames of them with a latest-wins key
  MaxResets,  \* bound: board resets
  MaxLosses   \* bound: sessions the bridge gives up by itself, and pauses

ASSUME CapAssumption == Cap \in Nat \ {0}
ASSUME FrameLenAssumption == FrameLen \in 1 .. Cap
ASSUME PullAssumption == Pull \in Nat \ {0}
ASSUME IdxModAssumption == IdxMod \in Nat /\ IdxMod >= 2 * Cap /\ IdxMod % Cap = 0
ASSUME DriveAssumption == Drive \subseteq 1 .. MaxFrames

VARIABLES
  \* the mailbox region
  epoch, ack,        \* session words of the header
  idx,               \* the four ring indices
  ring,              \* the two data buffers
  \* the board
  fw, last, fwRx, seen, drained, fwReg,
  \* the bridge
  st, br, sess, brRx, queue, reg,
  \* history
  asked,             \* frames the bridge was asked to send
  committed, taken,  \* this session's frames: put in h2t, handled by the board
  intact,            \* no board reset since this session attached
  got,               \* the answers this session was given
  times,             \* per frame, how often the board handled it
  resets, losses

header == <<epoch, ack, idx, ring>>
board == <<fw, last, fwRx, seen, drained, fwReg>>
bridge == <<st, br, sess, brRx, queue, reg>>
history == <<asked, committed, taken, got, intact, times, resets, losses>>
vars == <<header, board, bridge, history>>

Frames == 1 .. MaxFrames
Slots == 0 .. Cap - 1
Blank == <<0, 0>>
Frame(f) == [i \in 1 .. FrameLen |-> <<f, i>>]
NoSession == [epoch |-> 0, expect |-> 0, on |-> FALSE]

-----------------------------------------------------------------------------
(* Rings and framer. *)

Plus(i, n) == (i + n) % IdxMod

Used(head, tail) == (head - tail) % IdxMod

\* The subtraction wraps: a ring whose indices disagree reads as all but empty.
Free(head, tail) == (Cap - Used(head, tail)) % IdxMod

Lesser(a, b) == IF a < b THEN a ELSE b

\* The buffer after a run of cells is written from a free-running index on.
Placed(buf, at, cells) ==
  [s \in Slots |-> LET k == (s - at) % Cap
                   IN  IF k < Len(cells) THEN cells[k + 1] ELSE buf[s]]

Taken(buf, at, n) == [k \in 1 .. n |-> buf[(at + k - 1) % Cap]]

\* The places where the bytes held so far can still be, or are, a frame.
Starts(rx) ==
  {i \in 1 .. Len(rx) :
     /\ rx[i][2] = 1
     /\ \A k \in 1 .. FrameLen : i + k - 1 <= Len(rx) => rx[i + k - 1] = <<rx[i][1], k>>}

\* Resync: everything before the first such place is dropped.
Hunted(rx) ==
  IF Starts(rx) = {} THEN <<>>
  ELSE SubSeq(rx, CHOOSE i \in Starts(rx) : \A j \in Starts(rx) : i <= j, Len(rx))

HasFrame(rx) == Len(Hunted(rx)) >= FrameLen
FirstFrame(rx) == Hunted(rx)[1][1]
AfterFrame(rx) == SubSeq(Hunted(rx), FrameLen + 1, Len(Hunted(rx)))

-----------------------------------------------------------------------------
(* The board. *)

ZeroIdx == [h2tHead |-> 0, h2tTail |-> 0, t2hHead |-> 0, t2hTail |-> 0]

Init ==
  /\ epoch = 0 /\ ack = 0 /\ idx = ZeroIdx
  /\ ring = [h2t |-> [s \in Slots |-> Blank], t2h |-> [s \in Slots |-> Blank]]
  /\ fw = "watch" /\ last = 0 /\ fwRx = <<>> /\ seen = FALSE /\ drained = 0 /\ fwReg = 0
  /\ st = "closed" /\ br = "idle" /\ sess = NoSession /\ brRx = <<>> /\ queue = <<>>
  /\ reg = [epoch |-> 0, head |-> 0, tail |-> 0, n |-> 0, cells |-> <<>>]
  /\ asked = 0 /\ committed = <<>> /\ taken = <<>> /\ got = <<>> /\ intact = TRUE
  /\ times = [f \in Frames |-> 0] /\ resets = 0 /\ losses = 0

Reset ==
  /\ resets < MaxResets /\ fw # "boot"
  /\ resets' = resets + 1 /\ intact' = FALSE
  /\ fw' = "boot" /\ fwRx' = <<>> /\ seen' = FALSE /\ drained' = 0 /\ fwReg' = 0
  /\ UNCHANGED <<header, last, bridge, asked, committed, taken, got, times, losses>>

InitHeader ==
  /\ fw = "boot" /\ fw' = "watch"
  /\ epoch' = 0 /\ ack' = 0 /\ idx' = ZeroIdx
  /\ intact' = FALSE
  /\ UNCHANGED <<ring, last, fwRx, seen, drained, fwReg, bridge,
                 asked, committed, taken, got, times, resets, losses>>

\* EpochWatch::new, at the end of the boot.
StartWatch ==
  /\ fw = "watch" /\ fw' = "poll" /\ last' = epoch
  /\ UNCHANGED <<header, fwRx, seen, drained, fwReg, bridge, history>>

\* EpochWatch::poll: a new session, and its flush of the inbound ring.
PollEpoch ==
  /\ fw = "poll"
  /\ IF epoch # last
     THEN /\ last' = epoch /\ idx' = [idx EXCEPT !.h2tTail = idx.h2tHead] /\ fw' = "ack"
     ELSE fw' = "drain" /\ UNCHANGED <<last, idx>>
  /\ drained' = 0
  /\ UNCHANGED <<epoch, ack, ring, fwRx, seen, fwReg, bridge, history>>

\* Mutant: the framer keeps what the session before left in it.
AckEpochKeepsPartial ==
  /\ fw = "ack" /\ fw' = "drain"
  /\ ack' = last
  /\ UNCHANGED <<epoch, idx, ring, last, fwRx, seen, drained, fwReg, bridge, history>>

AckEpoch ==
  /\ fw = "ack" /\ fw' = "drain"
  /\ fwRx' = <<>> /\ ack' = last
  /\ UNCHANGED <<epoch, idx, ring, last, seen, drained, fwReg, bridge, history>>

\* Mutant: a read waits for a full chunk.
PullChunkWhole ==
  /\ fw = "drain" /\ ~HasFrame(fwRx) /\ Used(idx.h2tHead, idx.h2tTail) >= Pull
  /\ fwRx' = Hunted(fwRx) \o Taken(ring.h2t, idx.h2tTail, Pull)
  /\ idx' = [idx EXCEPT !.h2tTail = Plus(@, Pull)]
  /\ seen' = TRUE
  /\ UNCHANGED <<epoch, ack, ring, fw, last, drained, fwReg, bridge, history>>

\* recv_l2_frame: one chunk out of the ring, when what is staged holds no frame.
PullChunk ==
  LET n == Lesser(Pull, Used(idx.h2tHead, idx.h2tTail))
  IN  /\ fw = "drain" /\ ~HasFrame(fwRx) /\ n > 0
      /\ fwRx' = Hunted(fwRx) \o Taken(ring.h2t, idx.h2tTail, n)
      /\ idx' = [idx EXCEPT !.h2tTail = Plus(@, n)]
      /\ seen' = TRUE
      /\ UNCHANGED <<epoch, ack, ring, fw, last, drained, fwReg, bridge, history>>

\* Mutant: the answer is written over what the bridge has not read.
TakesAnswerUnchecked == seen \/ epoch # 0

\* MailboxSerial::write: all or nothing, and nothing while nobody has reached this board.
TakesAnswer ==
  /\ seen \/ epoch # 0
  /\ Free(idx.t2hHead, idx.t2hTail) >= FrameLen

\* A whole frame reaches the responder; the payload of its answer goes into t2h.
Handle ==
  LET f == FirstFrame(fwRx)
  IN  /\ fw = "drain" /\ HasFrame(fwRx)
      /\ fwRx' = AfterFrame(fwRx)
      /\ drained' = drained + 1
      /\ taken' = Append(taken, f)
      /\ times' = [times EXCEPT ![f] = Lesser(@ + 1, 2)]
      /\ IF TakesAnswer
         THEN /\ ring' = [ring EXCEPT !.t2h = Placed(@, idx.t2hHead, Frame(f))]
              /\ fwReg' = Plus(idx.t2hHead, FrameLen)
              /\ fw' = "commit"
         ELSE /\ fw' = IF drained + 1 = Budget THEN "poll" ELSE "drain"
              /\ UNCHANGED <<ring, fwReg>>
      /\ UNCHANGED <<epoch, ack, idx, last, seen, bridge,
                     asked, committed, got, intact, resets, losses>>

CommitAnswer ==
  /\ fw = "commit"
  /\ idx' = [idx EXCEPT !.t2hHead = fwReg]
  /\ fw' = IF drained = Budget THEN "poll" ELSE "drain"
  /\ UNCHANGED <<epoch, ack, ring, last, fwRx, seen, drained, fwReg, bridge, history>>

PassEnds ==
  /\ fw = "drain" /\ ~HasFrame(fwRx) /\ Used(idx.h2tHead, idx.h2tTail) = 0
  /\ fw' = "poll" /\ fwRx' = Hunted(fwRx)
  /\ UNCHANGED <<header, last, seen, drained, fwReg, bridge, history>>

Board == \/ InitHeader \/ StartWatch \/ PollEpoch \/ AckEpoch
         \/ PullChunk \/ Handle \/ CommitAnswer \/ PassEnds

-----------------------------------------------------------------------------
(* The bridge: attach. *)

\* close: detach, drop the framer's partial, the staged bytes and the queue.
Closed ==
  /\ st' = "closed" /\ br' = "idle" /\ sess' = NoSession /\ brRx' = <<>> /\ queue' = <<>>

AttachReadEpoch ==
  /\ st = "closed" /\ br = "idle" /\ br' = "bump"
  /\ reg' = [reg EXCEPT !.epoch = epoch + 1]
  /\ UNCHANGED <<header, board, st, sess, brRx, queue, history>>

AttachBump ==
  /\ br = "bump" /\ br' = "readHead" /\ epoch' = reg.epoch
  /\ UNCHANGED <<ack, idx, ring, board, st, sess, brRx, queue, reg, history>>

AttachReadHead ==
  /\ br = "readHead" /\ br' = "discard"
  /\ reg' = [reg EXCEPT !.head = idx.t2hHead]
  /\ UNCHANGED <<header, board, st, sess, brRx, queue, history>>

AttachDiscard ==
  /\ br = "discard" /\ br' = "expect"
  /\ idx' = [idx EXCEPT !.t2hTail = reg.head]
  /\ UNCHANGED <<epoch, ack, ring, board, st, sess, brRx, queue, reg, history>>

AttachDone ==
  /\ br = "expect" /\ br' = "idle" /\ st' = "attaching"
  /\ sess' = [epoch |-> reg.epoch, expect |-> idx.h2tHead, on |-> TRUE]
  /\ brRx' = <<>>
  /\ committed' = <<>> /\ taken' = <<>> /\ got' = <<>> /\ intact' = TRUE
  /\ UNCHANGED <<header, board, queue, reg, asked, times, resets, losses>>

\* Mutant: an empty ring is taken for the acknowledgement.
AckedUnflushed ==
  /\ st = "attaching" /\ br = "idle" /\ idx.h2tTail = idx.h2tHead /\ st' = "up"
  /\ taken' = <<>>
  /\ UNCHANGED <<header, board, br, sess, brRx, queue, reg,
                 asked, committed, got, intact, times, resets, losses>>

\* flush_acked, polled.
Acked ==
  /\ st = "attaching" /\ br = "idle" /\ ack = sess.epoch /\ st' = "up"
  /\ taken' = <<>>
  /\ UNCHANGED <<header, board, br, sess, brRx, queue, reg,
                 asked, committed, got, intact, times, resets, losses>>

\* ACK_TIMEOUT_US is many passes of the loop: it runs out only on a board that is not going
\* to acknowledge, one that booted since the attach.
AckTimeout ==
  /\ st = "attaching" /\ br = "idle" /\ ack # sess.epoch
  /\ fw # "boot" /\ fw # "ack" /\ last = epoch
  /\ Closed
  /\ UNCHANGED <<header, board, reg, history>>

-----------------------------------------------------------------------------
(* The bridge: service of an open port. *)

\* send: a newer drive frame takes the place of an unsent older one; a full queue drops.
Queued(f) ==
  IF f \in Drive /\ \E i \in DOMAIN queue : queue[i] \in Drive
  THEN [i \in DOMAIN queue |-> IF queue[i] \in Drive THEN f ELSE queue[i]]
  ELSE IF Len(queue) < QueueCap THEN Append(queue, f) ELSE queue

Send ==
  /\ st = "up" /\ br = "idle" /\ asked < MaxFrames
  /\ asked' = asked + 1 /\ queue' = Queued(asked + 1)
  /\ UNCHANGED <<header, board, st, br, sess, brRx, reg, committed, taken, got, intact, times, resets, losses>>

\* Mutant: only a newer session is noticed.
HeaderCheckNewer ==
  /\ st = "up" /\ br = "idle" /\ epoch > sess.epoch
  /\ Closed
  /\ UNCHANGED <<header, board, reg, history>>

\* The periodic check_session of service.
HeaderCheck ==
  /\ st = "up" /\ br = "idle" /\ epoch # sess.epoch
  /\ Closed
  /\ UNCHANGED <<header, board, reg, history>>

\* BridgeSerial::write: the session first, then the free space, then produce.
WriteCheckSession ==
  /\ st = "up" /\ br = "idle" /\ queue # <<>>
  /\ IF epoch # sess.epoch THEN Closed
     ELSE br' = "free" /\ UNCHANGED <<st, sess, brRx, queue>>
  /\ UNCHANGED <<header, board, reg, history>>

WriteCheckFree ==
  /\ br = "free"
  /\ br' = IF Free(idx.h2tHead, idx.h2tTail) < FrameLen THEN "idle" ELSE "head"
  /\ UNCHANGED <<header, board, st, sess, brRx, queue, reg, history>>

ProduceReadHead ==
  /\ br = "head"
  /\ IF idx.h2tHead # sess.expect THEN Closed /\ UNCHANGED reg
     ELSE /\ br' = "tail" /\ reg' = [reg EXCEPT !.head = idx.h2tHead]
          /\ UNCHANGED <<st, sess, brRx, queue>>
  /\ UNCHANGED <<header, board, history>>

ProduceReadTail ==
  /\ br = "tail" /\ br' = "payload"
  /\ reg' = [reg EXCEPT !.n = Lesser(FrameLen, Free(reg.head, idx.h2tTail))]
  /\ UNCHANGED <<header, board, st, sess, brRx, queue, history>>

ProducePayload ==
  /\ br = "payload" /\ br' = "commit"
  /\ ring' = [ring EXCEPT !.h2t = Placed(@, reg.head, SubSeq(Frame(Head(queue)), 1, reg.n))]
  /\ UNCHANGED <<epoch, ack, idx, board, st, sess, brRx, queue, reg, history>>

\* A frame that did not fit whole stays queued.
ProduceCommit ==
  LET head == Plus(reg.head, reg.n)
  IN  /\ br = "commit" /\ br' = "idle"
      /\ idx' = [idx EXCEPT !.h2tHead = head]
      /\ sess' = [sess EXCEPT !.expect = head]
      /\ IF reg.n = FrameLen
         THEN queue' = Tail(queue) /\ committed' = Append(committed, Head(queue))
         ELSE UNCHANGED <<queue, committed>>
      /\ UNCHANGED <<epoch, ack, ring, board, st, brRx, reg, asked, taken, got, intact, times, resets, losses>>

\* consume: the indices, the cells, then the tail that releases them.
ConsumeRead ==
  LET n == Lesser(Pull, Used(idx.t2hHead, idx.t2hTail))
  IN  /\ st = "up" /\ br = "idle" /\ ~HasFrame(brRx) /\ n > 0 /\ br' = "cells"
      /\ reg' = [reg EXCEPT !.tail = idx.t2hTail, !.n = n]
      /\ UNCHANGED <<header, board, st, sess, brRx, queue, history>>

ConsumeCells ==
  /\ br = "cells" /\ br' = "release"
  /\ reg' = [reg EXCEPT !.cells = Taken(ring.t2h, reg.tail, reg.n)]
  /\ UNCHANGED <<header, board, st, sess, brRx, queue, history>>

ConsumeRelease ==
  /\ br = "release" /\ br' = "idle"
  /\ idx' = [idx EXCEPT !.t2hTail = Plus(reg.tail, reg.n)]
  /\ brRx' = Hunted(brRx) \o reg.cells
  /\ reg' = [reg EXCEPT !.cells = <<>>]
  /\ UNCHANGED <<epoch, ack, ring, board, st, sess, queue, history>>

\* recv hands a completed packet over.
Deliver ==
  /\ st = "up" /\ br = "idle" /\ HasFrame(brRx)
  /\ brRx' = AfterFrame(brRx) /\ got' = Append(got, FirstFrame(brRx))
  /\ UNCHANGED <<header, board, st, br, sess, queue, reg, asked, committed, taken, intact, times, resets, losses>>

\* lost, and hold with its release: a memory access failed, or a flash job had the pins.
Lose ==
  /\ br # "paused" /\ (st # "closed" \/ br # "idle")
  /\ losses < MaxLosses /\ losses' = losses + 1
  /\ Closed
  /\ UNCHANGED <<header, board, reg, asked, committed, taken, got, intact, times, resets>>

\* pause: a debugger is about to halt the core, or lets it go again.  The session stays.
Pause ==
  /\ br = "idle" /\ losses < MaxLosses /\ losses' = losses + 1
  /\ br' = "paused" /\ queue' = <<>>
  /\ UNCHANGED <<header, board, st, sess, brRx, reg, asked, committed, taken, got, intact, times, resets>>

Resume ==
  /\ br = "paused" /\ br' = "idle"
  /\ UNCHANGED <<header, board, st, sess, brRx, queue, reg, history>>

Attach == \/ AttachReadEpoch \/ AttachBump \/ AttachReadHead \/ AttachDiscard \/ AttachDone
          \/ Acked \/ AckTimeout
Service == \/ HeaderCheck \/ WriteCheckSession \/ WriteCheckFree
           \/ ProduceReadHead \/ ProduceReadTail \/ ProducePayload \/ ProduceCommit
           \/ ConsumeRead \/ ConsumeCells \/ ConsumeRelease \/ Deliver

Next == Reset \/ Board \/ Attach \/ Send \/ Service \/ Lose \/ Pause \/ Resume

Spec == Init /\ [][Next]_vars

\* The board's loop and the bridge's poll each go on, and a debugger lets the core go; nothing
\* else has to happen.
Fairness == WF_vars(Board) /\ WF_vars(Attach) /\ WF_vars(Service) /\ WF_vars(Resume)

FairSpec == Spec /\ Fairness

-----------------------------------------------------------------------------
(* What must hold. *)

Indices == 0 .. IdxMod - 1

TypeOK ==
  /\ epoch \in Nat /\ ack \in Nat /\ last \in Nat
  /\ idx \in [h2tHead : Indices, h2tTail : Indices, t2hHead : Indices, t2hTail : Indices]
  /\ fw \in {"boot", "watch", "poll", "ack", "drain", "commit"} /\ fwReg \in Indices
  /\ st \in {"closed", "attaching", "up"}
  /\ br \in {"idle", "bump", "readHead", "discard", "expect",
             "paused", "free", "head", "tail", "payload", "commit", "cells", "release"}
  /\ sess \in [epoch : Nat, expect : Indices, on : BOOLEAN]
  /\ DOMAIN reg = {"epoch", "head", "tail", "n", "cells"}
  /\ reg.epoch \in Nat /\ reg.head \in Indices /\ reg.tail \in Indices /\ reg.n \in Nat
  /\ intact \in BOOLEAN

\* The flush that answers a new session never runs inside it: once the bridge has seen the
\* acknowledgement, and while the board stays up, no poll drops what the bridge has queued
\* (swd-mailbox/src/lib.rs, Bridge::attach: the attach race).
FlushSparesSession == [][PollEpoch /\ st = "up" /\ intact => idx' = idx]_vars

\* In such a session the board handles exactly what was put in the ring, in order, nothing
\* lost, torn, doubled or left over from another session: what it has handled and what is
\* still underway are together what was committed.
SessionIsFifo ==
  st = "up" /\ intact =>
    LET underway == fwRx \o Taken(ring.h2t, idx.h2tTail, Used(idx.h2tHead, idx.h2tTail))
    IN  /\ Len(underway) % FrameLen = 0
        /\ taken \o [i \in 1 .. Len(underway) \div FrameLen |-> underway[i * FrameLen][1]]
             = committed

\* An answer to a request of this session comes once, in the order of the requests, and only
\* after the board handled it; answers are lost only to a full ring, before they are written.
AnswersInOrder ==
  st = "up" /\ intact =>
    \A i, j \in DOMAIN got :
      i <= j /\ {got[i], got[j]} \subseteq ToSet(committed) =>
        \E a, b \in DOMAIN taken :
          /\ taken[a] = got[i] /\ taken[b] = got[j]
          /\ i < j => a < b /\ got[i] # got[j]

\* However resets, lost accesses and attaches cross, the port ends up serving the board's
\* present session.
Reconnects == []<>(st = "up" /\ epoch = sess.epoch)

\* Two full rings do not hold each other up: what a session queued is handled by the board,
\* or the session ends.
Served ==
  st = "up" /\ intact /\ (queue # <<>> \/ taken # committed)
    ~> (queue = <<>> /\ taken = committed) \/ st # "up" \/ ~intact

\* The board handles a frame once.  It does not hold: see MCMailboxReset.cfg.
NoReplay == \A f \in Frames : times[f] <= 1
=============================================================================
