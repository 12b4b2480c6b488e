------------------------------- MODULE Stream -------------------------------
(***************************************************************************)
(* How a console gets frames out of the FujiNet: the mailbox handshake of  *)
(* mailbox.asm and, above it, the read, the ring of received bytes and the *)
(* parser of SES_PUMP.                                                     *)
(*                                                                         *)
(* The console stages a command, writes a sequence number and polls for    *)
(* its acknowledgement; it gives up after a while, but the peripheral may  *)
(* have the command already and complete it later.  The peripheral (not    *)
(* part of this repository) takes what is staged when SEQ differs from     *)
(* ACKSEQ, which is how mailbox.asm uses it.                               *)
(***************************************************************************)
EXTENDS Integers, Sequences

CONSTANTS
  Ring,        \* bytes of the receive ring (256)
  ReadMax,     \* most bytes asked for at a time (64)
  MaxBody,     \* longest body of any frame (99, STATE)
  MaxSeq,      \* last sequence number (255)
  Byte,        \* byte values
  Flen,        \* SES_FLEN: per type that arrives, its bounds of the body
  Frame,       \* what the server may send: length, type, payload
  MaxSent,     \* bound: frames sent
  MaxTrouble   \* bound: time-outs and error replies

ASSUME SizeAssumption ==
  /\ {Ring, ReadMax, MaxBody, MaxSeq, MaxSent, MaxTrouble} \subseteq Nat
  /\ ReadMax >= 1 /\ MaxBody >= 1 /\ MaxBody + ReadMax < Ring /\ MaxSeq >= 2
  /\ Byte \subseteq Nat /\ 0 \in Byte
  /\ Flen \in [DOMAIN Flen -> [min : Nat, max : 0 .. MaxBody]]
  /\ DOMAIN Flen \subseteq Byte

(* The server's frames are of the types and lengths the console expects.   *)
ASSUME FrameAssumption ==
  \A f \in Frame :
    /\ f \in Seq(Byte) /\ Len(f) >= 2 /\ Len(f) = f[1] + 1
    /\ f[2] \in DOMAIN Flen /\ f[1] >= Flen[f[2]].min /\ f[1] <= Flen[f[2]].max

VARIABLES
  queue,    \* bytes the peripheral has for the console
  job,      \* the command it is working on
  ackseq,   \* FN_ACKSEQ
  reply,    \* FN_REPLY_CMD, FN_RX, FN_RXLEN
  seq,      \* FN_SEQ
  cmd,      \* the staged command
  pc,       \* waiting for the reply of a command, or between two
  rx, wr, rd,   \* RXACC, RX_WR, RX_RD
  sent, got,    \* history: frames sent by the server, frames dispatched
  lost,         \* history: has a late READ swallowed bytes?
  trouble       \* history: time-outs and error replies so far

peripheral == <<queue, job, ackseq, reply>>
mailbox == <<seq, cmd>>
ring == <<rx, wr, rd>>
vars == <<peripheral, mailbox, pc, ring, sent, got, lost, trouble>>

Slot == 0 .. Ring - 1
Command == [op : {"status", "read", "write"}, want : 0 .. ReadMax]
Job == [op : {"status", "read", "write"}, want : 0 .. ReadMax, seq : 0 .. MaxSeq]
NoJob == [op |-> "none", want |-> 0, seq |-> 0]
Reply == [op : {"none", "error", "status", "read", "write"}, avail : Nat, bytes : Seq(Byte)]
Waiting == {"status", "read", "write", "answer"}

(* Every cell holds what it is meant for, and no reply more bytes than     *)
(* were asked for.                                                         *)
TypeOK ==
  /\ queue \in Seq(Byte) /\ job \in Job \cup {NoJob}
  /\ ackseq \in 0 .. MaxSeq /\ seq \in 0 .. MaxSeq
  /\ reply \in Reply /\ Len(reply.bytes) <= ReadMax
  /\ cmd \in Command /\ pc \in {"idle", "parse", "handler"} \cup Waiting
  /\ rx \in [Slot -> Byte] /\ wr \in Slot /\ rd \in Slot
  /\ sent \in Seq(Seq(Byte)) /\ got \in Seq(Seq(Byte))
  /\ lost \in BOOLEAN /\ trouble \in Nat

Replied(op, n, bytes) == [op |-> op, avail |-> n, bytes |-> bytes]

(* A console reset clears the ring but not the peripheral's ACKSEQ.        *)
Init ==
  /\ queue = <<>> /\ job = NoJob /\ reply = Replied("none", 0, <<>>)
  /\ ackseq \in 0 .. MaxSeq /\ seq = ackseq
  /\ cmd = [op |-> "status", want |-> 0] /\ pc = "idle"
  /\ rx = [i \in Slot |-> 0] /\ wr = 0 /\ rd = 0
  /\ sent = <<>> /\ got = <<>> /\ lost = FALSE /\ trouble = 0

-----------------------------------------------------------------------------
(* The server sends a frame.                                               *)
Send(f) ==
  /\ Len(sent) < MaxSent
  /\ sent' = Append(sent, f) /\ queue' = queue \o f
  /\ UNCHANGED <<job, ackseq, reply, mailbox, pc, ring, got, lost, trouble>>

(* The peripheral takes the staged command.                                *)
PickUp ==
  /\ job = NoJob /\ seq # ackseq
  /\ job' = [op |-> cmd.op, want |-> cmd.want, seq |-> seq]
  /\ UNCHANGED <<queue, ackseq, reply, mailbox, pc, ring, sent, got, lost, trouble>>

Smaller(a, b) == IF a < b THEN a ELSE b

(* It completes one.  Bytes read for a console that has walked away are    *)
(* lost.                                                                   *)
Complete ==
  /\ job # NoJob
  /\ job' = NoJob /\ ackseq' = job.seq
  /\ UNCHANGED <<mailbox, pc, ring, sent, got>>
  /\ \/ /\ job.op = "status"
        /\ \E n \in 0 .. Len(queue) :
             /\ n = 0 => queue = <<>>
             /\ reply' = Replied("status", n, <<>>)
        /\ UNCHANGED <<queue, lost, trouble>>
     \/ /\ job.op = "read"
        /\ LET n == Smaller(job.want, Len(queue)) IN
             /\ reply' = Replied("read", 0, SubSeq(queue, 1, n))
             /\ queue' = SubSeq(queue, n + 1, Len(queue))
             /\ lost' = (lost \/ (pc # "read" /\ n > 0))
        /\ UNCHANGED trouble
     \/ /\ job.op = "write"
        /\ reply' = Replied("write", 0, <<>>)
        /\ UNCHANGED <<queue, lost, trouble>>
     \/ /\ trouble < MaxTrouble /\ trouble' = trouble + 1
        /\ reply' = Replied("error", 0, <<>>)
        /\ UNCHANGED <<queue, lost>>

-----------------------------------------------------------------------------
(* The next sequence number comes from ACKSEQ and skips 0.                 *)
NextSeq == IF ackseq = MaxSeq THEN 1 ELSE ackseq + 1

(* MB_TRANSACT up to its poll loop.                                        *)
Stage(op, want) ==
  /\ cmd' = [op |-> op, want |-> want]
  /\ seq' = NextSeq

StartPump ==
  /\ pc = "idle"
  /\ Stage("status", 0) /\ pc' = "status"
  /\ UNCHANGED <<peripheral, ring, sent, got, lost, trouble>>

(* NET_WRITE, between two pumps or from a frame handler inside one.        *)
StartWrite ==
  /\ pc \in {"idle", "handler"}
  /\ Stage("write", 0) /\ pc' = IF pc = "idle" THEN "write" ELSE "answer"
  /\ UNCHANGED <<peripheral, ring, sent, got, lost, trouble>>

(* Where the console goes on after a command.                              *)
After == IF pc = "write" THEN "idle" ELSE IF pc = "answer" THEN "handler" ELSE "parse"

TimeOutReadingOn ==  \* mutant
  /\ pc \in Waiting /\ ackseq # seq /\ trouble < MaxTrouble
  /\ trouble' = trouble + 1
  /\ IF pc = "status" THEN pc' = "read" /\ \E n \in 1 .. ReadMax : Stage("read", n)
     ELSE pc' = After /\ UNCHANGED mailbox
  /\ UNCHANGED <<peripheral, ring, sent, got, lost>>

(* The poll loop runs out.  A pump goes on to parse what it has, and       *)
(* nobody looks whether a write was taken.                                 *)
TimeOut ==
  /\ pc \in Waiting /\ ackseq # seq /\ trouble < MaxTrouble
  /\ trouble' = trouble + 1
  /\ pc' = After
  /\ UNCHANGED <<peripheral, mailbox, ring, sent, got, lost>>

Acked(at) == pc = at /\ ackseq = seq

Written ==
  /\ Acked("write") \/ Acked("answer")
  /\ pc' = After
  /\ UNCHANGED <<peripheral, mailbox, ring, sent, got, lost, trouble>>

AvailsUnclamped ==  \* mutant
  IF reply.op = "status" THEN {reply.avail}
  ELSE IF reply.op = "error" THEN {0} ELSE 0 .. ReadMax

(* What NET_STATUS may take the reply for.  A late reply of another        *)
(* command is read as a status all the same, with any outcome.             *)
Avails ==
  IF reply.op = "status" THEN {Smaller(reply.avail, ReadMax)}
  ELSE IF reply.op = "error" THEN {0} ELSE 0 .. ReadMax

(* NET_STATUS is back: read what there is, at most ReadMax bytes.          *)
GotStatus ==
  /\ Acked("status")
  /\ \E n \in Avails :
       IF n = 0 THEN pc' = "parse" /\ UNCHANGED mailbox
       ELSE pc' = "read" /\ Stage("read", n)
  /\ UNCHANGED <<peripheral, ring, sent, got, lost, trouble>>

(* A ring index that has been moved on, and how far b is ahead of a.       *)
Wrap(i) == IF i >= Ring THEN i - Ring ELSE i
Ahead(a, b) == IF b >= a THEN b - a ELSE b - a + Ring
Buffered == Ahead(rd, wr)

(* NET_READ is back: append its bytes to the ring.                         *)
GotRead ==
  /\ Acked("read")
  /\ rx' = [i \in Slot |-> IF Ahead(wr, i) < Len(reply.bytes)
                           THEN reply.bytes[Ahead(wr, i) + 1] ELSE rx[i]]
  /\ wr' = Wrap(wr + Len(reply.bytes))
  /\ pc' = "parse"
  /\ UNCHANGED <<peripheral, mailbox, rd, sent, got, lost, trouble>>

-----------------------------------------------------------------------------
BodyLen == rx[rd]
Type == rx[Wrap(rd + 1)]

PlausibleNoMax == Type \in DOMAIN Flen /\ BodyLen >= Flen[Type].min  \* mutant

(* The framing check: could a frame begin at the read index?               *)
Plausible ==
  /\ Type \in DOMAIN Flen
  /\ BodyLen >= Flen[Type].min /\ BodyLen <= Flen[Type].max

WholeEarly == BodyLen <= Buffered  \* mutant
WholeLate == BodyLen + 1 < Buffered  \* mutant

(* All of it is here, the length byte included.                            *)
Whole == BodyLen + 1 <= Buffered

(* One turn of the parse loop: dispatch a frame to its handler, discard a  *)
(* byte, or end.                                                           *)
Dispatch ==
  /\ pc = "parse" /\ Buffered >= 2 /\ Plausible /\ Whole
  /\ got' = Append(got, [i \in 1 .. BodyLen + 1 |-> rx[Wrap(rd + i - 1)]])
  /\ rd' = Wrap(rd + BodyLen + 1)
  /\ pc' = "handler"
  /\ UNCHANGED <<peripheral, mailbox, rx, wr, sent, lost, trouble>>

HandlerDone ==
  /\ pc = "handler"
  /\ pc' = "parse"
  /\ UNCHANGED <<peripheral, mailbox, ring, sent, got, lost, trouble>>

Slip ==
  /\ pc = "parse" /\ Buffered >= 2 /\ ~Plausible
  /\ rd' = Wrap(rd + 1)
  /\ UNCHANGED <<peripheral, mailbox, pc, rx, wr, sent, got, lost, trouble>>

ParseDone ==
  /\ pc = "parse" /\ (Buffered < 2 \/ (Plausible /\ ~Whole))
  /\ pc' = "idle"
  /\ UNCHANGED <<peripheral, mailbox, ring, sent, got, lost, trouble>>

-----------------------------------------------------------------------------
Peripheral == PickUp \/ Complete
Console == GotStatus \/ GotRead \/ Written \/ Dispatch \/ Slip \/ ParseDone
Next ==
  \/ \E f \in Frame : Send(f)
  \/ Peripheral \/ Console \/ HandlerDone \/ StartPump \/ StartWrite \/ TimeOut

Spec == Init /\ [][Next]_vars

(* The peripheral works, a handler writes finitely many frames, and the    *)
(* console pumps again and again in every state of its main loop.          *)
Fairness ==
  /\ WF_vars(Peripheral) /\ WF_vars(Console)
  /\ SF_vars(HandlerDone) /\ SF_vars(StartPump)
FairSpec == Spec /\ Fairness

-----------------------------------------------------------------------------
(* A READ is acknowledged by its own completion and never by that of a     *)
(* command given up earlier, which may carry the same sequence number: the *)
(* bytes put into the ring are bytes of the stream.                        *)
ReadIsOwn == Acked("read") => reply.op \in {"read", "error"}

(* The ring has no overflow check.  What a READ brings always fits, also   *)
(* after bytes were lost and rubbish is taken for the head of a frame.     *)
RoomInRing == Acked("read") => Buffered + Len(reply.bytes) < Ring

(* As long as no late READ has swallowed bytes, the frames dispatched are  *)
(* those the server sent, each once and in order.                          *)
InOrder ==
  ~lost => /\ Len(got) <= Len(sent)
           /\ \A i \in 1 .. Len(got) : got[i] = sent[i]

(* And in the end it is all of them: the parser never sits on a whole      *)
(* frame, whatever commands timed out on the way.                          *)
Delivered == <>[](lost \/ got = sent)
=============================================================================
