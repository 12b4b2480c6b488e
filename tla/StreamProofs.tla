---------------------------- MODULE StreamProofs ----------------------------
(* Proofs about Stream, for every ring, read and frame size that satisfies *)
(* SizeAssumption.                                                         *)
EXTENDS Stream, SequenceTheorems, TLAPS

(***************************************************************************)
(* Type correctness.                                                       *)
(***************************************************************************)

(* The sizes one by one.                                                   *)
LEMMA Sizes ==
  /\ Ring \in Nat /\ ReadMax \in Nat /\ MaxBody \in Nat /\ MaxSeq \in Nat
  /\ ReadMax >= 1 /\ MaxBody >= 1 /\ MaxBody + ReadMax < Ring /\ MaxSeq >= 2
BY SizeAssumption

(* Slots are numbers.                                                      *)
LEMMA SlotNat == Slot \subseteq Nat
BY Sizes DEF Slot

(* What the ring's arithmetic yields.                                      *)
LEMMA RingMath ==
  /\ \A i \in Nat : i < 2 * Ring => Wrap(i) \in Slot
  /\ \A a, b \in Slot : Ahead(a, b) \in Slot
  /\ \A a, b \in Slot, n \in Nat :
       Ahead(a, b) + n < Ring => Ahead(a, Wrap(b + n)) = Ahead(a, b) + n
BY Sizes DEF Wrap, Ahead, Slot

(* The ring's cells, and the arguments its arithmetic gets.                *)
LEMMA RingCells ==
  ASSUME TypeOK
  PROVE  /\ wr \in Nat /\ wr < Ring /\ rd \in Nat /\ rd < Ring
         /\ \A i \in Slot : i \in Nat /\ i < Ring /\ rx[i] \in Byte
         /\ reply.bytes \in Seq(Byte) /\ Len(reply.bytes) < Ring
<1>1. wr \in Slot /\ rd \in Slot /\ rx \in [Slot -> Byte]
  BY DEF TypeOK
<1>2. reply.bytes \in Seq(Byte) /\ Len(reply.bytes) <= ReadMax
  BY DEF TypeOK, Reply
<1> QED
  BY <1>1, <1>2, Sizes DEF Slot

(* The sequence number is one, and a new one.                                *)
LEMMA MailboxTypes ==
  ASSUME TypeOK
  PROVE  NextSeq \in 0 .. MaxSeq /\ NextSeq # ackseq
BY Sizes DEF TypeOK, NextSeq

(* A plausible head has a length some frame has.                           *)
LEMMA HeadTypes ==
  ASSUME TypeOK, Plausible
  PROVE  BodyLen \in 0 .. MaxBody
<1>1. BodyLen \in Nat
  BY SizeAssumption DEF BodyLen, TypeOK
<1>2. Flen[Type].max \in 0 .. MaxBody
  BY SizeAssumption DEF Plausible
<1> QED
  BY <1>1, <1>2, Sizes DEF Plausible

(* TypeOK is inductive.                                                    *)
THEOREM TypeCorrect == Spec => []TypeOK
<1>1. Init => TypeOK
  <2> SUFFICES ASSUME Init PROVE TypeOK
    OBVIOUS
  <2>1. reply \in Reply /\ Len(reply.bytes) <= ReadMax
    BY Sizes DEF Init, Replied, Reply
  <2>2. cmd \in Command /\ rx \in [Slot -> Byte] /\ wr \in Slot /\ rd \in Slot
    BY Sizes, SizeAssumption DEF Init, Command, Slot
  <2>3. 0 \in 0 .. MaxSeq
    BY Sizes
  <2>4. queue \in Seq(Byte) /\ sent \in Seq(Seq(Byte)) /\ got \in Seq(Seq(Byte))
    BY DEF Init
  <2>5. job \in Job \cup {NoJob} /\ lost \in BOOLEAN /\ trouble \in Nat
    BY DEF Init
  <2>6. ackseq \in 0 .. MaxSeq /\ seq \in 0 .. MaxSeq /\ pc \in {"idle", "parse", "handler"} \cup Waiting
    BY <2>3 DEF Init
  <2> QED
    BY <2>1, <2>2, <2>4, <2>5, <2>6 DEF TypeOK
<1>2. TypeOK /\ [Next]_vars => TypeOK'
  <2> SUFFICES ASSUME TypeOK, [Next]_vars PROVE TypeOK'
    OBVIOUS
  <2>1. ASSUME NEW f \in Frame, Send(f) PROVE TypeOK'
    BY <2>1, FrameAssumption DEF Send, TypeOK, mailbox, ring
  <2>2. CASE PickUp
    BY <2>2 DEF PickUp, TypeOK, mailbox, ring, Job, Command
  <2>3. CASE Complete
    <3>1. job \in Job
      BY <2>3 DEF Complete, TypeOK
    <3>2. ackseq' \in 0 .. MaxSeq /\ job' = NoJob
      BY <2>3, <3>1 DEF Complete, Job
    <3>3. /\ queue' \in Seq(Byte) /\ lost' \in BOOLEAN /\ trouble' \in Nat
          /\ reply' \in Reply /\ Len(reply'.bytes) <= ReadMax
      <4>1. queue \in Seq(Byte) /\ Len(queue) \in Nat /\ job.want \in 0 .. ReadMax
        BY <3>1 DEF TypeOK, Job
      <4>3. <<>> \in Seq(Byte) /\ Len(<<>>) <= ReadMax
        BY Sizes
      <4>4. LET n == Smaller(job.want, Len(queue))
            IN  /\ SubSeq(queue, 1, n) \in Seq(Byte)
                /\ Len(SubSeq(queue, 1, n)) <= ReadMax
                /\ SubSeq(queue, n + 1, Len(queue)) \in Seq(Byte)
        BY <4>1, Sizes DEF Smaller
      <4> QED
        <5>1. /\ queue' \in Seq(Byte) /\ lost' \in BOOLEAN /\ trouble' \in Nat
              /\ \E op \in {"error", "status", "read", "write"}, n \in Nat, b \in Seq(Byte) :
                   reply' = Replied(op, n, b) /\ Len(b) <= ReadMax
          <6>1. CASE /\ job.op = "status" /\ UNCHANGED <<queue, lost, trouble>>
                     /\ \E n \in 0 .. Len(queue) : reply' = Replied("status", n, <<>>)
            <7>1. PICK n \in 0 .. Len(queue) : reply' = Replied("status", n, <<>>)
              BY <6>1
            <7>2. n \in Nat
              BY <4>1
            <7>3. UNCHANGED <<queue, lost, trouble>>
              BY <6>1
            <7> QED
              BY <7>1, <7>2, <7>3, <4>3, Zenon DEF TypeOK
          <6>2. CASE /\ job.op = "read" /\ UNCHANGED trouble
                     /\ LET n == Smaller(job.want, Len(queue)) IN
                          /\ reply' = Replied("read", 0, SubSeq(queue, 1, n))
                          /\ queue' = SubSeq(queue, n + 1, Len(queue))
                          /\ lost' = (lost \/ (pc # "read" /\ n > 0))
            BY <6>2, <4>4 DEF TypeOK
          <6>3. CASE /\ UNCHANGED <<queue, lost>> /\ trouble' \in {trouble, trouble + 1}
                     /\ \E op \in {"error", "write"} : reply' = Replied(op, 0, <<>>)
            <7>1. PICK op \in {"error", "write"} : reply' = Replied(op, 0, <<>>)
              BY <6>3
            <7>2. op \in {"error", "status", "read", "write"} /\ 0 \in Nat
              OBVIOUS
            <7>3. queue' \in Seq(Byte) /\ lost' \in BOOLEAN /\ trouble' \in Nat
              BY <6>3 DEF TypeOK
            <7> QED
              BY <7>1, <7>2, <7>3, <4>3, Zenon
          <6> QED
            BY <2>3, <6>1, <6>2, <6>3 DEF Complete
        <5>2. \A op \in {"error", "status", "read", "write"}, n \in Nat, b \in Seq(Byte) :
                Replied(op, n, b) \in Reply /\ Replied(op, n, b).bytes = b
          BY DEF Replied, Reply
        <5> QED
          BY <5>1, <5>2
    <3> QED
      BY <2>3, <3>2, <3>3 DEF Complete, TypeOK, mailbox, ring
  <2>4. CASE StartPump
    BY <2>4, MailboxTypes, Sizes DEF StartPump, Stage, TypeOK, peripheral, ring, Command, Waiting
  <2>5. CASE StartWrite
    BY <2>5, MailboxTypes, Sizes DEF StartWrite, Stage, TypeOK, peripheral, ring, Command, Waiting
  <2>6. CASE TimeOut
    BY <2>6 DEF TimeOut, After, TypeOK, peripheral, mailbox, ring, Waiting
  <2>7. CASE Written
    BY <2>7 DEF Written, After, TypeOK, peripheral, mailbox, ring
  <2>8. CASE GotStatus
    BY <2>8, MailboxTypes, Sizes
    DEF GotStatus, Acked, Avails, Smaller, Stage, TypeOK, peripheral, mailbox, ring, Command, Reply, Waiting
  <2>9. CASE GotRead
    <3>1. reply.bytes \in Seq(Byte) /\ Len(reply.bytes) < Ring
      BY RingCells
    <3>2. \A i \in Slot : Ahead(wr, i) < Len(reply.bytes)
                           => reply.bytes[Ahead(wr, i) + 1] \in Byte
      <4> TAKE i \in Slot
      <4>1. Ahead(wr, i) \in Slot
        BY RingMath DEF TypeOK
      <4> QED
        BY <4>1, <3>1, RingCells
    <3>3. rx' \in [Slot -> Byte]
      BY <2>9, <3>2 DEF GotRead, TypeOK
    <3>4. wr' \in Slot
      BY <2>9, <3>1, RingCells, RingMath, Sizes DEF GotRead
    <3> QED
      BY <2>9, <3>3, <3>4 DEF GotRead, TypeOK, peripheral, mailbox
  <2>10. CASE Dispatch
    <3>1. BodyLen \in 0 .. MaxBody
      BY <2>10, HeadTypes DEF Dispatch
    <3>2. rd' \in Slot
      BY <2>10, <3>1, RingCells, RingMath, Sizes DEF Dispatch
    <3> DEFINE frame == [i \in 1 .. BodyLen + 1 |-> rx[Wrap(rd + i - 1)]]
    <3>3. \A i \in 1 .. BodyLen + 1 : rx[Wrap(rd + i - 1)] \in Byte
      BY <3>1, RingCells, RingMath, Sizes
    <3>4. frame \in Seq(Byte)
      BY <3>1, <3>3, SeqDef
    <3>5. got' \in Seq(Seq(Byte))
      BY <2>10, <3>4 DEF Dispatch, TypeOK
    <3> QED
      BY <2>10, <3>2, <3>5 DEF Dispatch, TypeOK, peripheral, mailbox
  <2>11. CASE Slip
    <3>1. rd' \in Slot
      BY <2>11, RingCells, RingMath, Sizes DEF Slip
    <3> QED
      BY <2>11, <3>1 DEF Slip, TypeOK, peripheral, mailbox
  <2>12. CASE ParseDone \/ HandlerDone
    BY <2>12 DEF ParseDone, HandlerDone, TypeOK, peripheral, mailbox, ring
  <2>13. CASE UNCHANGED vars
    BY <2>13 DEF vars, TypeOK, peripheral, mailbox, ring
  <2> QED
    BY <2>1, <2>2, <2>3, <2>4, <2>5, <2>6, <2>7, <2>8, <2>9, <2>10, <2>11, <2>12, <2>13
    DEF Next, Peripheral, Console
<1> QED
  BY <1>1, <1>2, PTL DEF Spec

(***************************************************************************)
(* The READ in the mailbox is the console's own.                           *)
(***************************************************************************)

(* A job still under way carries the one sequence number that can be       *)
(* outstanding, the successor of ACKSEQ; a console can get past NET_STATUS *)
(* only when none is.  So the job a READ waits for is a READ.              *)
Own ==
  /\ seq # ackseq => seq = NextSeq
  /\ job # NoJob => job.seq = seq /\ seq # ackseq
  /\ pc = "read" =>
       \/ seq # ackseq /\ cmd.op = "read" /\ (job = NoJob \/ job.op = "read")
       \/ seq = ackseq /\ reply.op \in {"read", "error"}

(* Staging a command keeps a job under way outstanding.                    *)
LEMMA StageOwn ==
  ASSUME TypeOK, Own, UNCHANGED <<job, ackseq>>,
         NEW op, NEW want, Stage(op, want),
         pc' = "read" => op = "read" /\ job = NoJob
  PROVE  Own'
<1>1. seq' = NextSeq /\ NextSeq' = NextSeq /\ NextSeq # ackseq
  BY MailboxTypes DEF Stage, NextSeq
<1>2. job # NoJob => job.seq = seq'
  BY <1>1 DEF Own
<1> QED
  BY <1>1, <1>2 DEF Own, Stage

(* Every step keeps it so.                                                 *)
LEMMA OwnKept == Spec => []Own
<1>1. Init => Own
  BY DEF Init, Own
<1>2. TypeOK /\ Own /\ [Next]_vars => Own'
  <2> SUFFICES ASSUME TypeOK, Own, [Next]_vars PROVE Own'
    OBVIOUS
  <2>1. ASSUME NEW f \in Frame, Send(f) PROVE Own'
    BY <2>1 DEF Send, mailbox, Own, NextSeq
  <2>2. CASE PickUp
    BY <2>2 DEF PickUp, mailbox, Own, NextSeq
  <2>3. CASE Complete
    <3>1. job.seq = seq /\ seq # ackseq /\ job \in Job
      BY <2>3 DEF Complete, Own, TypeOK
    <3>2. ackseq' = seq' /\ seq' = seq /\ job' = NoJob /\ pc' = pc
      BY <2>3, <3>1 DEF Complete, mailbox
    <3>3. pc = "read" => job.op = "read"
      BY <2>3, <3>1 DEF Complete, Own
    <3>4. job.op = "read" => reply'.op \in {"read", "error"}
      BY <2>3 DEF Complete, Replied
    <3> QED
      BY <3>2, <3>3, <3>4 DEF Own
  <2>4. CASE StartPump
    BY <2>4, StageOwn DEF StartPump, peripheral
  <2>5. CASE StartWrite
    BY <2>5, StageOwn DEF StartWrite, peripheral
  <2>6. CASE TimeOut
    BY <2>6 DEF TimeOut, After, peripheral, mailbox, Own, NextSeq
  <2>7. CASE Written
    BY <2>7 DEF Written, After, peripheral, mailbox, Own, NextSeq
  <2>8. CASE GotStatus
    <3>1. job = NoJob /\ UNCHANGED <<job, ackseq, reply>>
      BY <2>8 DEF GotStatus, Acked, Own, peripheral
    <3>2. CASE pc' = "parse" /\ UNCHANGED mailbox
      BY <3>1, <3>2 DEF mailbox, Own, NextSeq
    <3>3. ASSUME NEW n \in Avails, Stage("read", n) PROVE Own'
      BY <3>1, <3>3, StageOwn
    <3> QED
      BY <2>8, <3>2, <3>3 DEF GotStatus
  <2>9. CASE GotRead
    BY <2>9 DEF GotRead, peripheral, mailbox, Own, NextSeq
  <2>10. CASE Dispatch \/ Slip \/ ParseDone \/ HandlerDone
    BY <2>10 DEF Dispatch, Slip, ParseDone, HandlerDone, peripheral, mailbox, Own, NextSeq
  <2>11. CASE UNCHANGED vars
    BY <2>11 DEF vars, peripheral, mailbox, Own, NextSeq
  <2> QED
    BY <2>1, <2>2, <2>3, <2>4, <2>5, <2>6, <2>7, <2>8, <2>9, <2>10, <2>11
    DEF Next, Peripheral, Console
<1> QED
  BY <1>1, <1>2, TypeCorrect, PTL DEF Spec

(* A READ is acknowledged by its own completion only.                      *)
THEOREM ReadOwned == Spec => []ReadIsOwn
<1>1. Own => ReadIsOwn
  BY DEF Own, ReadIsOwn, Acked
<1> QED
  BY <1>1, OwnKept, PTL

(***************************************************************************)
(* The ring never overflows.                                               *)
(***************************************************************************)

(* The parser leaves less than one frame behind.                           *)
Inside == {"parse", "handler", "answer"}
Short == pc \notin Inside => Buffered <= MaxBody

(* It stops only where a plausible frame is not whole.                     *)
LEMMA ParserLeaves ==
  ASSUME TypeOK, ParseDone
  PROVE  Buffered <= MaxBody
<1>1. Buffered \in Nat
  BY RingMath, SlotNat DEF TypeOK, Buffered
<1>2. CASE Buffered < 2
  BY <1>1, <1>2, Sizes
<1>3. CASE Plausible /\ ~Whole
  <2>1. BodyLen \in 0 .. MaxBody
    BY <1>3, HeadTypes
  <2> QED
    BY <1>1, <1>3, <2>1, Sizes DEF Whole
<1> QED
  BY <1>2, <1>3 DEF ParseDone

(* What a READ brings fits into the ring.                                  *)
THEOREM RoomEnough == Spec => []RoomInRing
<1>1. Init => Short
  BY Sizes DEF Init, Short, Buffered, Ahead
<1>2. TypeOK /\ Short /\ [Next]_vars => Short'
  <2> SUFFICES ASSUME TypeOK, Short, [Next]_vars PROVE Short'
    OBVIOUS
  <2>1. CASE UNCHANGED ring /\ (pc \in Inside => pc' \in Inside)
    BY <2>1 DEF ring, Short, Buffered, Ahead
  <2>2. CASE pc' \in Inside
    BY <2>2 DEF Short
  <2>3. CASE ParseDone
    BY <2>3, ParserLeaves DEF ParseDone, ring, Short, Buffered, Ahead
  <2>4. ASSUME NEW f \in Frame, Send(f) PROVE Short'
    BY <2>4, <2>1 DEF Send
  <2>5. CASE Peripheral
    BY <2>5, <2>1 DEF Peripheral, PickUp, Complete
  <2>6. CASE StartPump \/ StartWrite
    BY <2>6, <2>1 DEF StartPump, StartWrite, Inside
  <2>7. CASE TimeOut \/ Written
    BY <2>7, <2>1 DEF TimeOut, Written, After, Inside
  <2>8. CASE GotStatus
    BY <2>8, <2>1 DEF GotStatus, Acked, Inside
  <2>9. CASE GotRead \/ Dispatch \/ Slip \/ HandlerDone
    BY <2>9, <2>2 DEF GotRead, Dispatch, Slip, HandlerDone, Inside
  <2>10. CASE UNCHANGED vars
    BY <2>10, <2>1 DEF vars
  <2> QED
    BY <2>3, <2>4, <2>5, <2>6, <2>7, <2>8, <2>9, <2>10 DEF Next, Console
<1>3. TypeOK /\ Short => RoomInRing
  <2> SUFFICES ASSUME TypeOK, Short, Acked("read")
               PROVE  Buffered + Len(reply.bytes) < Ring
    BY DEF RoomInRing
  <2>1. Buffered \in Nat /\ Buffered <= MaxBody
    BY RingMath, SlotNat DEF Short, Inside, Acked, TypeOK, Buffered
  <2>2. Len(reply.bytes) \in Nat /\ Len(reply.bytes) <= ReadMax
    BY RingCells DEF TypeOK
  <2> QED
    BY <2>1, <2>2, Sizes
<1> QED
  BY <1>1, <1>2, <1>3, TypeCorrect, PTL DEF Spec

(***************************************************************************)
(* Frames arrive each once and in order while nothing is lost.             *)
(***************************************************************************)

(* The bytes of s are those of the stream from its position from on.       *)
Laid(s, byte, from) == \A j \in 1 .. Len(s) : s[j] = byte[from + j - 1]

(* The frames of s, one behind the other, are the stream: byte[n] is the   *)
(* n-th byte of it (from 0), and at[i] of them come before the frame that  *)
(* follows the i-th.                                                       *)
Framed(s, byte, at) ==
  /\ at[0] = 0 /\ \A i \in 0 .. Len(s) : at[i] <= at[Len(s)]
  /\ \A i \in 1 .. Len(s) : /\ s[i] \in Frame
                            /\ at[i] = at[i - 1] + Len(s[i])
                            /\ Laid(s[i], byte, at[i - 1])

(* The bytes in the ring, and those of a READ that is done and not taken.  *)
Held == [k \in 1 .. Buffered |-> rx[Wrap(rd + k - 1)]]
Fetched == IF Acked("read") THEN reply.bytes ELSE <<>>

(* Between the positions from and upto of the stream are the bytes of the  *)
(* ring, those fetched, and those the peripheral still has.                *)
Placed(held, fetched, left, byte, from, upto) ==
  /\ Laid(held, byte, from)
  /\ Laid(fetched, byte, from + Len(held))
  /\ Laid(left, byte, from + Len(held) + Len(fetched))
  /\ from + Len(held) + Len(fetched) + Len(left) = upto

(* What is dispatched is the head of what was sent, and what is under way  *)
(* is the rest of it.                                                      *)
Faithful ==
  /\ Len(got) <= Len(sent)
  /\ \A i \in 1 .. Len(got) : got[i] = sent[i]
  /\ \E byte \in [Nat -> Byte], at \in [Nat -> Nat] :
       /\ Framed(sent, byte, at)
       /\ Placed(Held, Fetched, queue, byte, at[Len(got)], at[Len(sent)])

-----------------------------------------------------------------------------
(* Two sequences at the same place are the same.                           *)
LEMMA LaidSame ==
  ASSUME NEW s \in Seq(Byte), NEW t \in Seq(Byte), Len(s) = Len(t),
         NEW byte, NEW from, Laid(s, byte, from), Laid(t, byte, from)
  PROVE  s = t
BY DEF Laid

(* A sequence stays where it is if the stream changes behind it only.      *)
LEMMA LaidStill ==
  ASSUME NEW s \in Seq(Byte), NEW byte, NEW byte2, NEW from \in Nat,
         NEW total \in Nat, from + Len(s) <= total, Laid(s, byte, from),
         \A x \in Nat : x < total => byte2[x] = byte[x]
  PROVE  Laid(s, byte2, from)
<1>1. PICK m \in Nat : m = Len(s)
  OBVIOUS
<1>2. ASSUME NEW j \in 1 .. m
      PROVE  from + j - 1 \in Nat /\ from + j - 1 < total
  BY <1>1
<1> QED
  BY <1>1, <1>2 DEF Laid

(* One behind the other, they are one.                                     *)
LEMMA LaidJoin ==
  ASSUME NEW s \in Seq(Byte), NEW t \in Seq(Byte), NEW byte,
         NEW from \in Nat, Laid(s, byte, from), Laid(t, byte, from + Len(s))
  PROVE  /\ Laid(s \o t, byte, from) /\ Len(s \o t) = Len(s) + Len(t)
         /\ s \o t \in Seq(Byte)
<1>1. /\ Len(s) \in Nat /\ Len(t) \in Nat /\ Len(s \o t) = Len(s) + Len(t)
      /\ s \o t \in Seq(Byte)
  OBVIOUS
<1>2. ASSUME NEW j \in 1 .. Len(s) + Len(t)
      PROVE  (s \o t)[j] = byte[from + j - 1]
  <2>1. CASE j \in 1 .. Len(s)
    BY <2>1 DEF Laid
  <2>2. CASE j \notin 1 .. Len(s)
    <3> DEFINE i == j - Len(s)
    <3>1. i \in 1 .. Len(t) /\ (s \o t)[j] = t[i]
      BY <1>1, <2>2
    <3>2. from + j - 1 = from + Len(s) + i - 1
      BY <1>1
    <3> HIDE DEF i
    <3> QED
      BY <3>1, <3>2 DEF Laid
  <2> QED
    BY <2>1, <2>2
<1> QED
  BY <1>1, <1>2 DEF Laid

(* And one sequence is two.                                                *)
LEMMA LaidSplit ==
  ASSUME NEW s \in Seq(Byte), NEW byte, NEW from \in Nat, Laid(s, byte, from),
         NEW n \in 0 .. Len(s)
  PROVE  /\ Laid(SubSeq(s, 1, n), byte, from)
         /\ Laid(SubSeq(s, n + 1, Len(s)), byte, from + n)
         /\ Len(SubSeq(s, 1, n)) = n
         /\ Len(SubSeq(s, n + 1, Len(s))) = Len(s) - n
         /\ SubSeq(s, 1, n) \in Seq(Byte)
         /\ SubSeq(s, n + 1, Len(s)) \in Seq(Byte)
<1> DEFINE a == SubSeq(s, 1, n)
           b == SubSeq(s, n + 1, Len(s))
<1>1. /\ Len(s) \in Nat /\ n \in Nat /\ n <= Len(s)
      /\ Len(a) = n /\ Len(b) = Len(s) - n /\ a \in Seq(Byte) /\ b \in Seq(Byte)
  OBVIOUS
<1>2. ASSUME NEW j \in 1 .. n PROVE a[j] = byte[from + j - 1]
  BY <1>1 DEF Laid
<1>3. ASSUME NEW j \in 1 .. Len(s) - n PROVE b[j] = byte[from + n + j - 1]
  <2>1. n + j \in 1 .. Len(s) /\ b[j] = s[n + j]
    BY <1>1
  <2>2. from + n + j - 1 = from + (n + j) - 1
    BY <1>1
  <2> QED
    BY <2>1, <2>2 DEF Laid
<1> HIDE DEF a, b
<1>4. Laid(a, byte, from) /\ Laid(b, byte, from + n)
  BY <1>1, <1>2, <1>3 DEF Laid
<1> QED
  BY <1>1, <1>4 DEF a, b

(* The stream with f behind its first n frames.                            *)
Extended(byte, at, n, f, byte2, at2) ==
  /\ \A x \in Nat : x < at[n] => byte2[x] = byte[x]
  /\ Laid(f, byte2, at[n])
  /\ \A i \in 0 .. n : at2[i] = at[i]
  /\ at2[n + 1] = at[n] + Len(f)

(* There is always one.                                                    *)
LEMMA Longer ==
  ASSUME NEW byte \in [Nat -> Byte], NEW at \in [Nat -> Nat],
         NEW n \in Nat, NEW f \in Seq(Byte)
  PROVE  \E byte2 \in [Nat -> Byte], at2 \in [Nat -> Nat] :
           Extended(byte, at, n, f, byte2, at2)
<1>0. PICK total \in Nat : total = at[n]
  OBVIOUS
<1>1. PICK m \in Nat : m = Len(f)
  OBVIOUS
<1>2. \A j \in 1 .. m : f[j] \in Byte
  BY <1>1
<1> DEFINE in(x) == x >= total /\ x - total < m
           byte2 == [x \in Nat |-> IF in(x) THEN f[x - total + 1] ELSE byte[x]]
           at2 == [i \in Nat |-> IF i = n + 1 THEN total + m ELSE at[i]]
<1>3. \A x \in Nat : in(x) => x - total + 1 \in 1 .. m
  OBVIOUS
<1>4. byte2 \in [Nat -> Byte]
  <2>1. ASSUME NEW x \in Nat
        PROVE  (IF in(x) THEN f[x - total + 1] ELSE byte[x]) \in Byte
    <3>1. in(x) => f[x - total + 1] \in Byte
      BY <1>2, <1>3
    <3> HIDE DEF in
    <3> QED
      BY <3>1
  <2> HIDE DEF in
  <2> QED
    BY <2>1
<1>5. at2 \in [Nat -> Nat]
  OBVIOUS
<1>6. \A x \in Nat : x < total => byte2[x] = byte[x]
  <2>1. \A x \in Nat : x < total => ~in(x)
    OBVIOUS
  <2> HIDE DEF in
  <2> QED
    BY <2>1
<1>7. ASSUME NEW j \in 1 .. m PROVE byte2[total + j - 1] = f[j]
  <2> DEFINE x == total + j - 1
  <2>1. x \in Nat /\ in(x) /\ x - total + 1 = j
    OBVIOUS
  <2> HIDE DEF x, in
  <2>2. byte2[x] = f[j]
    BY <2>1
  <2> QED
    BY <2>2 DEF x
<1>8. \A i \in 0 .. n : at2[i] = at[i]
  OBVIOUS
<1>9. at2[n + 1] = total + m
  OBVIOUS
<1> HIDE DEF byte2, at2
<1>10. Extended(byte, at, n, f, byte2, at2)
  BY <1>0, <1>1, <1>6, <1>7, <1>8, <1>9 DEF Extended, Laid
<1> QED
  BY <1>4, <1>5, <1>10

(* It is the stream of a server that has sent f as well.                   *)
LEMMA FramedLonger ==
  ASSUME NEW s \in Seq(Seq(Byte)), NEW f \in Frame, f \in Seq(Byte),
         NEW byte \in [Nat -> Byte], NEW at \in [Nat -> Nat],
         NEW byte2 \in [Nat -> Byte], NEW at2 \in [Nat -> Nat],
         Framed(s, byte, at), Extended(byte, at, Len(s), f, byte2, at2)
  PROVE  Framed(Append(s, f), byte2, at2)
<1>1. PICK n \in Nat : n = Len(s)
  OBVIOUS
<1>2. \E t : t = Append(s, f)
  OBVIOUS
<1>3. PICK t : t = Append(s, f)
  BY <1>2
<1>3a. \A i \in 1 .. n : s[i] \in Seq(Byte)
  BY <1>1
<1>3b. /\ Len(t) = n + 1 /\ t[n + 1] = f /\ \A i \in 1 .. n : t[i] = s[i]
  BY <1>1, <1>3
<1>4. \A i \in 0 .. n : at[i] \in Nat /\ at[i] <= at[n] /\ at2[i] = at[i]
  <2> TAKE i \in 0 .. n
  <2>1. i \in Nat
    OBVIOUS
  <2> QED
    BY <1>1, <2>1 DEF Framed, Extended
<1>5. Len(f) \in Nat /\ at2[n + 1] = at[n] + Len(f) /\ at[0] = 0
  BY <1>1 DEF Extended, Framed
<1>6. \A i \in 0 .. n + 1 : at2[i] <= at2[n + 1]
  <2>1. \A i \in 0 .. n + 1 : i \in 0 .. n \/ i = n + 1
    OBVIOUS
  <2>2. at[n] \in Nat /\ at2[n + 1] >= at[n]
    BY <1>5
  <2>3. \A i \in 0 .. n : at2[i] <= at[n] /\ at2[i] \in Nat
    BY <1>4
  <2>4. \A i \in 0 .. n + 1 : i \in Nat /\ at2[i] \in Nat
    BY <1>1
  <2>5. ASSUME NEW i \in 0 .. n + 1 PROVE at2[i] <= at2[n + 1]
    <3>1. CASE i \in 0 .. n
      BY <1>1, <2>2, <2>3, <3>1
    <3>2. CASE i = n + 1
      BY <2>4, <3>2
    <3> QED
      BY <2>1, <3>1, <3>2
  <2> QED
    BY <2>5
<1>7. ASSUME NEW i \in 1 .. n
      PROVE  /\ s[i] \in Frame /\ at2[i] = at2[i - 1] + Len(s[i])
             /\ Laid(s[i], byte2, at2[i - 1])
  <2>1. /\ i \in 0 .. n /\ i - 1 \in 0 .. n
    OBVIOUS
  <2>2. /\ s[i] \in Frame /\ at[i] = at[i - 1] + Len(s[i])
        /\ Laid(s[i], byte, at[i - 1])
    BY <1>1 DEF Framed
  <2>3. at[i - 1] \in Nat /\ at[i] <= at[n]
    BY <1>4, <2>1
  <2>4. \A x \in Nat : x < at[n] => byte2[x] = byte[x]
    BY <1>1 DEF Extended
  <2>5. at[n] \in Nat /\ s[i] \in Seq(Byte)
    BY <1>3a
  <2>6. at[i - 1] + Len(s[i]) <= at[n]
    BY <2>2, <2>3
  <2>7. Laid(s[i], byte2, at[i - 1])
    BY <2>2, <2>3, <2>4, <2>5, <2>6, LaidStill
  <2> QED
    BY <1>4, <2>1, <2>2, <2>7
<1>8. Laid(f, byte2, at2[n]) /\ at2[n + 1] = at2[n] + Len(f)
  <2>1. n \in 0 .. n
    OBVIOUS
  <2> QED
    BY <1>1, <1>4, <1>5, <2>1 DEF Extended
<1>9. ASSUME NEW i \in 1 .. n + 1
      PROVE  /\ t[i] \in Frame /\ at2[i] = at2[i - 1] + Len(t[i])
             /\ Laid(t[i], byte2, at2[i - 1])
  <2>1. CASE i \in 1 .. n
    BY <1>3b, <1>7, <2>1
  <2>2. CASE i = n + 1
    <3>1. i - 1 = n
      BY <2>2
    <3> QED
      BY <1>3b, <1>8, <2>2, <3>1
  <2> QED
    BY <2>1, <2>2
<1>10. at2[0] = 0
  <2>1. 0 \in 0 .. n
    OBVIOUS
  <2> QED
    BY <1>4, <1>5, <2>1
<1>11. Framed(t, byte2, at2)
  BY <1>3b, <1>6, <1>9, <1>10 DEF Framed
<1> QED
  BY <1>3, <1>11

(* And what is under way has f behind it.                                  *)
LEMMA PlacedLonger ==
  ASSUME NEW held \in Seq(Byte), NEW fetched \in Seq(Byte),
         NEW left \in Seq(Byte), NEW f \in Seq(Byte),
         NEW byte, NEW byte2, NEW from \in Nat, NEW upto \in Nat,
         Placed(held, fetched, left, byte, from, upto),
         \A x \in Nat : x < upto => byte2[x] = byte[x],
         Laid(f, byte2, upto)
  PROVE  Placed(held, fetched, left \o f, byte2, from, upto + Len(f))
<1> DEFINE mid == from + Len(held)
           last == mid + Len(fetched)
<1>1. /\ Len(held) \in Nat /\ Len(fetched) \in Nat /\ Len(left) \in Nat
      /\ Len(f) \in Nat /\ mid \in Nat /\ last \in Nat
      /\ from + Len(held) = mid /\ mid + Len(fetched) = last
      /\ last + Len(left) = upto
      /\ Laid(held, byte, from) /\ Laid(fetched, byte, mid)
      /\ Laid(left, byte, last)
  BY DEF Placed
<1> HIDE DEF mid, last
<1>2. from + Len(held) <= upto /\ mid + Len(fetched) <= upto
      /\ last + Len(left) <= upto
  BY <1>1
<1>3. /\ Laid(held, byte2, from) /\ Laid(fetched, byte2, mid)
      /\ Laid(left, byte2, last)
  BY <1>1, <1>2, LaidStill
<1>4. Laid(left \o f, byte2, last) /\ Len(left \o f) = Len(left) + Len(f)
  <2>1. Laid(f, byte2, last + Len(left))
    BY <1>1
  <2> QED
    BY <1>1, <1>3, <2>1, LaidJoin
<1> DEFINE more == left \o f
<1>5. Laid(more, byte2, last) /\ Len(more) = Len(left) + Len(f)
  BY <1>4
<1> HIDE DEF more
<1>6. /\ Laid(held, byte2, from) /\ Laid(fetched, byte2, from + Len(held))
      /\ Laid(more, byte2, from + Len(held) + Len(fetched))
      /\ from + Len(held) + Len(fetched) + Len(more) = upto + Len(f)
  <2>1. PICK a \in Nat, b \in Nat, m \in Nat :
          a = Len(left) /\ b = Len(f) /\ m = last
    BY <1>1
  <2>2. m + (a + b) = upto + b
    BY <1>1, <2>1
  <2>3. Len(more) = a + b
    BY <1>5, <2>1
  <2>4. last + Len(more) = upto + Len(f)
    BY Zenon, <2>1, <2>2, <2>3
  <2> QED
    BY <1>3, <1>5, <2>4 DEF mid, last
<1>7. Placed(held, fetched, more, byte2, from, upto + Len(f))
  BY <1>6 DEF Placed
<1> QED
  BY <1>7 DEF more

-----------------------------------------------------------------------------
(* The sizes of what is under way.                                         *)
LEMMA Lengths ==
  ASSUME TypeOK
  PROVE  /\ Buffered \in Nat /\ Buffered < Ring
         /\ Held \in Seq(Byte) /\ Len(Held) = Buffered
         /\ Fetched \in Seq(Byte) /\ Len(Fetched) < Ring
         /\ queue \in Seq(Byte)
         /\ sent \in Seq(Seq(Byte)) /\ got \in Seq(Seq(Byte))
         /\ Len(Fetched) \in Nat /\ Len(queue) \in Nat
         /\ Len(sent) \in Nat /\ Len(got) \in Nat
<1>1. Buffered \in Slot
  BY RingMath DEF TypeOK, Buffered
<1>2. Buffered \in Nat /\ Buffered < Ring
  BY <1>1, Sizes DEF Slot
<1>3. Fetched \in Seq(Byte) /\ Len(Fetched) < Ring
  BY RingCells, Sizes DEF Fetched
<1>4. queue \in Seq(Byte) /\ sent \in Seq(Seq(Byte)) /\ got \in Seq(Seq(Byte))
  BY DEF TypeOK
<1>5. ASSUME NEW k \in 1 .. Buffered PROVE rx[Wrap(rd + k - 1)] \in Byte
  <2>1. rd + k - 1 \in Nat /\ rd + k - 1 < 2 * Ring
    BY <1>2, RingCells, Sizes
  <2> QED
    BY <2>1, RingMath DEF TypeOK
<1>6. Held \in [1 .. Buffered -> Byte]
  BY <1>5 DEF Held
<1>7. Held \in Seq(Byte) /\ Len(Held) = Buffered
  BY <1>2, <1>6
<1>8. Len(Fetched) \in Nat /\ Len(queue) \in Nat
  BY <1>3, <1>4
<1>9. Len(sent) \in Nat /\ Len(got) \in Nat
  BY <1>4
<1> QED
  BY <1>2, <1>3, <1>4, <1>7, <1>8, <1>9

(* A step that only moves bytes from one place to the next.                *)
LEMMA MovedFaithful ==
  ASSUME TypeOK, Faithful, sent' = sent, got' = got,
         \A byte, from, upto :
           from \in Nat /\ Placed(Held, Fetched, queue, byte, from, upto) =>
             Placed(Held, Fetched, queue, byte, from, upto)'
  PROVE  Faithful'
<1>1. PICK byte \in [Nat -> Byte], at \in [Nat -> Nat] :
        /\ Framed(sent, byte, at)
        /\ Placed(Held, Fetched, queue, byte, at[Len(got)], at[Len(sent)])
  BY DEF Faithful
<1>2. at[Len(got)] \in Nat
  BY Lengths
<1>3. Placed(Held, Fetched, queue, byte, at[Len(got)], at[Len(sent)])'
  BY <1>1, <1>2
<1>4. Framed(sent', byte, at)
  BY <1>1
<1> QED
  BY <1>3, <1>4 DEF Faithful

(* A step that moves no byte.                                              *)
LEMMA StillFaithful ==
  ASSUME TypeOK, Faithful, Fetched' = Fetched,
         UNCHANGED <<queue, ring, sent, got>>
  PROVE  Faithful'
<1>1. Held' = Held
  BY DEF ring, Held, Buffered, Ahead
<1>2. \A byte, from, upto : Placed(Held, Fetched, queue, byte, from, upto) =>
        Placed(Held, Fetched, queue, byte, from, upto)'
  BY <1>1
<1> QED
  BY <1>2, MovedFaithful

(* The server sends a frame: the stream grows by its bytes.                *)
LEMMA SendFaithful ==
  ASSUME TypeOK, Faithful, NEW f \in Frame, Send(f)
  PROVE  Faithful'
<1>1. PICK byte \in [Nat -> Byte], at \in [Nat -> Nat] :
        /\ Framed(sent, byte, at)
        /\ Placed(Held, Fetched, queue, byte, at[Len(got)], at[Len(sent)])
  BY DEF Faithful
<1>2. /\ f \in Seq(Byte) /\ Len(sent) \in Nat /\ Len(got) \in Nat
      /\ at[Len(got)] \in Nat /\ at[Len(sent)] \in Nat /\ Len(got) <= Len(sent)
  BY FrameAssumption, Lengths DEF Faithful
<1>3. PICK byte2 \in [Nat -> Byte], at2 \in [Nat -> Nat] :
        Extended(byte, at, Len(sent), f, byte2, at2)
  BY <1>2, Longer
<1>4. /\ sent' = Append(sent, f) /\ queue' = queue \o f /\ got' = got
      /\ Held' = Held /\ Fetched' = Fetched
  BY DEF Send, mailbox, ring, Held, Buffered, Ahead, Fetched, Acked
<1>5. Framed(sent', byte2, at2)
  BY <1>1, <1>2, <1>3, <1>4, Lengths, FramedLonger
<1>6. /\ \A x \in Nat : x < at[Len(sent)] => byte2[x] = byte[x]
      /\ Laid(f, byte2, at[Len(sent)])
      /\ at2[Len(got)] = at[Len(got)]
      /\ at2[Len(sent) + 1] = at[Len(sent)] + Len(f)
  <2>1. Len(got) \in 0 .. Len(sent)
    BY <1>2
  <2> QED
    BY <1>3, <2>1 DEF Extended
<1>7. Placed(Held, Fetched, queue \o f, byte2, at[Len(got)],
             at[Len(sent)] + Len(f))
  BY <1>1, <1>2, <1>6, Lengths, PlacedLonger
<1>8. Len(sent') = Len(sent) + 1
  BY <1>2, <1>4, Lengths
<1>9. Placed(Held', Fetched', queue', byte2, at2[Len(got')], at2[Len(sent')])
  BY <1>4, <1>6, <1>7, <1>8
<1>10. Len(got') <= Len(sent') /\ \A i \in 1 .. Len(got') : got'[i] = sent'[i]
  <2>1. ASSUME NEW i \in 1 .. Len(got) PROVE got[i] = Append(sent, f)[i]
    <3>1. i \in 1 .. Len(sent) /\ got[i] = sent[i]
      BY <1>2 DEF Faithful
    <3> QED
      BY <3>1, Lengths
  <2>2. Len(got) <= Len(sent) + 1
    BY <1>2
  <2> QED
    BY <1>4, <1>8, <2>1, <2>2
<1> QED
  BY <1>5, <1>9, <1>10 DEF Faithful

(* A job is completed: what a READ takes out of the peripheral is in the   *)
(* mailbox, for the console that waits for it.                             *)
LEMMA CompleteFaithful ==
  ASSUME TypeOK, Own, Faithful, Complete, ~lost'
  PROVE  Faithful'
<1>0. Smaller(job.want, Len(queue)) \in 0 .. Len(queue)
  <2>1. job.want \in 0 .. ReadMax
    BY Sizes DEF TypeOK, Job, NoJob
  <2>2. job.want \in Nat /\ Len(queue) \in Nat
    BY <2>1, Sizes, Lengths
  <2> QED
    BY <2>2 DEF Smaller
<1>1. /\ Held' = Held /\ sent' = sent /\ got' = got
      /\ pc' = pc /\ seq' = seq /\ ackseq' = seq /\ ackseq # seq
      /\ Fetched = <<>>
  BY DEF Complete, Own, mailbox, ring, Held, Buffered, Ahead, Fetched, Acked
<1>2. \/ queue' = queue /\ Fetched' = <<>>
      \/ \E n \in 0 .. Len(queue) :
           /\ queue' = SubSeq(queue, n + 1, Len(queue))
           /\ \/ pc = "read" /\ Fetched' = SubSeq(queue, 1, n)
              \/ n = 0 /\ Fetched' = <<>>
  <2>1. CASE pc = "read"
    <3>1. job.op = "read"
      BY <1>1, <2>1 DEF Complete, Own
    <3>2. Fetched' = reply'.bytes
      BY <1>1, <2>1 DEF Fetched, Acked
    <3>3. \/ queue' = queue /\ reply' = Replied("error", 0, <<>>)
          \/ LET n == Smaller(job.want, Len(queue)) IN
               /\ reply' = Replied("read", 0, SubSeq(queue, 1, n))
               /\ queue' = SubSeq(queue, n + 1, Len(queue))
      BY <3>1 DEF Complete
    <3>4. Smaller(job.want, Len(queue)) \in 0 .. Len(queue)
      BY <1>0
    <3>5. /\ Replied("error", 0, <<>>).bytes = <<>>
          /\ \A b : Replied("read", 0, b).bytes = b
      BY DEF Replied
    <3>6. CASE queue' = queue /\ reply' = Replied("error", 0, <<>>)
      BY <3>2, <3>5, <3>6
    <3>7. ASSUME NEW n \in 0 .. Len(queue),
                 reply' = Replied("read", 0, SubSeq(queue, 1, n)),
                 queue' = SubSeq(queue, n + 1, Len(queue))
          PROVE  Fetched' = SubSeq(queue, 1, n)
      BY <3>2, <3>5, <3>7
    <3> QED
      BY <2>1, <3>3, <3>4, <3>6, <3>7
  <2>2. CASE pc # "read"
    <3>1. Fetched' = <<>>
      BY <1>1, <2>2 DEF Fetched, Acked
    <3>2. \/ queue' = queue
          \/ LET n == Smaller(job.want, Len(queue)) IN
               queue' = SubSeq(queue, n + 1, Len(queue)) /\ ~(n > 0)
      BY <2>2 DEF Complete
    <3>3. Smaller(job.want, Len(queue)) \in 0 .. Len(queue)
      BY <1>0
    <3>4. 0 \in 0 .. Len(queue)
      BY Lengths
    <3>5. \A n \in 0 .. Len(queue) : ~(n > 0) => n = 0
      BY Lengths
    <3> QED
      BY <3>1, <3>2, <3>3, <3>4, <3>5
  <2> QED
    BY <2>1, <2>2
<1>3. ASSUME NEW byte, NEW from \in Nat, NEW upto,
             Placed(Held, Fetched, queue, byte, from, upto)
      PROVE  Placed(Held, Fetched', queue', byte, from, upto)
  <2>1. CASE queue' = queue /\ Fetched' = <<>>
    BY <1>1, <1>3, <2>1
  <2>2. ASSUME NEW n \in 0 .. Len(queue),
               queue' = SubSeq(queue, n + 1, Len(queue)),
               \/ pc = "read" /\ Fetched' = SubSeq(queue, 1, n)
               \/ n = 0 /\ Fetched' = <<>>
        PROVE  Placed(Held, Fetched', queue', byte, from, upto)
    <3> DEFINE mid == from + Len(Held)
    <3>1. /\ mid \in Nat /\ Len(queue) \in Nat /\ n \in Nat /\ Len(<<>>) = 0
          /\ Len(Fetched) = 0
      BY <1>1, Lengths
    <3>2. mid + 0 = mid
      BY <3>1
    <3>3. /\ Laid(Held, byte, from) /\ Laid(queue, byte, mid)
          /\ mid + Len(queue) = upto
      BY <1>3, <3>1, <3>2 DEF Placed
    <3> HIDE DEF mid
    <3>4. /\ Laid(SubSeq(queue, 1, n), byte, mid)
          /\ Laid(queue', byte, mid + n)
          /\ Len(SubSeq(queue, 1, n)) = n /\ Len(queue') = Len(queue) - n
      BY <2>2, <3>1, <3>3, Lengths, LaidSplit
    <3>5. Laid(Fetched', byte, mid) /\ Len(Fetched') = n
      <4>1. CASE Fetched' = SubSeq(queue, 1, n)
        BY <3>4, <4>1
      <4>2. CASE n = 0 /\ Fetched' = <<>>
        BY <4>2 DEF Laid
      <4> QED
        BY <2>2, <4>1, <4>2
    <3>6. mid + n + Len(queue') = upto
      BY <3>1, <3>3, <3>4
    <3> QED
      BY <3>3, <3>4, <3>5, <3>6 DEF Placed, mid
  <2> QED
    BY <1>2, <2>1, <2>2
<1> QED
  BY <1>1, <1>3, MovedFaithful

(* How far the cells of a ring are ahead of the write index.               *)
LEMMA RingAround ==
  ASSUME NEW a \in Slot, NEW b \in Slot, NEW k \in Nat, k < Ring
  PROVE  /\ k < Ahead(a, b) => Ahead(b, Wrap(a + k)) = Ring - Ahead(a, b) + k
         /\ k >= Ahead(a, b) => Ahead(b, Wrap(a + k)) = k - Ahead(a, b)
BY Sizes DEF Wrap, Ahead, Slot

(* The console takes what was read into its ring.                          *)
LEMMA GotReadFaithful ==
  ASSUME TypeOK, RoomInRing, Faithful, GotRead
  PROVE  Faithful'
<1> DEFINE B == Buffered
           m == Len(Fetched)
<1>1. /\ Fetched = reply.bytes /\ Fetched' = <<>> /\ B + m < Ring
      /\ sent' = sent /\ got' = got /\ queue' = queue /\ rd' = rd
      /\ wr' = Wrap(wr + m)
      /\ rx' = [i \in Slot |-> IF Ahead(wr, i) < m
                               THEN Fetched[Ahead(wr, i) + 1] ELSE rx[i]]
  BY DEF GotRead, RoomInRing, Fetched, Acked, peripheral
<1>2. /\ B \in Nat /\ B < Ring /\ m \in Nat /\ wr \in Slot /\ rd \in Slot
      /\ B = Ahead(rd, wr) /\ Held \in Seq(Byte) /\ Fetched \in Seq(Byte)
      /\ Len(Held) = B /\ Ring \in Nat /\ rd \in Nat
  BY Lengths, Sizes, SlotNat DEF TypeOK, Buffered
<1>3. Buffered' = B + m
  <2>1. Buffered' = Ahead(rd, Wrap(wr + m))
    BY <1>1 DEF Buffered, Ahead
  <2> HIDE DEF B, m
  <2> QED
    BY <1>1, <1>2, <2>1, RingMath
<1>4. ASSUME NEW k \in 1 .. B + m
      PROVE  rx'[Wrap(rd + k - 1)] = (Held \o Fetched)[k]
  <2> HIDE DEF B, m
  <2> DEFINE j == k - 1
             i == Wrap(rd + j)
  <2>1. j \in Nat /\ j < Ring /\ k = j + 1 /\ rd + k - 1 = rd + j
    BY <1>1, <1>2
  <2> HIDE DEF j
  <2>2. i \in Slot
    <3>1. rd < Ring
      BY <1>2, Sizes DEF Slot
    <3>2. rd + j \in Nat /\ rd + j < 2 * Ring
      BY <1>2, <2>1, <3>1
    <3> QED
      BY <3>2, RingMath
  <2>3. /\ j < B => Ahead(wr, i) = Ring - B + j
        /\ j >= B => Ahead(wr, i) = j - B
    BY <1>2, <2>1, RingAround
  <2> HIDE DEF i
  <2>4. CASE j < B
    <3>1. ~(Ahead(wr, i) < m)
      BY <1>1, <1>2, <2>1, <2>3, <2>4
    <3>2. rx'[i] = rx[i]
      BY <1>1, <2>2, <3>1
    <3>3. k \in 1 .. B
      BY <1>2, <2>1, <2>4
    <3>4. Held[k] = rx[i]
      BY <2>1, <3>3 DEF Held, B, i
    <3>5. (Held \o Fetched)[k] = Held[k]
      BY <1>2, <3>3
    <3> QED
      BY <2>1, <3>2, <3>4, <3>5 DEF i
  <2>5. CASE j >= B
    <3>1. Ahead(wr, i) < m /\ Ahead(wr, i) + 1 = k - B
      BY <1>1, <1>2, <2>1, <2>3, <2>5
    <3>2. rx'[i] = Fetched[k - B]
      BY <1>1, <2>2, <3>1
    <3>3. k \in B + 1 .. B + m
      BY <1>2, <2>1, <2>5
    <3>4. (Held \o Fetched)[k] = Fetched[k - B]
      BY <1>2, <3>3 DEF m
    <3> QED
      BY <2>1, <3>2, <3>4 DEF i
  <2>6. j < B \/ j >= B
    BY <1>2, <2>1
  <2> QED
    BY <2>4, <2>5, <2>6
<1>5. Held' = Held \o Fetched
  <2>1. Held' = [k \in 1 .. B + m |-> rx'[Wrap(rd + k - 1)]]
    BY <1>1, <1>3 DEF Held, Wrap
  <2>2. Held' = [k \in 1 .. B + m |-> (Held \o Fetched)[k]]
    BY <1>4, <2>1
  <2>3. /\ Held \o Fetched \in Seq(Byte)
        /\ Len(Held \o Fetched) = B + m
    BY <1>2
  <2>4. \A s \in Seq(Byte) : s = [k \in 1 .. Len(s) |-> s[k]]
    OBVIOUS
  <2> HIDE DEF B, m
  <2> QED
    BY <2>2, <2>3, <2>4
<1>6. ASSUME NEW byte, NEW from \in Nat, NEW upto,
             Placed(Held, Fetched, queue, byte, from, upto)
      PROVE  Placed(Held \o Fetched, <<>>, queue, byte, from, upto)
  <2>1. /\ Laid(Held \o Fetched, byte, from)
        /\ Len(Held \o Fetched) = Len(Held) + Len(Fetched)
    BY <1>2, <1>6, LaidJoin DEF Placed
  <2>2. PICK s : s = Held \o Fetched
    OBVIOUS
  <2>3. Len(s) = Len(Held) + Len(Fetched) /\ Laid(s, byte, from)
    BY <2>1, <2>2
  <2>4. /\ from + Len(s) = from + Len(Held) + Len(Fetched)
        /\ from + Len(s) + 0 = from + Len(Held) + Len(Fetched)
        /\ Len(<<>>) = 0
    BY <1>2, <2>3
  <2>5. Laid(<<>>, byte, from + Len(s))
    BY <2>4 DEF Laid
  <2>6. Placed(s, <<>>, queue, byte, from, upto)
    BY <1>6, <2>3, <2>4, <2>5 DEF Placed
  <2> QED
    BY <2>2, <2>6
<1> QED
  BY <1>1, <1>5, <1>6, MovedFaithful

(* What begins at the read index is the next frame.                        *)
LEMMA NextFrame ==
  ASSUME TypeOK, Buffered >= 2,
         NEW byte \in [Nat -> Byte], NEW at \in [Nat -> Nat],
         Len(got) <= Len(sent), Framed(sent, byte, at),
         Placed(Held, Fetched, queue, byte, at[Len(got)], at[Len(sent)])
  PROVE  /\ Len(got) + 1 \in 1 .. Len(sent)
         /\ sent[Len(got) + 1] \in Frame
         /\ at[Len(got) + 1] = at[Len(got)] + Len(sent[Len(got) + 1])
         /\ Laid(sent[Len(got) + 1], byte, at[Len(got)])
         /\ Plausible /\ BodyLen + 1 = Len(sent[Len(got) + 1])
<1> DEFINE n == Len(got)
           f == sent[n + 1]
<1>1. /\ n \in Nat /\ Len(sent) \in Nat /\ n <= Len(sent) /\ at[n] \in Nat
      /\ at[Len(sent)] \in Nat /\ Len(Held) = Buffered /\ Buffered \in Nat
      /\ Len(Fetched) \in Nat /\ Len(queue) \in Nat /\ rd \in Nat
  <2>1. Len(got) \in Nat /\ Len(sent) \in Nat
    BY Lengths
  <2>2. Len(Fetched) \in Nat /\ Len(queue) \in Nat
    BY Lengths
  <2>3. Len(Held) = Buffered /\ Buffered \in Nat /\ rd \in Nat
    BY Lengths, RingCells
  <2> QED
    BY <2>1, <2>2, <2>3
<1>2. /\ Laid(Held, byte, at[n])
      /\ at[n] + Buffered + Len(Fetched) + Len(queue) = at[Len(sent)]
  BY <1>1 DEF Placed
<1>3. n + 1 \in 1 .. Len(sent) /\ n + 1 - 1 = n
  <2> HIDE DEF n
  <2>1. at[n] < at[Len(sent)]
    BY SMTT(30), <1>1, <1>2
  <2>2. n # Len(sent)
    BY <1>1, <2>1
  <2> QED
    BY <1>1, <2>2
<1>4. /\ f \in Frame /\ Laid(f, byte, at[n]) /\ at[n + 1] = at[n] + Len(f)
  <2>1. \A i \in 1 .. Len(sent) : /\ sent[i] \in Frame
                                 /\ at[i] = at[i - 1] + Len(sent[i])
                                 /\ Laid(sent[i], byte, at[i - 1])
    BY DEF Framed
  <2> DEFINE i == n + 1
  <2>2. /\ sent[i] \in Frame /\ at[i] = at[i - 1] + Len(sent[i])
        /\ Laid(sent[i], byte, at[i - 1])
    <3> HIDE DEF i
    <3> QED
      BY <1>3, <2>1 DEF i
  <2>3. i = n + 1 /\ i - 1 = n /\ f = sent[i]
    BY <1>3
  <2> HIDE DEF n, f, i
  <2> QED
    BY <2>2, <2>3
<1> HIDE DEF f, n
<1>5. /\ f \in Seq(Byte) /\ Len(f) \in Nat /\ Len(f) >= 2 /\ Len(f) = f[1] + 1
      /\ f[2] \in DOMAIN Flen
      /\ f[1] >= Flen[f[2]].min /\ f[1] <= Flen[f[2]].max
  BY <1>4, FrameAssumption
<1>6. Held[1] = f[1] /\ Held[2] = f[2]
  <2>0. Len(f) \in Nat /\ Len(f) >= 2
    BY <1>5
  <2>1. 1 \in 1 .. Len(f) /\ 2 \in 1 .. Len(f)
    BY <2>0
  <2>2. 1 \in 1 .. Len(Held) /\ 2 \in 1 .. Len(Held)
    BY <1>1
  <2>3. at[n] \in Nat
    BY <1>1
  <2>4. Held[1] = byte[at[n] + 1 - 1] /\ Held[2] = byte[at[n] + 2 - 1]
    BY <1>2, <2>2 DEF Laid
  <2>5. f[1] = byte[at[n] + 1 - 1] /\ f[2] = byte[at[n] + 2 - 1]
    BY <1>4, <2>1 DEF Laid
  <2> QED
    BY <2>4, <2>5
<1>7. Held[1] = BodyLen /\ Held[2] = Type
  <2>1. 1 \in 1 .. Buffered /\ 2 \in 1 .. Buffered
    BY <1>1
  <2>0. rd \in Nat /\ rd < Ring
    BY RingCells
  <2>2. rd + 1 - 1 = rd /\ rd + 2 - 1 = rd + 1 /\ Wrap(rd) = rd
    BY <2>0, Sizes DEF Wrap
  <2> QED
    BY <2>1, <2>2 DEF Held, BodyLen, Type
<1>8. Plausible /\ BodyLen + 1 = Len(f)
  BY <1>5, <1>6, <1>7 DEF Plausible
<1> QED
  BY <1>3, <1>4, <1>8 DEF f, n

(* A slip never happens.                                                   *)
LEMMA NoSlip ==
  ASSUME TypeOK, Faithful, Slip
  PROVE  FALSE
<1>1. PICK byte \in [Nat -> Byte], at \in [Nat -> Nat] :
        /\ Framed(sent, byte, at)
        /\ Placed(Held, Fetched, queue, byte, at[Len(got)], at[Len(sent)])
  BY DEF Faithful
<1>2. Len(got) <= Len(sent) /\ Buffered >= 2 /\ ~Plausible
  BY DEF Faithful, Slip
<1> QED
  BY <1>1, <1>2, NextFrame

(* The frame dispatched is the next.                                       *)
LEMMA DispatchFaithful ==
  ASSUME TypeOK, Faithful, Dispatch
  PROVE  Faithful'
<1>1. PICK byte \in [Nat -> Byte], at \in [Nat -> Nat] :
        /\ Framed(sent, byte, at)
        /\ Placed(Held, Fetched, queue, byte, at[Len(got)], at[Len(sent)])
  BY DEF Faithful
<1> DEFINE n == Len(got)
           f == sent[n + 1]
           B == Buffered
           m == BodyLen + 1
           g == [i \in 1 .. BodyLen + 1 |-> rx[Wrap(rd + i - 1)]]
<1>2. /\ n + 1 \in 1 .. Len(sent) /\ f \in Frame
      /\ at[n + 1] = at[n] + Len(f) /\ Laid(f, byte, at[n]) /\ m = Len(f)
  <2>1. Len(got) <= Len(sent) /\ Buffered >= 2
    BY DEF Faithful, Dispatch
  <2> QED
    BY <1>1, <2>1, NextFrame
<1>3. /\ f \in Seq(Byte) /\ Len(f) \in Nat /\ Len(f) >= 2
  <2> HIDE DEF f
  <2> QED
    BY <1>2, FrameAssumption
<1>4. /\ Fetched = <<>> /\ Fetched' = <<>> /\ sent' = sent /\ queue' = queue
      /\ got' = Append(got, g) /\ rx' = rx /\ wr' = wr /\ rd' = Wrap(rd + m)
      /\ m <= B
  <2>1. pc = "parse" /\ pc' = "handler"
    BY DEF Dispatch
  <2>2. Fetched = <<>> /\ Fetched' = <<>>
    BY <2>1 DEF Fetched, Acked
  <2>3. rd' = Wrap(rd + m)
    <3>1. BodyLen \in Int /\ rd \in Int
      BY RingCells, HeadTypes DEF Dispatch
    <3>2. rd' = Wrap(rd + BodyLen + 1)
      BY DEF Dispatch
    <3>3. rd + BodyLen + 1 = rd + (BodyLen + 1)
      BY <3>1
    <3> QED
      BY <3>2, <3>3
  <2> QED
    BY <2>2, <2>3 DEF Dispatch, peripheral, Whole
<1>5. /\ n \in Nat /\ Len(sent) \in Nat /\ at[n] \in Nat
      /\ B \in Nat /\ B < Ring /\ Ring \in Nat /\ m \in Nat
      /\ Held \in Seq(Byte) /\ Len(Held) = B
      /\ queue \in Seq(Byte) /\ Len(queue) \in Nat
      /\ rd \in Nat /\ rd < Ring /\ wr \in Nat /\ wr < Ring
      /\ got \in Seq(Seq(Byte))
  <2>1. Len(got) \in Nat /\ Len(sent) \in Nat /\ Len(queue) \in Nat
    BY Lengths
  <2>2. at[n] \in Nat
    BY <2>1
  <2>3. m \in Nat
    BY <1>2, <1>3
  <2>4. /\ B \in Nat /\ B < Ring /\ Held \in Seq(Byte) /\ Len(Held) = B
        /\ queue \in Seq(Byte) /\ got \in Seq(Seq(Byte))
    BY Lengths
  <2> QED
    BY <2>1, <2>2, <2>3, <2>4, RingCells, Sizes
<1> HIDE DEF m
<1>5a. /\ m \in Nat /\ m <= B /\ B \in Nat /\ B < Ring /\ Ring \in Nat
       /\ rd \in Nat /\ rd < Ring /\ wr \in Nat /\ wr < Ring
       /\ at[n] \in Nat /\ n \in Nat
  BY <1>4, <1>5
<1>6. /\ Laid(Held, byte, at[n]) /\ Laid(queue, byte, at[n] + B)
      /\ at[n] + B + Len(queue) = at[Len(sent)]
  <2>1. Len(<<>>) = 0 /\ at[n] + B + 0 = at[n] + B
    BY <1>5
  <2> QED
    BY <1>1, <1>4, <1>5, <2>1 DEF Placed
<1>7. Buffered' = B - m
  <2>1. Buffered' = Ahead(Wrap(rd + m), wr)
    BY <1>4 DEF Buffered, Ahead
  <2>2. B = Ahead(rd, wr)
    BY DEF Buffered
  <2> HIDE DEF B, m
  <2> QED
    BY <1>5a, <2>1, <2>2 DEF Ahead, Wrap
<1>8. ASSUME NEW k \in 1 .. B - m
      PROVE  k + m \in 1 .. B /\ rx[Wrap(Wrap(rd + m) + k - 1)] = Held[k + m]
  <2> HIDE DEF B, m
  <2>1. k + m \in 1 .. B /\ rd + (k + m) - 1 = rd + m + k - 1
    BY <1>5a
  <2>2. Wrap(Wrap(rd + m) + k - 1) = Wrap(rd + m + k - 1)
    BY <1>5a DEF Wrap
  <2>3. Held[k + m] = rx[Wrap(rd + (k + m) - 1)]
    BY <2>1 DEF Held, B
  <2> QED
    BY <2>1, <2>2, <2>3
<1>9. g = f
  <2>0. g = [i \in 1 .. m |-> rx[Wrap(rd + i - 1)]]
    BY DEF m
  <2>1. g \in [1 .. m -> Byte]
    <3>1. ASSUME NEW i \in 1 .. m PROVE rx[Wrap(rd + i - 1)] = Held[i]
      <4>1. i \in 1 .. B
        BY <1>5a
      <4> QED
        BY <4>1 DEF Held
    <3>2. ASSUME NEW i \in 1 .. m PROVE Held[i] \in Byte
      <4>1. i \in 1 .. B
        BY <1>5a
      <4> QED
        BY <4>1, <1>5
    <3> QED
      BY <2>0, <3>1, <3>2
  <2> HIDE DEF g
  <2>2. g \in Seq(Byte) /\ Len(g) = m
    BY <1>5a, <2>1
  <2>3. Laid(g, byte, at[n])
    <3>1. ASSUME NEW i \in 1 .. m PROVE g[i] = byte[at[n] + i - 1]
      <4>1. i \in 1 .. B
        BY <1>5a
      <4>2. g[i] = Held[i]
        BY <2>0, <4>1 DEF Held
      <4> QED
        BY <1>5, <1>6, <4>1, <4>2 DEF Laid
    <3> QED
      BY <2>2, <3>1 DEF Laid
  <2> HIDE DEF g, f
  <2> QED
    BY <1>2, <1>3, <2>2, <2>3, LaidSame
<1>10. Laid(Held', byte, at[n] + m) /\ Len(Held') = B - m
  <2>1. Held' = [k \in 1 .. B - m |-> rx[Wrap(Wrap(rd + m) + k - 1)]]
    BY <1>4, <1>7 DEF Held, Wrap
  <2> HIDE DEF B, m
  <2>2. B - m \in Nat
    BY <1>5a
  <2>3. Len(Held') = B - m
    BY <2>1, <2>2
  <2>4. ASSUME NEW k \in 1 .. B - m PROVE Held'[k] = byte[at[n] + m + k - 1]
    <3>1. k + m \in 1 .. Len(Held) /\ Held'[k] = Held[k + m]
      BY <1>5, <1>8, <2>1
    <3>2. at[n] + m + k - 1 = at[n] + (k + m) - 1
      BY <1>5a
    <3> QED
      BY <1>6, <3>1, <3>2 DEF Laid
  <2> QED
    BY <2>3, <2>4 DEF Laid
<1>11. Placed(Held', Fetched', queue', byte, at[n + 1], at[Len(sent)])
  <2>1. at[n + 1] = at[n] + m
    BY <1>2
  <2> HIDE DEF B, m
  <2>2. /\ at[n] + m + (B - m) = at[n] + B
        /\ at[n] + B + 0 = at[n] + B /\ Len(<<>>) = 0
    BY <1>5a
  <2>3. Laid(<<>>, byte, at[n] + B)
    BY <2>2 DEF Laid
  <2> QED
    BY <1>4, <1>6, <1>10, <2>1, <2>2, <2>3 DEF Placed
<1>12. Len(got') = n + 1
  BY <1>4, <1>5
<1>13. ASSUME NEW i \in 1 .. n + 1 PROVE got'[i] = sent[i]
  <2>1. \A j \in 1 .. n : got[j] = sent[j]
    BY DEF Faithful
  <2>2. /\ \A j \in 1 .. n : Append(got, g)[j] = got[j]
        /\ Append(got, g)[n + 1] = g
    <3> HIDE DEF g
    <3> QED
      BY <1>5
  <2> HIDE DEF n, g
  <2>3. i \in 1 .. n \/ i = n + 1
    BY <1>5a
  <2> QED
    BY <1>4, <1>9, <2>1, <2>2, <2>3
<1>14. Len(got') <= Len(sent')
  BY <1>2, <1>4, <1>5, <1>12
<1> QED
  BY <1>1, <1>4, <1>11, <1>12, <1>13, <1>14 DEF Faithful

(* Bytes that no late READ has swallowed are dispatched in order, frame by *)
(* frame as they were sent: in the ring, in the mailbox and in the         *)
(* peripheral is the rest of the stream, without a gap.                    *)
THEOREM NothingReordered == Spec => []InOrder
<1>1. Init => Faithful
  <2> SUFFICES ASSUME Init PROVE Faithful
    OBVIOUS
  <2>1. /\ sent = <<>> /\ got = <<>> /\ queue = <<>> /\ Fetched = <<>>
        /\ Buffered = 0 /\ Len(<<>>) = 0
    BY DEF Init, Fetched, Acked, Buffered, Ahead
  <2>2. Len(Held) = 0
    BY <2>1 DEF Held
  <2> DEFINE byte == [x \in Nat |-> 0]
             at == [x \in Nat |-> 0]
  <2>3. byte \in [Nat -> Byte] /\ at \in [Nat -> Nat] /\ at[0] = 0
    BY SizeAssumption
  <2> HIDE DEF byte, at
  <2>4. Framed(sent, byte, at)
    BY <2>1, <2>3 DEF Framed
  <2>5. Placed(Held, Fetched, queue, byte, at[Len(got)], at[Len(sent)])
    BY <2>1, <2>2, <2>3 DEF Placed, Laid
  <2>6. Len(got) <= Len(sent) /\ \A i \in 1 .. Len(got) : got[i] = sent[i]
    BY <2>1
  <2> QED
    BY <2>3, <2>4, <2>5, <2>6 DEF Faithful
<1>2. /\ TypeOK /\ RoomInRing /\ Own /\ (~lost => Faithful) /\ [Next]_vars
      => (~lost => Faithful)'
  <2> SUFFICES ASSUME TypeOK, RoomInRing, Own, ~lost => Faithful,
                      [Next]_vars, ~lost'
               PROVE  Faithful'
    OBVIOUS
  <2>1. ~lost /\ Faithful
    <3>1. CASE Complete
      <4>1. \/ lost' = lost
            \/ \E n : lost' = (lost \/ (pc # "read" /\ n > 0))
        BY Zenon, <3>1 DEF Complete
      <4>2. lost \in BOOLEAN
        BY DEF TypeOK
      <4>3. CASE lost' = lost
        BY <4>3
      <4>4. ASSUME NEW n, lost' = (lost \/ (pc # "read" /\ n > 0))
            PROVE  ~lost
        BY SMT, <4>2, <4>4
      <4> QED
        BY <4>1, <4>3, <4>4
    <3>2. CASE ~Complete
      <4>1. lost' = lost
        BY <3>2 DEF Next, vars, Peripheral, Console, Send, PickUp, StartPump,
             StartWrite, TimeOut, Written, GotStatus, GotRead, Dispatch, Slip,
             HandlerDone, ParseDone
      <4> QED
        BY <4>1
    <3> QED
      BY <3>1, <3>2
  <2>2. ASSUME NEW f \in Frame, Send(f) PROVE Faithful'
    BY <2>1, <2>2, SendFaithful
  <2>3. CASE Complete
    BY <2>1, <2>3, CompleteFaithful
  <2>4. CASE GotRead
    BY <2>1, <2>4, GotReadFaithful
  <2>5. CASE Dispatch
    BY <2>1, <2>5, DispatchFaithful
  <2>6. CASE Slip
    BY <2>1, <2>6, NoSlip
  <2>7. CASE PickUp \/ HandlerDone \/ ParseDone \/ Written
    <3>1. Fetched' = Fetched /\ UNCHANGED <<queue, ring, sent, got>>
      BY <2>7 DEF PickUp, HandlerDone, ParseDone, Written, After, Fetched,
                  Acked, peripheral, mailbox
    <3> QED
      BY <2>1, <3>1, StillFaithful
  <2>8. CASE StartPump \/ StartWrite \/ TimeOut
    <3>1. Fetched' = Fetched /\ UNCHANGED <<queue, ring, sent, got>>
      BY <2>8 DEF StartPump, StartWrite, TimeOut, After, Fetched, Acked,
                  peripheral, mailbox
    <3> QED
      BY <2>1, <3>1, StillFaithful
  <2>9. CASE GotStatus
    <3>1. seq' # ackseq' \/ pc' = "parse"
      BY <2>9, MailboxTypes DEF GotStatus, Stage, peripheral
    <3>2. Fetched' = Fetched /\ UNCHANGED <<queue, ring, sent, got>>
      BY <2>9, <3>1 DEF GotStatus, Fetched, Acked, peripheral
    <3> QED
      BY <2>1, <3>2, StillFaithful
  <2>10. CASE UNCHANGED vars
    <3>1. Fetched' = Fetched /\ UNCHANGED <<queue, ring, sent, got>>
      BY <2>10 DEF vars, Fetched, Acked, peripheral, mailbox
    <3> QED
      BY <2>1, <3>1, StillFaithful
  <2> QED
    BY <2>2, <2>3, <2>4, <2>5, <2>6, <2>7, <2>8, <2>9, <2>10
    DEF Next, Console, Peripheral
<1>3. (~lost => Faithful) => InOrder
  BY DEF InOrder, Faithful
<1> QED
  BY <1>1, <1>2, <1>3, TypeCorrect, RoomEnough, OwnKept, PTL DEF Spec
=============================================================================
